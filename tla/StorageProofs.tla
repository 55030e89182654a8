--------------------------- MODULE StorageProofs ---------------------------
(***************************************************************************)
(* IndexedStorage and FileStorageLock: what indexes name, for any number   *)
(* of documents and indexes and whatever the indexes are on; and that the  *)
(* lock does its work, for any number of goroutines and files, and         *)
(* whatever operations they call.                                          *)
(***************************************************************************)
EXTENDS IndexedStorage, FileStorageLock, FiniteSetTheorems, SequenceTheorems,
        WellFoundedInduction, TLAPS

-----------------------------------------------------------------------------
(***************************************************************************)
(* Sequences of document IDs.                                              *)
(***************************************************************************)
LEMMA MinIsLeast ==
    ASSUME NEW S, S \subseteq Nat, S # {}
    PROVE  Min(S) \in S /\ \A y \in S : Min(S) =< y
<1> DEFINE R == OpToRel(<, Nat)
<1>1. \E x \in S : \A y \in S : <<y, x>> \notin R
    <2> HIDE DEF R
    <2> QED BY NatLessThanWellFounded, WFMin DEF R
<1>2. \A x, y \in S : y < x => <<y, x>> \in R
    BY DEF OpToRel
<1> HIDE DEF R
<1>3. \E x \in S : \A y \in S : x =< y
    <2>1. PICK x \in S : \A y \in S : <<y, x>> \notin R
        BY <1>1
    <2>2. ASSUME NEW y \in S PROVE x =< y
        <3>1. ~ (y < x)
            BY <2>1, <1>2
        <3>2. x \in Nat /\ y \in Nat
            OBVIOUS
        <3> QED BY <3>1, <3>2
    <2> QED BY <2>2
<1> QED BY <1>3 DEF Min

LEMMA RemoveAtProperties ==
    ASSUME NEW S, NEW s \in Seq(S), NEW i \in 1 .. Len(s)
    PROVE  /\ RemoveAt(s, i) \in Seq(S)
           /\ Len(RemoveAt(s, i)) = Len(s) - 1
           /\ \A j \in 1 .. Len(s) - 1 : RemoveAt(s, i)[j] = IF j < i THEN s[j] ELSE s[j + 1]
<1> DEFINE front == SubSeq(s, 1, i - 1)
           back  == SubSeq(s, i + 1, Len(s))
<1>1. front \in Seq(S) /\ Len(front) = i - 1 /\ \A j \in 1 .. i - 1 : front[j] = s[j]
    <2>1. 1 \in Int /\ i - 1 \in Int /\ \A j \in 1 .. i - 1 : s[j] \in S
        OBVIOUS
    <2>2. \A j \in 1 .. i - 1 : front[j] = s[1 + j - 1]
        BY <2>1, SubSeqProperties
    <2> QED BY <2>1, <2>2, SubSeqProperties
<1>2. /\ back \in Seq(S) /\ Len(back) = Len(s) - i
      /\ \A j \in 1 .. Len(s) - i : back[j] = s[i + j]
    <2>1. i + 1 \in Int /\ Len(s) \in Int /\ \A j \in i + 1 .. Len(s) : s[j] \in S
        OBVIOUS
    <2>2. \A j \in 1 .. Len(s) - (i + 1) + 1 : back[j] = s[i + 1 + j - 1]
        BY <2>1, SubSeqProperties
    <2>3. back \in Seq(S) /\ Len(back) = Len(s) - i
        BY <2>1, SubSeqProperties
    <2> HIDE DEF back
    <2> QED BY <2>1, <2>2, <2>3
<1>3. RemoveAt(s, i) = front \o back
    BY DEF RemoveAt
<1> HIDE DEF front, back
<1>4. /\ front \o back \in Seq(S) /\ Len(front \o back) = Len(front) + Len(back)
      /\ \A j \in 1 .. Len(front) + Len(back) :
             (front \o back)[j] = IF j <= Len(front) THEN front[j] ELSE back[j - Len(front)]
    BY <1>1, <1>2, ConcatProperties
<1>5. Len(s) \in Nat
    OBVIOUS
<1>6. Len(front) + Len(back) = Len(s) - 1
    BY <1>1, <1>2, <1>5
<1>7. ASSUME NEW j \in 1 .. Len(s) - 1
      PROVE  (front \o back)[j] = IF j < i THEN s[j] ELSE s[j + 1]
    <2>1. CASE j < i
        <3>1. j \in 1 .. i - 1
            BY <1>5, <2>1
        <3> QED BY <1>1, <1>4, <1>6, <2>1, <3>1
    <2>2. CASE ~ (j < i)
        <3>1. j - (i - 1) \in 1 .. Len(s) - i /\ i + (j - (i - 1)) = j + 1 /\ ~ (j <= i - 1)
            BY <1>5, <2>2
        <3>2. back[j - (i - 1)] = s[j + 1]
            BY <1>2, <3>1
        <3>3. (front \o back)[j] = back[j - (i - 1)]
            BY <1>1, <1>4, <1>6, <3>1
        <3> QED BY <2>2, <3>2, <3>3
    <2> QED BY <2>1, <2>2
<1> QED BY <1>3, <1>4, <1>6, <1>7

\* What is removed, if anything, is at one position; what stands behind moves up.
LEMMA RemoveFirstAt ==
    ASSUME NEW S, NEW s \in Seq(S), NEW e
    PROVE  LET t == RemoveFirst(s, e)
           IN  \/ t = s
               \/ \E m \in 1 .. Len(s) :
                     /\ s[m] = e /\ t \in Seq(S) /\ Len(t) = Len(s) - 1
                     /\ \A j \in 1 .. Len(s) - 1 : t[j] = IF j < m THEN s[j] ELSE s[j + 1]
<1>1. CASE \E i \in 1 .. Len(s) : s[i] = e
    <2> DEFINE I == {i \in 1 .. Len(s) : s[i] = e}
               m == Min(I)
               t == RemoveAt(s, m)
    <2>1. m \in I
        <3>1. I \subseteq Nat /\ I # {}
            BY <1>1
        <3> HIDE DEF I
        <3> QED BY <3>1, MinIsLeast
    <2>2. RemoveFirst(s, e) = t
        BY <1>1 DEF RemoveFirst, SelectInSeq
    <2> HIDE DEF m
    <2>3. m \in 1 .. Len(s) /\ s[m] = e
        BY <2>1
    <2>4. /\ t \in Seq(S) /\ Len(t) = Len(s) - 1
          /\ \A j \in 1 .. Len(s) - 1 : t[j] = IF j < m THEN s[j] ELSE s[j + 1]
        BY <2>3, RemoveAtProperties
    <2> HIDE DEF t
    <2> QED BY <2>2, <2>3, <2>4
<1>2. CASE ~ \E i \in 1 .. Len(s) : s[i] = e
    BY <1>2 DEF RemoveFirst
<1> QED BY <1>1, <1>2

LEMMA RemoveFirstProperties ==
    ASSUME NEW S, NEW s \in Seq(S), NEW e
    PROVE  /\ RemoveFirst(s, e) \in Seq(S)
           /\ Len(RemoveFirst(s, e)) <= Len(s)
           /\ ToSet(s) \ {e} \subseteq ToSet(RemoveFirst(s, e))
<1> DEFINE t == RemoveFirst(s, e)
<1>1. Len(s) \in Nat
    OBVIOUS
<1>2. ASSUME NEW m \in 1 .. Len(s), s[m] = e, t \in Seq(S), Len(t) = Len(s) - 1,
             \A j \in 1 .. Len(s) - 1 : t[j] = IF j < m THEN s[j] ELSE s[j + 1]
      PROVE  Len(t) <= Len(s) /\ ToSet(s) \ {e} \subseteq ToSet(t)
    <2> HIDE DEF t
    <2>1. ASSUME NEW i \in 1 .. Len(s), s[i] # e PROVE \E j \in 1 .. Len(t) : t[j] = s[i]
        <3>1. CASE i < m
            <4>1. i \in 1 .. Len(s) - 1
                BY <1>1, <3>1
            <4> QED BY <1>2, <3>1, <4>1
        <3>2. CASE m < i
            <4>1. i - 1 \in 1 .. Len(s) - 1 /\ ~ (i - 1 < m) /\ (i - 1) + 1 = i
                BY <1>1, <3>2
            <4>2. t[i - 1] = s[i]
                BY <1>2, <4>1
            <4> QED BY <1>2, <4>1, <4>2
        <3>3. i # m
            BY <1>2, <2>1
        <3> QED BY <3>1, <3>2, <3>3
    <2>2. DOMAIN s = 1 .. Len(s) /\ DOMAIN t = 1 .. Len(t)
        BY <1>2
    <2>3. ToSet(s) \ {e} \subseteq ToSet(t)
        BY <2>1, <2>2 DEF ToSet
    <2> QED BY <1>1, <1>2, <2>3
<1>3. CASE t = s
    BY <1>1, <1>3
<1> HIDE DEF t
<1>4. CASE t # s
    <2>1. PICK m \in 1 .. Len(s) :
                 /\ s[m] = e /\ t \in Seq(S) /\ Len(t) = Len(s) - 1
                 /\ \A j \in 1 .. Len(s) - 1 : t[j] = IF j < m THEN s[j] ELSE s[j + 1]
        BY <1>4, RemoveFirstAt DEF t
    <2> QED BY <1>2, <2>1 DEF t
<1> QED BY <1>3, <1>4 DEF t

LEMMA AppendTakes ==
    ASSUME NEW S, NEW s \in Seq(S), NEW e \in S
    PROVE  /\ Append(s, e) \in Seq(S) /\ Len(Append(s, e)) = Len(s) + 1
           /\ ToSet(s) \cup {e} \subseteq ToSet(Append(s, e))
<1> DEFINE t == Append(s, e)
<1>1. t \in Seq(S) /\ Len(t) = Len(s) + 1
    OBVIOUS
<1>2. (\A i \in 1 .. Len(s) : t[i] = s[i]) /\ t[Len(s) + 1] = e
    OBVIOUS
<1> HIDE DEF t
<1>3. /\ DOMAIN s = 1 .. Len(s) /\ DOMAIN t = 1 .. Len(s) + 1 /\ Len(s) \in Nat
      /\ DOMAIN s \subseteq DOMAIN t /\ Len(s) + 1 \in DOMAIN t
    BY <1>1
<1>4. ToSet(s) \cup {e} \subseteq ToSet(t)
    BY <1>2, <1>3 DEF ToSet
<1> QED BY <1>1, <1>4 DEF t

LEMMA RepeatProperties ==
    ASSUME NEW S, NEW s \in Seq(S), NEW e \in S, NEW c \in Nat
    PROVE  /\ s \o [i \in 1 .. c |-> e] \in Seq(S)
           /\ ToSet(s) \subseteq ToSet(s \o [i \in 1 .. c |-> e])
           /\ c > 0 => e \in ToSet(s \o [i \in 1 .. c |-> e])
<1> DEFINE t == [i \in 1 .. c |-> e]
<1>1. t \in Seq(S) /\ Len(t) = c /\ \A j \in 1 .. c : t[j] = e
    OBVIOUS
<1> HIDE DEF t
<1>2. /\ s \o t \in Seq(S) /\ Len(s \o t) = Len(s) + c
      /\ \A i \in 1 .. Len(s) + c : (s \o t)[i] = IF i <= Len(s) THEN s[i] ELSE t[i - Len(s)]
    BY <1>1, ConcatProperties
<1> DEFINE u == s \o t
<1>3. u \in Seq(S)
    BY <1>2
<1>4. \A i \in 1 .. Len(s) : i \in 1 .. Len(u) /\ u[i] = s[i]
    BY <1>2
<1>5. c > 0 => Len(s) + 1 \in 1 .. Len(u) /\ u[Len(s) + 1] = e
    BY <1>1, <1>2
<1> HIDE DEF u
<1>6. ToSet(s) \subseteq ToSet(u) /\ (c > 0 => e \in ToSet(u))
    BY <1>3, <1>4, <1>5 DEF ToSet
<1> QED BY <1>3, <1>6 DEF u, t

-----------------------------------------------------------------------------
(***************************************************************************)
(* Types.                                                                  *)
(***************************************************************************)
Typed ==
    /\ files    \in [IDs -> Document \cup {NoFile, Torn}]
    /\ metadata \in SUBSET Names
    /\ indexes  \in SUBSET Names
    /\ entries  \in [Names -> [Keys -> Seq(IDs)]]
    /\ vectors  \in [Names -> [IDs -> Vectors \cup {Absent}]]
    /\ op       \in Operation \cup {Idle}
    /\ covered  \in [Names -> SUBSET IDs]

Bounded == \A n \in Names, k \in Keys : Len(entries[n][k]) <= MaxEntries

LEMMA NoEntriesType == NoEntries \in [Keys -> Seq(IDs)] /\ \A k \in Keys : NoEntries[k] = <<>>
BY DEF NoEntries

LEMMA NoVectorsType ==
    NoVectors \in [IDs -> Vectors \cup {Absent}] /\ \A id \in IDs : NoVectors[id] = Absent
BY DEF NoVectors

LEMMA TokensAreCounted ==
    ASSUME NEW doc, NEW k
    PROVE  tokenizeJSON(doc, k) \in Nat
<1> DEFINE inFields  == {f \in Fields : k = <<doc.field[f]>>}
           inPayload == {f \in Fields : k = <<doc.payload[f]>>}
<1>1. Cardinality(inFields) \in Nat /\ Cardinality(inPayload) \in Nat
    BY StorageAssumption, FS_Subset, FS_CardinalityType DEF StorageAssumption
<1> QED BY <1>1 DEF tokenizeJSON

\* What a step of an operation makes of op.
LEMMA OperationSteps ==
    ASSUME op \in Operation
    PROVE  /\ op.id \in IDs /\ op.todo \in SUBSET Names
           /\ op.type \in {"insert", "delete"} /\ op.step \in {"write", "lookup", "index"}
           /\ op.type = "insert" => op.doc \in Docs
           /\ op.step = "write" => op.type = "insert" /\ op.todo = {}
           /\ op.todo # {} => op.step = "index"
           /\ op.step = "write" => [op EXCEPT !.step = "lookup"] \in Operation
           /\ \A s \in SUBSET Names :
                  /\ op.step = "lookup" => [op EXCEPT !.step = "index", !.todo = s] \in Operation
                  /\ op.step = "index" => [op EXCEPT !.todo = s] \in Operation
BY DEF Operation

\* An index is crossed off the list of those still to be reached.
Without(n) == [op EXCEPT !.todo = @ \ {n}]

LEMMA TodoShrinks ==
    ASSUME op \in Operation, NEW n
    PROVE  /\ Without(n) \in Operation /\ Without(n) # Idle
           /\ Without(n).id = op.id /\ Without(n).type = op.type /\ Without(n).step = op.step
           /\ Without(n).todo = op.todo \ {n}
           /\ op.type = "insert" => Without(n).doc = op.doc
<1>1. Without(n) \in Operation
    <2>1. CASE op.todo = {}
        <3>1. op.todo \ {n} = op.todo
            BY <2>1
        <3> QED BY <3>1 DEF Operation, Without
    <2>2. CASE op.todo # {}
        <3>1. op.step = "index" /\ op.todo \ {n} \in SUBSET Names
            BY <2>2, OperationSteps
        <3> QED BY <3>1, OperationSteps DEF Without
    <2> QED BY <2>1, <2>2
<1> QED BY <1>1, IdleAssumption DEF Operation, Without, IdleAssumption

(***************************************************************************)
(* What inserting into an index, and deleting from one, do to its entries. *)
(***************************************************************************)
EntriesType == entries \in [Names -> [Keys -> Seq(IDs)]]

OthersKept(n) == \A m \in Names : m # n => entries'[m] = entries[m]

LEMMA BTreeTakes ==
    ASSUME Typed, NEW n \in Names, NEW id \in IDs, NEW doc \in Docs, insertBTree(n, id, doc)
    PROVE  /\ EntriesType' /\ OthersKept(n)
           /\ \A k \in Keys : ToSet(entries[n][k]) \subseteq ToSet(entries'[n][k])
           /\ ~ Definition[n].unique =>
                 id \in ToSet(entries'[n][buildCompositeKey(Definition[n].fields, doc)])
           /\ Definition[n].unique /\ (\A k \in Keys : Len(entries[n][k]) <= 1)
                 => \A k \in Keys : Len(entries'[n][k]) <= 1
<1> DEFINE key == buildCompositeKey(Definition[n].fields, doc)
<1>1. key \in Keys
    BY KeysAssumption DEF KeysAssumption
<1>2. CASE Definition[n].unique /\ entries[n][key] # <<>>
    <2>1. UNCHANGED entries
        BY <1>2 DEF insertBTree
    <2> QED BY <1>2, <2>1 DEF Typed, EntriesType, OthersKept
<1>3. CASE ~ (Definition[n].unique /\ entries[n][key] # <<>>)
    <2>1. entries' = [entries EXCEPT ![n][key] = Append(@, id)]
        BY <1>3 DEF insertBTree
    <2> HIDE DEF key
    <2> DEFINE old == entries[n][key]
               new == Append(old, id)
    <2>2. old \in Seq(IDs)
        BY <1>1 DEF Typed
    <2>3. entries' = [entries EXCEPT ![n][key] = new]
        BY <2>1
    <2> HIDE DEF old
    <2>4. new \in Seq(IDs) /\ Len(new) = Len(old) + 1 /\ ToSet(old) \cup {id} \subseteq ToSet(new)
        BY <2>2, AppendTakes
    <2> HIDE DEF new
    <2>5. entries'[n][key] = new /\ \A k \in Keys : k # key => entries'[n][k] = entries[n][k]
        BY <1>1, <2>3 DEF Typed
    <2>6. EntriesType' /\ OthersKept(n)
        BY <1>1, <2>3, <2>4 DEF Typed, EntriesType, OthersKept
    <2>7. \A k \in Keys : ToSet(entries[n][k]) \subseteq ToSet(entries'[n][k])
        BY <2>4, <2>5 DEF old
    <2>8. ~ Definition[n].unique => id \in ToSet(entries'[n][key])
        BY <2>4, <2>5
    <2>9. Definition[n].unique => Len(entries'[n][key]) <= 1
        <3>1. Definition[n].unique => old = <<>>
            BY <1>3 DEF old
        <3>2. old = <<>> => Len(entries'[n][key]) <= 1
            <4>1. old = <<>> => Len(old) = 0
                OBVIOUS
            <4>2. Len(new) = Len(old) + 1
                BY <2>4
            <4>3. entries'[n][key] = new
                BY <2>5
            <4>4. old = <<>> => Len(new) <= 1
                BY <4>1, <4>2
            <4> QED BY <4>3, <4>4
        <3> QED BY <3>1, <3>2
    <2>10. ASSUME Definition[n].unique, \A k \in Keys : Len(entries[n][k]) <= 1, NEW k \in Keys
           PROVE  Len(entries'[n][k]) <= 1
        <3>1. Len(entries'[n][key]) <= 1
            BY <2>9, <2>10
        <3>2. k # key => Len(entries'[n][k]) <= 1
            BY <2>5, <2>10
        <3> QED BY <3>1, <3>2
    <2> QED BY <2>6, <2>7, <2>8, <2>10 DEF key
<1> QED BY <1>2, <1>3

LEMMA GINTakes ==
    ASSUME Typed, NEW n \in Names, NEW id \in IDs, NEW doc \in Docs, insertGIN(n, id, doc)
    PROVE  /\ EntriesType' /\ OthersKept(n)
           /\ \A k \in Keys : /\ ToSet(entries[n][k]) \subseteq ToSet(entries'[n][k])
                              /\ tokenizeJSON(doc, k) > 0 => id \in ToSet(entries'[n][k])
<1> DEFINE longer(k) == entries[n][k] \o [i \in 1 .. tokenizeJSON(doc, k) |-> id]
<1>1. \A k \in Keys : /\ longer(k) \in Seq(IDs)
                      /\ ToSet(entries[n][k]) \subseteq ToSet(longer(k))
                      /\ tokenizeJSON(doc, k) > 0 => id \in ToSet(longer(k))
    <2> SUFFICES ASSUME NEW k \in Keys
                 PROVE  /\ longer(k) \in Seq(IDs)
                        /\ ToSet(entries[n][k]) \subseteq ToSet(longer(k))
                        /\ tokenizeJSON(doc, k) > 0 => id \in ToSet(longer(k))
        OBVIOUS
    <2> DEFINE old   == entries[n][k]
               count == tokenizeJSON(doc, k)
    <2>1. old \in Seq(IDs) /\ count \in Nat
        BY TokensAreCounted DEF Typed
    <2> HIDE DEF old, count
    <2>2. LET new == old \o [i \in 1 .. count |-> id]
          IN  /\ new \in Seq(IDs) /\ ToSet(old) \subseteq ToSet(new)
              /\ count > 0 => id \in ToSet(new)
        BY <2>1, RepeatProperties
    <2> QED BY <2>2 DEF old, count
<1>2. entries' = [entries EXCEPT ![n] = [k \in Keys |-> longer(k)]]
    BY DEF insertGIN
<1> HIDE DEF longer
<1> QED BY <1>1, <1>2 DEF Typed, EntriesType, OthersKept

LEMMA EntriesGo ==
    ASSUME Typed, NEW n \in Names, NEW id \in IDs, deleteEntries(n, id)
    PROVE  /\ EntriesType' /\ OthersKept(n)
           /\ \A k \in Keys : /\ Len(entries'[n][k]) <= Len(entries[n][k])
                              /\ ToSet(entries[n][k]) \ {id} \subseteq ToSet(entries'[n][k])
<1> DEFINE shorter(k) == RemoveFirst(entries[n][k], id)
<1>1. \A k \in Keys : /\ shorter(k) \in Seq(IDs)
                      /\ Len(shorter(k)) <= Len(entries[n][k])
                      /\ ToSet(entries[n][k]) \ {id} \subseteq ToSet(shorter(k))
    BY RemoveFirstProperties DEF Typed
<1>2. entries' = [entries EXCEPT ![n] = [k \in Keys |-> shorter(k)]]
    BY DEF deleteEntries
<1> HIDE DEF shorter
<1> QED BY <1>1, <1>2 DEF Typed, EntriesType, OthersKept

-----------------------------------------------------------------------------
(***************************************************************************)
(* The type invariant, with the bound that Room keeps.                     *)
(***************************************************************************)
InsertInto(n) ==
    \/ UNCHANGED <<entries, vectors>>
    \/ Definition[n].type = "btree" /\ insertBTree(n, op.id, op.doc) /\ UNCHANGED vectors
    \/ Definition[n].type = "gin" /\ insertGIN(n, op.id, op.doc) /\ UNCHANGED vectors
    \/ Definition[n].type = "hnsw" /\ insertHNSW(n, op.id, op.doc) /\ UNCHANGED entries

LEMMA DefinitionTypes ==
    ASSUME NEW n \in Names
    PROVE  Definition[n].type \in {"btree", "gin", "hnsw"}
BY StorageAssumption DEF StorageAssumption, IndexDefinition

\* An index whose condition holds, and what InsertIntoIndex does with it.
LEMMA InsertIntoSplits ==
    ASSUME NEW n \in Names, InsertIntoIndex(n)
    PROVE  /\ InsertInto(n)
           /\ matchesPartial(Definition[n], op.doc) =>
                \/ Definition[n].type = "btree" /\ insertBTree(n, op.id, op.doc)
                \/ Definition[n].type = "gin" /\ insertGIN(n, op.id, op.doc)
                \/ Definition[n].type = "hnsw" /\ insertHNSW(n, op.id, op.doc)
<1>1. CASE ~ matchesPartial(Definition[n], op.doc)
    BY <1>1 DEF InsertIntoIndex, InsertInto
<1>2. CASE matchesPartial(Definition[n], op.doc)
    <2>1. CASE Definition[n].type = "btree"
        BY <1>2, <2>1 DEF InsertIntoIndex, InsertInto
    <2>2. CASE Definition[n].type = "gin"
        BY <1>2, <2>2 DEF InsertIntoIndex, InsertInto
    <2>3. CASE Definition[n].type = "hnsw"
        BY <1>2, <2>3 DEF InsertIntoIndex, InsertInto
    <2> QED BY <2>1, <2>2, <2>3, DefinitionTypes
<1> QED BY <1>1, <1>2

LEMMA InsertIntoType ==
    ASSUME Typed, NEW n \in Names, op \in Operation, op.type = "insert", InsertInto(n)
    PROVE  /\ EntriesType' /\ OthersKept(n)
           /\ vectors' \in [Names -> [IDs -> Vectors \cup {Absent}]]
           /\ \A k \in Keys : ToSet(entries[n][k]) \subseteq ToSet(entries'[n][k])
<1>1. op.id \in IDs /\ op.doc \in Docs
    BY OperationSteps
<1>2. CASE UNCHANGED <<entries, vectors>>
    BY <1>2 DEF Typed, EntriesType, OthersKept
<1>3. CASE insertBTree(n, op.id, op.doc) /\ UNCHANGED vectors
    BY <1>1, <1>3, BTreeTakes DEF Typed
<1>4. CASE insertGIN(n, op.id, op.doc) /\ UNCHANGED vectors
    BY <1>1, <1>4, GINTakes DEF Typed
<1>5. CASE insertHNSW(n, op.id, op.doc) /\ UNCHANGED entries
    <2>1. op.doc.vector \in Vectors \cup {Absent}
        BY <1>1, StorageAssumption DEF StorageAssumption, Document
    <2> QED BY <1>1, <1>5, <2>1 DEF Typed, EntriesType, OthersKept, insertHNSW
<1> QED BY <1>2, <1>3, <1>4, <1>5 DEF InsertInto

TypeInv == Typed /\ Bounded

LEMMA TypeInit == Init => TypeInv
<1> SUFFICES ASSUME Init PROVE TypeInv
    OBVIOUS
<1>1. Typed
    BY NoEntriesType, NoVectorsType DEF Init, Typed
<1>2. Bounded
    BY NoEntriesType, StorageAssumption DEF Init, Bounded, StorageAssumption
<1> QED BY <1>1, <1>2 DEF TypeInv

LEMMA TypeNext == TypeInv /\ [Next]_vars => TypeInv'
<1> SUFFICES ASSUME Typed, Bounded, [Next]_vars PROVE Typed' /\ Bounded'
    BY DEF TypeInv
<1> USE DEF Typed, Bounded
<1>0. /\ Docs \subseteq Document /\ MaxEntries \in Nat
    BY StorageAssumption DEF StorageAssumption
<1>1. ASSUME NEW id \in IDs, Delete(id) PROVE Typed' /\ Bounded'
    <2>1. op' \in Operation
        BY <1>1 DEF Delete, Operation
    <2> QED BY <1>1, <2>1 DEF Delete
<1>2. ASSUME NEW id \in IDs, NEW doc \in Docs, Insert(id, doc) PROVE Typed' /\ Bounded'
    <2>1. op' \in Operation
        BY <1>2 DEF Insert, Operation
    <2> QED BY <1>2, <2>1 DEF Insert
<1>3. CASE WriteFile
    <2>1. op' \in Operation /\ op.doc \in Document
        BY <1>0, <1>3, OperationSteps DEF WriteFile
    <2> QED BY <1>3, <2>1 DEF WriteFile
<1>4. CASE WriteFileFails
    BY <1>4 DEF WriteFileFails
<1>5. CASE GetIndexes
    <2>1. op' \in Operation /\ op.id \in IDs
        BY <1>5, OperationSteps DEF GetIndexes
    <2>2. covered' \in [Names -> SUBSET IDs]
        BY <1>5, <2>1 DEF GetIndexes
    <2> QED BY <1>5, <2>1, <2>2 DEF GetIndexes
<1>6. CASE Return
    BY <1>6 DEF Return
<1>7. ASSUME NEW n \in Names, InsertIntoIndex(n) PROVE Typed' /\ Bounded'
    <2>1. op' \in Operation /\ op \in Operation /\ op.type = "insert"
        BY <1>7, TodoShrinks DEF InsertIntoIndex, Without
    <2>2. entries' \in [Names -> [Keys -> Seq(IDs)]]
          /\ vectors' \in [Names -> [IDs -> Vectors \cup {Absent}]]
        BY <1>7, <2>1, InsertIntoSplits, InsertIntoType DEF EntriesType
    <2>3. Bounded'
        BY <1>7 DEF InsertIntoIndex, Room
    <2> QED BY <1>7, <2>1, <2>2, <2>3 DEF InsertIntoIndex
<1>8. ASSUME NEW n \in Names, DeleteFromIndex(n) PROVE Typed' /\ Bounded'
    <2>1. op' \in Operation /\ op.id \in IDs
        BY <1>8, TodoShrinks, OperationSteps DEF DeleteFromIndex, Without
    <2>2. CASE deleteHNSW(n, op.id) /\ UNCHANGED entries
        BY <1>8, <2>1, <2>2 DEF DeleteFromIndex, deleteHNSW
    <2>3. CASE deleteEntries(n, op.id) /\ UNCHANGED vectors
        <3>1. /\ EntriesType' /\ OthersKept(n)
              /\ \A k \in Keys : Len(entries'[n][k]) <= Len(entries[n][k])
            BY <2>1, <2>3, EntriesGo
        <3>2. Bounded'
            <4> SUFFICES ASSUME NEW m \in Names, NEW k \in Keys
                         PROVE  Len(entries'[m][k]) <= MaxEntries
                OBVIOUS
            <4>1. Len(entries[m][k]) <= MaxEntries
                OBVIOUS
            <4>2. CASE m # n
                BY <3>1, <4>1, <4>2 DEF OthersKept
            <4>3. CASE m = n
                <5>1. entries'[n][k] \in Seq(IDs) /\ entries[n][k] \in Seq(IDs)
                    BY <3>1 DEF EntriesType
                <5>2. Len(entries'[n][k]) \in Nat /\ Len(entries[n][k]) \in Nat
                    BY <5>1
                <5>3. Len(entries'[n][k]) <= Len(entries[n][k])
                    BY <3>1
                <5> QED BY <1>0, <4>1, <4>3, <5>2, <5>3
            <4> QED BY <4>2, <4>3
        <3> QED BY <1>8, <2>1, <2>3, <3>1, <3>2 DEF DeleteFromIndex, EntriesType
    <2> QED BY <1>8, <2>2, <2>3 DEF DeleteFromIndex
<1>9. ASSUME NEW n \in Names, CreateIndex(n) PROVE Typed' /\ Bounded'
    BY <1>9 DEF CreateIndex
<1>10. ASSUME NEW n \in Names, DropIndex(n) PROVE Typed' /\ Bounded'
    <2>1. op' \in Operation \cup {Idle}
        <3>1. CASE op = Idle
            BY <1>10, <3>1 DEF DropIndex
        <3>2. CASE op # Idle
            BY <1>10, <3>2, TodoShrinks DEF DropIndex, Without
        <3> QED BY <3>1, <3>2
    <2>2. entries' \in [Names -> [Keys -> Seq(IDs)]]
          /\ vectors' \in [Names -> [IDs -> Vectors \cup {Absent}]]
          /\ covered' \in [Names -> SUBSET IDs]
        BY <1>10, NoEntriesType, NoVectorsType DEF DropIndex, Forget
    <2>3. Bounded'
        BY <1>0, <1>10, NoEntriesType DEF DropIndex, Forget
    <2> QED BY <1>10, <2>1, <2>2, <2>3 DEF DropIndex
<1>11. CASE Restart
    <2>1. entries' \in [Names -> [Keys -> Seq(IDs)]]
          /\ vectors' \in [Names -> [IDs -> Vectors \cup {Absent}]]
        BY <1>11, NoEntriesType, NoVectorsType DEF Restart
    <2>2. Bounded'
        BY <1>0, <1>11, NoEntriesType DEF Restart
    <2> QED BY <1>11, <2>1, <2>2 DEF Restart
<1>12. CASE UNCHANGED vars
    BY <1>12 DEF vars
<1> QED BY <1>1, <1>2, <1>3, <1>4, <1>5, <1>6, <1>7, <1>8, <1>9, <1>10, <1>11, <1>12 DEF Next

\* All reachable states are well typed, and no key ever names more documents
\* than the model has room for.
THEOREM IndexTypeInvariant == Spec => []TypeOK
<1>1. TypeInv => TypeOK
    BY DEF TypeInv, Typed, Bounded, TypeOK
<1> QED BY <1>1, TypeInit, TypeNext, PTL DEF Spec

-----------------------------------------------------------------------------
(***************************************************************************)
(* Unique keys, from the types alone: an index takes a document only where *)
(* nothing is, and nothing else makes a sequence of entries longer.        *)
(***************************************************************************)
UniqueInv == TypeInv /\ UniqueIndexNamesOne

LEMMA UniqueNext == UniqueInv /\ [Next]_vars => UniqueIndexNamesOne'
<1> SUFFICES ASSUME TypeInv, TypeInv', UniqueIndexNamesOne, [Next]_vars,
                    NEW m \in Names, Definition[m].type = "btree", Definition[m].unique,
                    NEW k \in Keys
             PROVE  Len(entries'[m][k]) <= 1
    BY TypeNext DEF UniqueInv, UniqueIndexNamesOne
<1>0. /\ Typed
      /\ \A j \in Keys : Len(entries[m][j]) <= 1
    BY DEF TypeInv, UniqueIndexNamesOne
<1>1. CASE entries' = entries
    BY <1>0, <1>1
<1>2. ASSUME NEW n \in Names, InsertIntoIndex(n) PROVE Len(entries'[m][k]) <= 1
    <2>1. op.type = "insert" /\ op.id \in IDs /\ op.doc \in Docs
        BY <1>0, <1>2, OperationSteps DEF InsertIntoIndex, Typed
    <2>2. CASE UNCHANGED entries
        BY <1>0, <2>2
    <2>3. CASE Definition[n].type = "btree" /\ insertBTree(n, op.id, op.doc)
        <3>1. /\ OthersKept(n)
              /\ Definition[n].unique /\ (\A j \in Keys : Len(entries[n][j]) <= 1)
                    => \A j \in Keys : Len(entries'[n][j]) <= 1
            BY <1>0, <2>1, <2>3, BTreeTakes
        <3>2. CASE m = n
            BY <1>0, <3>1, <3>2
        <3>3. CASE m # n
            BY <1>0, <3>1, <3>3 DEF OthersKept
        <3> QED BY <3>2, <3>3
    <2>4. CASE Definition[n].type = "gin" /\ insertGIN(n, op.id, op.doc)
        BY <1>0, <2>1, <2>4, GINTakes DEF OthersKept
    <2> QED BY <1>2, <2>2, <2>3, <2>4, InsertIntoSplits DEF InsertInto
<1>3. ASSUME NEW n \in Names, DeleteFromIndex(n) PROVE Len(entries'[m][k]) <= 1
    <2>1. op.id \in IDs
        BY <1>0, <1>3, OperationSteps DEF DeleteFromIndex, Typed
    <2>2. CASE UNCHANGED entries
        BY <1>0, <2>2
    <2>3. CASE deleteEntries(n, op.id)
        <3>1. OthersKept(n) /\ Len(entries'[n][k]) <= Len(entries[n][k])
            BY <1>0, <2>1, <2>3, EntriesGo
        <3>2. CASE m = n
            <4>1. entries'[m][k] \in Seq(IDs) /\ entries[m][k] \in Seq(IDs)
                BY DEF TypeInv, Typed
            <4>2. Len(entries'[m][k]) \in Nat /\ Len(entries[m][k]) \in Nat
                BY <4>1
            <4> QED BY <1>0, <3>1, <3>2, <4>2
        <3>3. CASE m # n
            BY <1>0, <3>1, <3>3 DEF OthersKept
        <3> QED BY <3>2, <3>3
    <2> QED BY <1>3, <2>2, <2>3 DEF DeleteFromIndex
<1>4. ASSUME NEW n \in Names, DropIndex(n) PROVE Len(entries'[m][k]) <= 1
    BY <1>0, <1>4, NoEntriesType DEF DropIndex, Forget, Typed
<1>5. CASE Restart
    BY <1>5, NoEntriesType DEF Restart
<1>6. ASSUME NEW id \in IDs, Delete(id) PROVE entries' = entries
    BY <1>6 DEF Delete
<1>7. ASSUME NEW id \in IDs, NEW doc \in Docs, Insert(id, doc) PROVE entries' = entries
    BY <1>7 DEF Insert
<1>8. ASSUME NEW n \in Names, CreateIndex(n) PROVE entries' = entries
    BY <1>8 DEF CreateIndex
<1>9. CASE WriteFile \/ WriteFileFails \/ GetIndexes \/ Return \/ UNCHANGED vars
    BY <1>1, <1>9 DEF WriteFile, WriteFileFails, GetIndexes, Return, vars
<1> QED BY <1>1, <1>2, <1>3, <1>4, <1>5, <1>6, <1>7, <1>8, <1>9 DEF Next

\* No key of a unique btree index names two documents.
THEOREM UniqueKeys == Spec => []UniqueIndexNamesOne
<1>1. Init => UniqueInv
    <2>1. Init => UniqueIndexNamesOne
        BY NoEntriesType DEF Init, UniqueIndexNamesOne
    <2> QED BY <2>1, TypeInit DEF UniqueInv
<1>2. UniqueInv /\ [Next]_vars => UniqueInv'
    BY TypeNext, UniqueNext DEF UniqueInv
<1>3. UniqueInv => UniqueIndexNamesOne
    BY DEF UniqueInv
<1> QED BY <1>1, <1>2, <1>3, PTL DEF Spec

-----------------------------------------------------------------------------
(***************************************************************************)
(* What the operation that runs has done so far: to its file, and which    *)
(* indexes it has still to reach.                                          *)
(***************************************************************************)
OperationInv ==
    op # Idle =>
        /\ op.todo \subseteq indexes
        /\ op.type = "delete" => files[op.id] = NoFile
        /\ op.type = "insert" => files[op.id] = IF op.step = "write" THEN Torn ELSE op.doc

LEMMA OperationInit == Init => OperationInv
BY DEF Init, OperationInv

LEMMA OperationNext == Typed /\ Typed' /\ OperationInv /\ [Next]_vars => OperationInv'
<1> SUFFICES ASSUME Typed, Typed', OperationInv, [Next]_vars PROVE OperationInv'
    OBVIOUS
<1> USE DEF OperationInv
<1>1. ASSUME NEW id \in IDs, Delete(id) PROVE OperationInv'
    BY <1>1 DEF Delete, Typed
<1>2. ASSUME NEW id \in IDs, NEW doc \in Docs, Insert(id, doc) PROVE OperationInv'
    BY <1>2 DEF Insert, Typed
<1>3. CASE WriteFile
    BY <1>3, OperationSteps DEF WriteFile, Typed, Operation
<1>4. CASE WriteFileFails
    BY <1>4 DEF WriteFileFails
<1>5. CASE GetIndexes
    BY <1>5, OperationSteps DEF GetIndexes, Typed, Operation
<1>6. CASE Return
    BY <1>6 DEF Return
<1>7. ASSUME NEW n \in Names, InsertIntoIndex(n) \/ DeleteFromIndex(n) PROVE OperationInv'
    <2>1. op \in Operation /\ op # Idle /\ op' = Without(n) /\ UNCHANGED <<files, indexes>>
        BY <1>7 DEF InsertIntoIndex, DeleteFromIndex, Typed, Without
    <2> QED BY <2>1, TodoShrinks
<1>8. ASSUME NEW n \in Names, CreateIndex(n) PROVE OperationInv'
    BY <1>8 DEF CreateIndex
<1>9. ASSUME NEW n \in Names, DropIndex(n) PROVE OperationInv'
    BY <1>9 DEF DropIndex, Typed, Operation
<1>10. CASE Restart
    BY <1>10 DEF Restart
<1>11. CASE UNCHANGED vars
    BY <1>11 DEF vars
<1> QED BY <1>1, <1>2, <1>3, <1>4, <1>5, <1>6, <1>7, <1>8, <1>9, <1>10, <1>11 DEF Next

-----------------------------------------------------------------------------
(***************************************************************************)
(* Vectors: an index that has one for a document is there, is of vectors,  *)
(* and either the document has a file or its deletion will reach the index.*)
(***************************************************************************)
WillBeDeleted(n, id) ==
    op # Idle /\ op.type = "delete" /\ op.id = id /\ (op.step = "lookup" \/ n \in op.todo)

VectorsBelong ==
    \A n \in Names, id \in IDs : vectors[n][id] # Absent =>
        /\ n \in indexes /\ Definition[n].type = "hnsw"
        /\ files[id] # NoFile \/ WillBeDeleted(n, id)

LEMMA VectorsNext ==
    Typed /\ Typed' /\ OperationInv /\ VectorsBelong /\ [Next]_vars => VectorsBelong'
<1> SUFFICES ASSUME Typed, Typed', OperationInv, [Next]_vars, VectorsBelong,
                    NEW m \in Names, NEW d \in IDs, vectors'[m][d] # Absent
             PROVE  /\ m \in indexes' /\ Definition[m].type = "hnsw"
                    /\ files'[d] # NoFile \/ WillBeDeleted(m, d)'
    BY DEF VectorsBelong
<1> DEFINE Goal == /\ m \in indexes' /\ Definition[m].type = "hnsw"
                   /\ files'[d] # NoFile \/ WillBeDeleted(m, d)'
<1>0. /\ vectors[m][d] # Absent =>
            /\ m \in indexes /\ Definition[m].type = "hnsw"
            /\ files[d] # NoFile \/ WillBeDeleted(m, d)
      /\ NoFile \notin Document /\ Torn \notin Document /\ NoFile # Torn
      /\ Docs \subseteq Document
    BY StorageAssumption DEF VectorsBelong, StorageAssumption
<1>1. ASSUME NEW id \in IDs, Delete(id) PROVE Goal
    <2>1. op' # Idle /\ op'.type = "delete" /\ op'.id = id /\ op'.step = "lookup"
        <3>1. op' \in Operation
            BY <1>1 DEF Delete, Operation
        <3> QED BY <1>1, <3>1, IdleAssumption DEF Delete, IdleAssumption
    <2>2. ~ WillBeDeleted(m, d)
        BY <1>1 DEF Delete, WillBeDeleted
    <2> QED BY <1>0, <1>1, <2>1, <2>2 DEF Delete, WillBeDeleted, Typed
<1>2. ASSUME NEW id \in IDs, NEW doc \in Docs, Insert(id, doc) PROVE Goal
    BY <1>0, <1>2 DEF Insert, WillBeDeleted, Typed
<1>3. CASE WriteFile
    <2>1. op.type = "insert" /\ op.doc \in Docs
        BY <1>3, OperationSteps DEF WriteFile, Typed
    <2> QED BY <1>0, <1>3, <2>1 DEF WriteFile, WillBeDeleted, Typed
<1>4. CASE WriteFileFails
    <2>1. op.type = "insert"
        BY <1>4, OperationSteps DEF WriteFileFails, Typed
    <2> QED BY <1>0, <1>4, <2>1 DEF WriteFileFails, WillBeDeleted
<1>5. CASE GetIndexes
    <2>1. op \in Operation /\ op' = [op EXCEPT !.step = "index", !.todo = indexes]
        BY <1>5 DEF GetIndexes, Typed
    <2>2. op' \in Operation /\ op'.type = op.type /\ op'.id = op.id /\ op'.todo = indexes
        <3>1. op.step = "lookup" /\ indexes \in SUBSET Names
            BY <1>5 DEF GetIndexes, Typed
        <3>2. op' \in Operation
            BY <2>1, <3>1, OperationSteps
        <3>3. op'.type = op.type /\ op'.id = op.id /\ op'.todo = indexes
            BY <2>1 DEF Operation
        <3> QED BY <3>2, <3>3
    <2>3. op' # Idle
        BY <2>2, IdleAssumption DEF IdleAssumption
    <2>4. UNCHANGED <<files, indexes, vectors>>
        BY <1>5 DEF GetIndexes
    <2>5. vectors[m][d] # Absent
        BY <2>4
    <2> QED BY <1>0, <2>2, <2>3, <2>4, <2>5 DEF WillBeDeleted
<1>6. CASE Return
    <2>1. ~ WillBeDeleted(m, d)
        BY <1>6 DEF Return, WillBeDeleted
    <2> QED BY <1>0, <1>6, <2>1 DEF Return
<1>7. ASSUME NEW n \in Names, InsertIntoIndex(n) PROVE Goal
    <2>1. op.type = "insert" /\ op.step = "index" /\ n \in indexes /\ op.id \in IDs
          /\ files[op.id] \in Document
        BY <1>0, <1>7, OperationSteps DEF InsertIntoIndex, Typed, OperationInv
    <2>2. UNCHANGED <<files, indexes>> /\ ~ WillBeDeleted(m, d)
        BY <1>7, <2>1 DEF InsertIntoIndex, WillBeDeleted
    <2>3. CASE vectors[m][d] # Absent
        BY <1>0, <2>2, <2>3
    <2>4. CASE vectors[m][d] = Absent
        <3>1. Definition[n].type = "hnsw" /\ insertHNSW(n, op.id, op.doc)
            BY <1>7, <2>4, InsertIntoSplits DEF InsertInto
        <3>2. m = n /\ d = op.id
            BY <2>1, <2>4, <3>1 DEF insertHNSW, Typed
        <3> QED BY <1>0, <2>1, <2>2, <3>1, <3>2
    <2> QED BY <2>3, <2>4
<1>8. ASSUME NEW n \in Names, DeleteFromIndex(n) PROVE Goal
    <2>1. /\ op \in Operation /\ op.type = "delete" /\ op.step = "index" /\ op.id \in IDs
          /\ op' = Without(n)
        BY <1>8, OperationSteps DEF DeleteFromIndex, Typed, Without
    <2>2. op'.type = op.type /\ op'.id = op.id /\ op'.todo = op.todo \ {n}
        BY <2>1, TodoShrinks
    <2>3. op' # Idle
        BY <2>1, TodoShrinks
    <2>4. UNCHANGED <<files, indexes>> /\ (m # n => vectors'[m] = vectors[m])
        BY <1>8 DEF DeleteFromIndex, deleteHNSW, Typed
    <2>5. CASE Definition[n].type = "hnsw"
        <3>1. vectors'[n][op.id] = Absent /\ (d # op.id => vectors'[n][d] = vectors[n][d])
            BY <1>8, <2>1, <2>5 DEF DeleteFromIndex, deleteHNSW, Typed
        <3>2. (m # n \/ d # op.id) /\ vectors[m][d] # Absent
            BY <2>4, <3>1
        <3> QED BY <1>0, <2>1, <2>2, <2>3, <2>4, <3>2 DEF WillBeDeleted
    <2>6. CASE Definition[n].type # "hnsw"
        <3>1. vectors' = vectors
            BY <1>8, <2>6 DEF DeleteFromIndex
        <3>2. m # n
            BY <1>0, <2>6, <3>1
        <3> QED BY <1>0, <2>1, <2>2, <2>3, <2>4, <3>1, <3>2 DEF WillBeDeleted
    <2> QED BY <2>5, <2>6
<1>9. ASSUME NEW n \in Names, CreateIndex(n) PROVE Goal
    BY <1>0, <1>9 DEF CreateIndex, WillBeDeleted
<1>10. ASSUME NEW n \in Names, DropIndex(n) PROVE Goal
    <2>1. m # n /\ vectors'[m] = vectors[m] /\ files' = files /\ m \in indexes
        BY <1>0, <1>10, NoVectorsType DEF DropIndex, Forget, Typed
    <2>2. CASE op = Idle
        BY <1>0, <1>10, <2>1, <2>2 DEF DropIndex, WillBeDeleted
    <2>3. CASE op # Idle
        <3>1. op \in Operation /\ op' = Without(n)
            BY <1>10, <2>3 DEF DropIndex, Typed, Without
        <3>2. /\ op'.type = op.type /\ op'.id = op.id /\ op'.step = op.step
              /\ op'.todo = op.todo \ {n}
            BY <3>1, TodoShrinks
        <3>3. op' # Idle
            BY <3>1, TodoShrinks
        <3> QED BY <1>0, <1>10, <2>1, <3>2, <3>3 DEF DropIndex, WillBeDeleted
    <2> QED BY <2>2, <2>3
<1>11. CASE Restart
    BY <1>11, NoVectorsType DEF Restart
<1>12. CASE UNCHANGED vars
    BY <1>0, <1>12 DEF vars, WillBeDeleted
<1> QED BY <1>1, <1>2, <1>3, <1>4, <1>5, <1>6, <1>7, <1>8, <1>9, <1>10, <1>11, <1>12 DEF Next

VectorInv == TypeInv /\ OperationInv /\ VectorsBelong

\* Similarity search proposes no deleted document: the inductive invariant is
\* that the deletion, if it runs, will still reach every index with its vector.
THEOREM DeletedAreNotSimilar == Spec => []NoGhostVectors
<1>1. Init => VectorInv
    <2>1. Init => VectorsBelong
        BY NoVectorsType DEF Init, VectorsBelong
    <2> QED BY <2>1, TypeInit, OperationInit DEF VectorInv
<1>2. VectorInv /\ [Next]_vars => VectorInv'
    BY TypeNext, OperationNext, VectorsNext DEF VectorInv, TypeInv
<1>3. VectorInv => NoGhostVectors
    BY DEF VectorInv, VectorsBelong, NoGhostVectors, queryHNSW, WillBeDeleted, Running
<1> QED BY <1>1, <1>2, <1>3, PTL DEF Spec

-----------------------------------------------------------------------------
(***************************************************************************)
(* What the indexes have: as long as the operation that runs has an index  *)
(* still to reach, nothing is said of its document there.                  *)
(***************************************************************************)
Covers(n, id, doc) ==
    id \in covered[n] =>
        /\ n \in indexes
        /\ files[id] = doc => Running(id) \/ IsFound(n, id, doc)
        /\ op # Idle /\ op.type = "insert" /\ op.step = "index" /\ op.id = id /\ op.doc = doc
             => n \in op.todo \/ IsFound(n, id, doc)

CoverInv ==
    /\ files \in [IDs -> Docs \cup {NoFile, Torn}]
    /\ \A n \in Names, id \in IDs, doc \in Docs : Covers(n, id, doc)

\* A document is found as long as it loses no entry, nor its vector.
LEMMA StaysFound ==
    ASSUME NEW n \in Names, NEW id, NEW doc \in Docs, IsFound(n, id, doc),
           \A k \in Keys : id \in ToSet(entries[n][k]) => id \in ToSet(entries'[n][k]),
           vectors'[n][id] = vectors[n][id]
    PROVE  IsFound(n, id, doc)'
<1>1. buildCompositeKey(Definition[n].fields, doc) \in Keys
    BY KeysAssumption DEF KeysAssumption
<1>2. CASE ~ matchesPartial(Definition[n], doc)
    BY <1>2 DEF IsFound
<1>3. CASE matchesPartial(Definition[n], doc)
    <2>1. CASE Definition[n].type = "btree"
        BY <1>1, <1>3, <2>1 DEF IsFound, queryBTree
    <2>2. CASE Definition[n].type = "gin"
        BY <1>3, <2>2 DEF IsFound, queryGIN
    <2>3. CASE Definition[n].type = "hnsw"
        BY <1>3, <2>3 DEF IsFound
    <2> QED BY <2>1, <2>2, <2>3, DefinitionTypes
<1> QED BY <1>2, <1>3

\* Once an index has taken a document, it is found there.
LEMMA IsFoundOnceTaken ==
    ASSUME Typed, NEW n \in Names, InsertIntoIndex(n),
           NEW id \in IDs, id = op.id, NEW doc \in Docs, doc = op.doc
    PROVE  IsFound(n, id, doc)'
<1>1. CASE ~ matchesPartial(Definition[n], doc)
    BY <1>1 DEF IsFound
<1>2. CASE matchesPartial(Definition[n], doc) /\ Definition[n].type = "btree"
    <2>1. insertBTree(n, id, doc)
        BY <1>2, InsertIntoSplits
    <2>2. ~ Definition[n].unique =>
             id \in ToSet(entries'[n][buildCompositeKey(Definition[n].fields, doc)])
        BY <2>1, BTreeTakes
    <2> QED BY <1>2, <2>2 DEF IsFound, queryBTree
<1>3. CASE matchesPartial(Definition[n], doc) /\ Definition[n].type = "gin"
    <2>1. insertGIN(n, id, doc)
        BY <1>3, InsertIntoSplits
    <2>2. \A k \in Keys : tokenizeJSON(doc, k) > 0 => id \in ToSet(entries'[n][k])
        BY <2>1, GINTakes
    <2> QED BY <1>3, <2>2 DEF IsFound, queryGIN
<1>4. CASE matchesPartial(Definition[n], doc) /\ Definition[n].type = "hnsw"
    <2>1. insertHNSW(n, id, doc)
        BY <1>4, InsertIntoSplits
    <2>2. doc.vector # Absent => vectors'[n][id] = doc.vector
        BY <2>1 DEF insertHNSW, Typed
    <2> QED BY <1>4, <2>2 DEF IsFound
<1> QED BY <1>1, <1>2, <1>3, <1>4, DefinitionTypes

LEMMA FilesAreDocs ==
    ASSUME Typed, files \in [IDs -> Docs \cup {NoFile, Torn}], [Next]_vars
    PROVE  files' \in [IDs -> Docs \cup {NoFile, Torn}]
<1>1. CASE WriteFile
    BY <1>1, OperationSteps DEF WriteFile, Typed
<1>2. CASE (\E id \in IDs : Delete(id) \/ \E doc \in Docs : Insert(id, doc))
    BY <1>2 DEF Delete, Insert
<1>3. CASE UNCHANGED files
    BY <1>3
<1>4. WriteFile \/ (\E id \in IDs : Delete(id) \/ \E doc \in Docs : Insert(id, doc))
        \/ UNCHANGED files
    BY DEF Next, vars, WriteFileFails, GetIndexes, Return, InsertIntoIndex, DeleteFromIndex,
           CreateIndex, DropIndex, Restart
<1> QED BY <1>1, <1>2, <1>3, <1>4

LEMMA CoverNext ==
    Typed /\ Typed' /\ OperationInv /\ CoverInv /\ [Next]_vars => CoverInv'
<1> SUFFICES ASSUME Typed, Typed', OperationInv, CoverInv, [Next]_vars,
                    NEW m \in Names, NEW d \in IDs, NEW doc \in Docs, d \in covered'[m]
             PROVE  Covers(m, d, doc)'
    BY FilesAreDocs DEF CoverInv, Covers
<1> DEFINE Found == IsFound(m, d, doc)
<1>0. Covers(m, d, doc) /\ NoFile \notin Docs /\ Torn \notin Docs
    BY StorageAssumption DEF CoverInv, StorageAssumption
<1>a. (UNCHANGED <<entries, vectors>>) /\ Found => Found'
    BY StaysFound
<1>b. (entries'[m] = entries[m]) /\ (vectors'[m] = vectors[m]) /\ Found => Found'
    BY StaysFound
<1>1. ASSUME NEW id \in IDs, Delete(id) PROVE Covers(m, d, doc)'
    <2>1. op' \in Operation /\ op' # Idle /\ op'.type = "delete" /\ op'.id = id
        <3>1. op' \in Operation
            BY <1>1 DEF Delete, Operation
        <3> QED BY <1>1, <3>1, IdleAssumption DEF Delete, IdleAssumption
    <2>2. UNCHANGED <<indexes, entries, vectors, covered>> /\ ~ Running(d)
        BY <1>1 DEF Delete, Running
    <2>3. d # id => files'[d] = files[d]
        BY <1>1 DEF Delete, Typed
    <2> HIDE DEF Found
    <2> QED BY <1>0, <1>a, <2>1, <2>2, <2>3 DEF Covers, Running, Found
<1>2. ASSUME NEW id \in IDs, NEW new \in Docs, Insert(id, new) PROVE Covers(m, d, doc)'
    <2>1. op' \in Operation /\ op' # Idle /\ op'.id = id /\ op'.step = "write"
        <3>1. op' \in Operation
            BY <1>2 DEF Insert, Operation
        <3> QED BY <1>2, <3>1, IdleAssumption DEF Insert, IdleAssumption
    <2>2. UNCHANGED <<indexes, entries, vectors, covered>> /\ ~ Running(d)
        BY <1>2 DEF Insert, Running
    <2>3. d # id => files'[d] = files[d]
        BY <1>2 DEF Insert, Typed
    <2> HIDE DEF Found
    <2> QED BY <1>0, <1>a, <2>1, <2>2, <2>3 DEF Covers, Running, Found
<1>3. CASE WriteFile
    <2>1. op' # Idle /\ op'.id = op.id /\ op'.step = "lookup"
        <3>1. op \in Operation /\ op.step = "write" /\ op' = [op EXCEPT !.step = "lookup"]
            BY <1>3 DEF WriteFile, Typed
        <3>2. op' \in Operation
            BY <3>1, OperationSteps
        <3> QED BY <3>1, <3>2, IdleAssumption DEF Operation, IdleAssumption
    <2>2. UNCHANGED <<indexes, entries, vectors, covered>>
        BY <1>3 DEF WriteFile
    <2>3. d # op.id => files'[d] = files[d]
        BY <1>3 DEF WriteFile, Typed
    <2> HIDE DEF Found
    <2> QED BY <1>0, <1>a, <2>1, <2>2, <2>3 DEF Covers, Running, Found
<1>4. CASE WriteFileFails
    <2>1. op' = Idle /\ UNCHANGED <<files, indexes, entries, vectors, covered>>
        BY <1>4 DEF WriteFileFails
    <2>2. d = op.id => files[d] = Torn
        BY <1>4, OperationSteps DEF WriteFileFails, OperationInv, Typed
    <2> HIDE DEF Found
    <2> QED BY <1>0, <1>a, <2>1, <2>2 DEF Covers, Running, Found
<1>5. CASE GetIndexes
    <2>1. /\ op' # Idle /\ op'.id = op.id /\ op'.type = op.type /\ op'.todo = indexes
        <3>1. /\ op \in Operation /\ op.step = "lookup" /\ indexes \in SUBSET Names
              /\ op' = [op EXCEPT !.step = "index", !.todo = indexes]
            BY <1>5 DEF GetIndexes, Typed
        <3>2. op' \in Operation
            BY <3>1, OperationSteps
        <3>3. op'.id = op.id /\ op'.type = op.type /\ op'.todo = indexes
            BY <3>1 DEF Operation
        <3> QED BY <3>2, <3>3, IdleAssumption DEF IdleAssumption
    <2>2. UNCHANGED <<files, indexes, entries, vectors>>
        BY <1>5 DEF GetIndexes
    <2>3. d \in covered[m] \/ (d = op.id /\ m \in indexes)
        BY <1>5 DEF GetIndexes, Typed
    <2> HIDE DEF Found
    <2> QED BY <1>0, <1>a, <2>1, <2>2, <2>3 DEF Covers, Running, Found
<1>6. CASE Return
    <2>1. /\ op # Idle /\ op.step = "index" /\ op.todo = {}
          /\ op' = Idle /\ UNCHANGED <<files, indexes, entries, vectors, covered>>
        BY <1>6 DEF Return
    <2>2. op.id = d /\ files[d] = doc => op.type = "insert" /\ op.doc = doc
        BY <1>0, <2>1, OperationSteps DEF OperationInv, Typed
    <2> HIDE DEF Found
    <2> QED BY <1>0, <1>a, <2>1, <2>2 DEF Covers, Running, Found
<1>7. ASSUME NEW n \in Names, InsertIntoIndex(n) PROVE Covers(m, d, doc)'
    <2>1. /\ op # Idle /\ op \in Operation /\ op.type = "insert" /\ op.step = "index" /\ op' = Without(n)
          /\ UNCHANGED <<files, indexes, covered>>
        BY <1>7, OperationSteps DEF InsertIntoIndex, Typed, Without
    <2>2. /\ op' # Idle /\ op'.id = op.id /\ op'.type = op.type /\ op'.step = op.step
          /\ op'.todo = op.todo \ {n} /\ op'.doc = op.doc
        BY <2>1, TodoShrinks
    <2>3. /\ OthersKept(n)
          /\ \A k \in Keys : ToSet(entries[n][k]) \subseteq ToSet(entries'[n][k])
          /\ m # n \/ d # op.id => vectors'[m][d] = vectors[m][d]
        <3>1. vectors' = vectors \/ insertHNSW(n, op.id, op.doc)
            BY <1>7, InsertIntoSplits DEF InsertInto
        <3>2. m # n \/ d # op.id => vectors'[m][d] = vectors[m][d]
            <4>1. CASE vectors' = vectors
                BY <4>1
            <4>2. CASE insertHNSW(n, op.id, op.doc)
                BY <4>2 DEF insertHNSW, Typed
            <4> QED BY <3>1, <4>1, <4>2
        <3>3. InsertInto(n)
            BY <1>7, InsertIntoSplits
        <3> QED BY <2>1, <3>2, <3>3, InsertIntoType
    <2>4. m # n \/ d # op.id => (Found => Found')
        <3>1. \A k \in Keys : d \in ToSet(entries[m][k]) => d \in ToSet(entries'[m][k])
            BY <2>3 DEF OthersKept
        <3> QED BY <2>3, <3>1, StaysFound
    <2>5. m = n /\ d = op.id /\ doc = op.doc => Found'
        BY <1>7, IsFoundOnceTaken
    <2> HIDE DEF Found
    <2> QED BY <1>0, <2>1, <2>2, <2>4, <2>5 DEF Covers, Running, Found
<1>8. ASSUME NEW n \in Names, DeleteFromIndex(n) PROVE Covers(m, d, doc)'
    <2>1. /\ op # Idle /\ op \in Operation /\ op.type = "delete" /\ op.id \in IDs /\ op' = Without(n)
          /\ UNCHANGED <<files, indexes, covered>>
        BY <1>8, OperationSteps DEF DeleteFromIndex, Typed, Without
    <2>2. op' # Idle /\ op'.id = op.id /\ op'.type = op.type
        BY <2>1, TodoShrinks
    <2>3. d # op.id => (Found => Found')
        <3>1. CASE deleteHNSW(n, op.id) /\ UNCHANGED entries
            <4>1. d # op.id => vectors'[m][d] = vectors[m][d]
                BY <3>1 DEF deleteHNSW, Typed
            <4> QED BY <3>1, <4>1, StaysFound
        <3>2. CASE deleteEntries(n, op.id) /\ UNCHANGED vectors
            <4>1. /\ OthersKept(n)
                  /\ \A k \in Keys : ToSet(entries[n][k]) \ {op.id} \subseteq ToSet(entries'[n][k])
                BY <2>1, <3>2, EntriesGo
            <4>2. d # op.id =>
                    \A k \in Keys : d \in ToSet(entries[m][k]) => d \in ToSet(entries'[m][k])
                BY <4>1 DEF OthersKept
            <4> QED BY <3>2, <4>2, StaysFound
        <3> QED BY <1>8, <3>1, <3>2 DEF DeleteFromIndex
    <2> HIDE DEF Found
    <2> QED BY <1>0, <2>1, <2>2, <2>3 DEF Covers, Running, Found
<1>9. ASSUME NEW n \in Names, CreateIndex(n) PROVE Covers(m, d, doc)'
    <2>1. /\ UNCHANGED <<files, entries, vectors, op, covered>>
          /\ indexes' = indexes \cup {n}
        BY <1>9 DEF CreateIndex
    <2> HIDE DEF Found
    <2> QED BY <1>0, <1>a, <2>1 DEF Covers, Running, Found
<1>10. ASSUME NEW n \in Names, DropIndex(n) PROVE Covers(m, d, doc)'
    <2>1. /\ m # n /\ entries'[m] = entries[m] /\ vectors'[m] = vectors[m]
          /\ covered'[m] = covered[m] /\ UNCHANGED files
          /\ indexes' = indexes \ {n}
        BY <1>10 DEF DropIndex, Forget, Typed
    <2> HIDE DEF Found
    <2>2. CASE op = Idle
        <3>1. op' = Idle
            BY <1>10, <2>2 DEF DropIndex
        <3> QED BY <1>0, <1>b, <2>1, <2>2, <3>1 DEF Covers, Running, Found
    <2>3. CASE op # Idle
        <3>1. op \in Operation /\ op' = Without(n)
            BY <1>10, <2>3 DEF DropIndex, Typed, Without
        <3>2. /\ op' # Idle /\ op'.id = op.id /\ op'.type = op.type /\ op'.step = op.step
              /\ op'.todo = op.todo \ {n} /\ (op.type = "insert" => op'.doc = op.doc)
            BY <3>1, TodoShrinks
        <3> QED BY <1>0, <1>b, <2>1, <2>3, <3>2 DEF Covers, Running, Found
    <2> QED BY <2>2, <2>3
<1>11. CASE Restart
    BY <1>11 DEF Restart
<1>12. CASE UNCHANGED vars
    <2>1. UNCHANGED <<files, indexes, entries, vectors, op, covered>>
        BY <1>12 DEF vars
    <2> HIDE DEF Found
    <2> QED BY <1>0, <1>a, <2>1 DEF Covers, Running, Found
<1> QED BY <1>1, <1>2, <1>3, <1>4, <1>5, <1>6, <1>7, <1>8, <1>9, <1>10, <1>11, <1>12 DEF Next

FoundInv == TypeInv /\ OperationInv /\ CoverInv

\* A covered document is found, by any index and whatever comes in between:
\* the inductive invariant says how far the operation that runs has got.
THEOREM CoveredAreFound == Spec => []CoveredIsFound
<1>1. Init => FoundInv
    <2>1. Init => CoverInv
        BY DEF Init, CoverInv, Covers
    <2> QED BY <2>1, TypeInit, OperationInit DEF FoundInv
<1>2. FoundInv /\ [Next]_vars => FoundInv'
    BY TypeNext, OperationNext, CoverNext DEF FoundInv, TypeInv
<1>3. FoundInv => CoveredIsFound
    <2> SUFFICES ASSUME FoundInv, NEW n \in indexes, NEW id \in covered[n], id \in FindAll
                 PROVE  Running(id) \/ IsFound(n, id, files[id])
        BY DEF CoveredIsFound
    <2>1. n \in Names /\ id \in IDs /\ files[id] \in Document
        BY DEF FoundInv, TypeInv, Typed, FindAll
    <2>2. files[id] \in Docs
        BY <2>1, StorageAssumption DEF FoundInv, CoverInv, StorageAssumption
    <2>3. Covers(n, id, files[id])
        BY <2>1, <2>2 DEF FoundInv, CoverInv
    <2> QED BY <2>3 DEF Covers
<1> QED BY <1>1, <1>2, <1>3, PTL DEF Spec

-----------------------------------------------------------------------------

(***************************************************************************)
(* Who is announced, and who holds read locks, as their places tell.       *)
(***************************************************************************)
WriterIsAnnounced ==
    \A g \in Goroutines :
        (pc[g] \in {"drain", "writing"} \/ (pc[g] = "rlock" /\ call[g] = "Update"))
            <=> writer = g

HoldersRead ==
    \A g \in Goroutines :
        /\ pc[g] = "reading" => readLocks[g] > 0
        /\ readLocks[g] > 0 => pc[g] \in {"reading", "rlock"} /\ call[g] \in Reads
        /\ pc[g] \in {"lock", "drain", "writing"} => call[g] \in Writes
        /\ pc[g] = "rlock" => call[g] \in Reads \cup {"Update"}

WriterRunsWithoutReaders ==
    \A g \in Goroutines :
        writer = g /\ pc[g] # "drain" => \A h \in Goroutines : readLocks[h] = 0

LockInv == LockTypeOK /\ WriterIsAnnounced /\ HoldersRead /\ WriterRunsWithoutReaders

LEMMA LockInvInit == LockInit => LockInv
BY LockAssumption
   DEF LockAssumption, LockInit, LockInv, LockTypeOK, WriterIsAnnounced, HoldersRead,
       WriterRunsWithoutReaders, Reads, Writes

LEMMA LockInvNext == LockInv /\ [LockNext]_lockVars => LockInv'
<1> SUFFICES ASSUME LockInv, [LockNext]_lockVars PROVE LockInv'
    OBVIOUS
<1> USE LockAssumption
        DEF LockAssumption, LockInv, LockTypeOK, WriterIsAnnounced, HoldersRead,
            WriterRunsWithoutReaders, Reads, Writes, Goto
<1>1. ASSUME NEW g \in Goroutines, NEW c \in Calls, Call(g, c) PROVE LockInv'
    <2>1. c \in Reads \cup Writes
        OBVIOUS
    <2>2. LockTypeOK'
        BY <1>1, <2>1 DEF Call
    <2>3. writer # g /\ readLocks[g] = 0
        BY <1>1 DEF Call
    <2>4. WriterIsAnnounced' /\ HoldersRead'
        BY <1>1, <2>1, <2>3 DEF Call
    <2>5. WriterRunsWithoutReaders'
        BY <1>1, <2>3 DEF Call
    <2>6. QED
        BY <2>2, <2>4, <2>5
<1>2. ASSUME NEW g \in Goroutines, Announce(g) PROVE LockInv'
    BY <1>2 DEF Announce
<1>3. ASSUME NEW g \in Goroutines, Lock(g) PROVE LockInv'
    BY <1>3 DEF Lock
<1>4. ASSUME NEW g \in Goroutines, Unlock(g) PROVE LockInv'
    <2>1. writer = g /\ \A h \in Goroutines : readLocks[h] = 0
        BY <1>4 DEF Unlock
    <2>2. \A h \in Goroutines : h # g => pc[h] \notin {"drain", "writing"} /\ ~ (pc[h] = "rlock" /\ call[h] = "Update")
        BY <2>1
    <2>3. LockTypeOK'
        BY <1>4 DEF Unlock
    <2>4. WriterIsAnnounced'
        BY <1>4, <2>1, <2>2 DEF Unlock
    <2>5. HoldersRead'
        BY <1>4, <2>1, <2>2 DEF Unlock
    <2>6. WriterRunsWithoutReaders'
        BY <1>4 DEF Unlock
    <2>7. QED
        BY <2>3, <2>4, <2>5, <2>6
<1>5. ASSUME NEW g \in Goroutines, FindInUpdate(g) PROVE LockInv'
    BY <1>5 DEF FindInUpdate
<1>6. ASSUME NEW g \in Goroutines, RLock(g) PROVE LockInv'
    BY <1>6 DEF RLock
<1>7. ASSUME NEW g \in Goroutines, FindInFindAll(g) PROVE LockInv'
    BY <1>7 DEF FindInFindAll
<1>8. ASSUME NEW g \in Goroutines, RUnlock(g) PROVE LockInv'
    BY <1>8 DEF RUnlock
<1>9. ASSUME UNCHANGED lockVars PROVE LockInv'
    BY <1>9 DEF lockVars
<1>10. QED
    BY <1>1, <1>2, <1>3, <1>4, <1>5, <1>6, <1>7, <1>8, <1>9 DEF LockNext, Proceed

LEMMA LockInvExcludes == LockInv => WritesRunAlone
<1> SUFFICES ASSUME LockInv,
                    NEW g \in Goroutines, NEW h \in Goroutines, g # h, InBody(g), InBody(h)
             PROVE  {call[g], call[h]} \subseteq Reads
    BY DEF WritesRunAlone
<1> USE DEF LockInv, LockTypeOK, WriterRunsWithoutReaders, HoldersRead, InBody
<1>1. readLocks[g] > 0 /\ readLocks[h] > 0
    OBVIOUS
<1>2. QED
    BY <1>1

(***************************************************************************)
(* Writes of the storage run alone: while an Insert, a Delete or an Update *)
(* is between its Lock and its Unlock, no other operation is.              *)
(***************************************************************************)
THEOREM StorageExclusion == LockSpec => []WritesRunAlone
<1>1. LockSpec => []LockInv
    BY LockInvInit, LockInvNext, PTL DEF LockSpec
<1>2. QED
    BY <1>1, LockInvExcludes, PTL
=============================================================================
