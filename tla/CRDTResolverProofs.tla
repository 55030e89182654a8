------------------------ MODULE CRDTResolverProofs ------------------------
(***************************************************************************)
(* What the operators of VectorClock and CRDTResolver return, and how the  *)
(* clocks stand to the causal order, for every set of peers, fields and    *)
(* values: the lemmas other proofs cite.                                   *)
(***************************************************************************)
EXTENDS CRDTResolver, TLAPS

LEMMA NewVectorClockType == NewVectorClock \in Clock
BY DEF NewVectorClock, Clock

LEMMA IncrementType ==
    ASSUME NEW clock \in Clock, NEW p \in Peers
    PROVE  Increment(clock, p) \in Clock
BY DEF Increment, Clock

LEMMA MergeType ==
    ASSUME NEW x \in Clock, NEW y \in Clock
    PROVE  Merge(x, y) \in Clock
BY DEF Merge, Clock

\* Compare answers by what it finds about the entries.
LEMMA CompareByOrder ==
    ASSUME NEW x \in Clock, NEW y \in Clock
    PROVE  /\ Compare(x, y) = "Equal"      <=> x \preceq y /\ y \preceq x
           /\ Compare(x, y) = "Before"     <=> x \preceq y /\ ~ (y \preceq x)
           /\ Compare(x, y) = "After"      <=> y \preceq x /\ ~ (x \preceq y)
           /\ Compare(x, y) = "Concurrent" <=> ~ (x \preceq y) /\ ~ (y \preceq x)
<1> DEFINE greater == \E k \in Peers : x[k] > y[k]
           less    == \E k \in Peers : x[k] < y[k]
<1>1. (x \preceq y) <=> ~ greater
  BY DEF Clock, \preceq
<1>2. (y \preceq x) <=> ~ less
  BY DEF Clock, \preceq
<1>3. Compare(x, y) = IF greater THEN IF less THEN "Concurrent" ELSE "After"
                      ELSE IF less THEN "Before" ELSE "Equal"
  BY DEF Compare
<1> HIDE DEF greater, less
<1>4. QED
  BY <1>1, <1>2, <1>3

LEMMA OrderIsAntisymmetric ==
    ASSUME NEW x \in Clock, NEW y \in Clock, x \preceq y, y \preceq x
    PROVE  x = y
<1>1. ASSUME NEW k \in Peers PROVE x[k] = y[k]
  <2>1. x[k] \in Nat /\ y[k] \in Nat
    BY DEF Clock
  <2>2. x[k] <= y[k] /\ y[k] <= x[k]
    BY DEF \preceq
  <2>3. QED
    BY <2>1, <2>2
<1>2. QED
  BY <1>1 DEF Clock

LEMMA OrderIsReflexive ==
    ASSUME NEW x \in Clock
    PROVE  x \preceq x
BY DEF Clock, \preceq

LEMMA OrderIsTransitive ==
    ASSUME NEW x \in Clock, NEW y \in Clock, NEW z \in Clock, x \preceq y, y \preceq z
    PROVE  x \preceq z
<1> SUFFICES ASSUME NEW k \in Peers PROVE x[k] <= z[k]
  BY DEF \preceq
<1>1. x[k] \in Nat /\ y[k] \in Nat /\ z[k] \in Nat
  BY DEF Clock
<1>2. x[k] <= y[k] /\ y[k] <= z[k]
  BY DEF \preceq
<1>3. QED
  BY <1>1, <1>2

LEMMA MergeIsUpperBound ==
    ASSUME NEW x \in Clock, NEW y \in Clock
    PROVE  x \preceq Merge(x, y) /\ y \preceq Merge(x, y)
BY DEF Clock, Merge, \preceq

LEMMA HappensBeforeIsOrder ==
    ASSUME NEW x \in Clock, NEW y \in Clock
    PROVE  HappensBefore(x, y) <=> x \preceq y
BY CompareByOrder DEF HappensBefore

-----------------------------------------------------------------------------
LEMMA OverlayType ==
    ASSUME NEW first \in Payload, NEW second \in Payload
    PROVE  Overlay(first, second) \in Payload
BY DEF Overlay, Payload

LEMMA ToDistributedType ==
    ASSUME NEW payload \in Payload, NEW p \in Peers, NEW now \in Nat
    PROVE  ToDistributed(payload, p, now) \in Document
<1>1. [NewVectorClock EXCEPT ![p] = 1] \in Clock
  BY NewVectorClockType DEF Clock
<1>2. QED
  BY <1>1 DEF ToDistributed, Document

LEMMA ApplyOperationType ==
    ASSUME NEW doc \in Document \cup {NoDocument}, NEW op,
           op.vector \in Clock, op.timestamp \in Nat, op.peer \in Peers,
           op.type # "delete" => op.data \in Document
    PROVE  ApplyOperation(doc, op) \in Document \cup {NoDocument}
<1>1. CASE doc = NoDocument
  BY <1>1 DEF ApplyOperation, Document
<1>2. CASE doc # NoDocument
  <2>1. doc \in Document
    BY <1>2
  <2>2. Merge(doc.vector, op.vector) \in Clock
    BY <2>1, MergeType DEF Document
  <2>3. Later(doc.timestamp, op.timestamp) \in Nat
    BY <2>1 DEF Document, Later
  <2>4. op.type # "delete" => Overlay(op.data.payload, doc.payload) \in Payload
    BY <2>1, OverlayType DEF Document
  <2>5. doc.payload \in Payload /\ doc.deleted \in BOOLEAN
    BY <2>1 DEF Document
  <2> DEFINE payload == IF op.type = "delete" THEN doc.payload
                        ELSE Overlay(op.data.payload, doc.payload)
             deleted == doc.deleted \/ op.type = "delete"
  <2>6. payload \in Payload /\ deleted \in BOOLEAN
    BY <2>4, <2>5
  <2>7. ApplyOperation(doc, op) =
          IF ~ Applies(doc, op) THEN doc
          ELSE [doc EXCEPT !.payload   = payload,
                           !.deleted   = deleted,
                           !.vector    = Merge(doc.vector, op.vector),
                           !.timestamp = Later(doc.timestamp, op.timestamp)]
    BY <1>2, <2>1 DEF ApplyOperation, Document
  <2> HIDE DEF payload, deleted
  <2>8. QED
    BY <2>1, <2>2, <2>3, <2>6, <2>7 DEF Document
<1>3. QED
  BY <1>1, <1>2
=============================================================================
