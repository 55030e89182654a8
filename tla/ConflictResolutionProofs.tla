--------------------- MODULE ConflictResolutionProofs ---------------------
(***************************************************************************)
(* The laws of clocks and of conflict resolution, for every set of peers,  *)
(* every counter and timestamp, and any versions.                          *)
(***************************************************************************)
EXTENDS ConflictResolution, CRDTResolverProofs

Versions == a \in Document /\ b \in Document

LEMMA Typing == Spec => []Versions
<1>1. Init => Versions
  BY ConflictAssumption DEF Init, Versions
<1>2. Versions /\ [Exchange]_<<a, b>> => Versions'
  BY DEF Versions, Exchange
<1>3. QED
  BY <1>1, <1>2, PTL DEF Spec

LEMMA StampIsClock == ASSUME NEW v \in Document PROVE v.vector \in Clock
BY DEF Document

LEMMA CompareLaw == Versions => CompareIsCausalOrder
<1> SUFFICES ASSUME Versions PROVE CompareIsCausalOrder
  OBVIOUS
<1> DEFINE x == a.vector
           y == b.vector
<1>1. x \in Clock /\ y \in Clock
  BY StampIsClock DEF Versions
<1>2. \A s \in Samples : s.vector \in Clock
  BY StampIsClock, ConflictAssumption
<1> HIDE DEF x, y
<1>3. (x \preceq y /\ y \preceq x) <=> x = y
  BY <1>1, OrderIsAntisymmetric, OrderIsReflexive
<1>4. /\ Compare(x, y) = "Equal"      <=> x = y
      /\ Compare(x, y) = "Before"     <=> x \preceq y /\ x # y
      /\ Compare(x, y) = "After"      <=> y \preceq x /\ x # y
      /\ Compare(x, y) = "Concurrent" <=> ~ (x \preceq y) /\ ~ (y \preceq x)
  BY <1>1, <1>3, CompareByOrder
<1>5. HappensBefore(x, y) /\ HappensBefore(y, x) => x = y
  BY <1>1, <1>3, HappensBeforeIsOrder
<1>6. ASSUME NEW s \in Samples, HappensBefore(x, y), HappensBefore(y, s.vector)
      PROVE  HappensBefore(x, s.vector)
  BY <1>1, <1>2, <1>6, HappensBeforeIsOrder, OrderIsTransitive
<1>7. QED
  BY <1>4, <1>5, <1>6 DEF CompareIsCausalOrder, x, y

LEMMA MergeLaw == Versions => MergeIsLeastUpperBound
<1> SUFFICES ASSUME Versions PROVE MergeIsLeastUpperBound
  OBVIOUS
<1> DEFINE x == a.vector
           y == b.vector
<1>1. x \in Clock /\ y \in Clock
  BY StampIsClock DEF Versions
<1>2. \A s \in Samples : s.vector \in Clock
  BY StampIsClock, ConflictAssumption
<1> HIDE DEF x, y
<1>3. x \preceq Merge(x, y) /\ y \preceq Merge(x, y)
  BY <1>1, MergeIsUpperBound
<1>4. Merge(x, y) = Merge(y, x) /\ Merge(x, x) = x
  BY <1>1 DEF Clock, Merge
<1>5. ASSUME NEW z \in Clock
      PROVE  /\ x \preceq z /\ y \preceq z => Merge(x, y) \preceq z
             /\ Merge(Merge(x, y), z) = Merge(x, Merge(y, z))
  BY <1>1 DEF Clock, Merge, \preceq
<1>6. QED
  BY <1>2, <1>3, <1>4, <1>5 DEF MergeIsLeastUpperBound, x, y

(***************************************************************************)
(* Compare names the causal order, and HappensBefore is that order, on     *)
(* clocks of any number of peers.                                          *)
(***************************************************************************)
THEOREM CompareIsRight == Spec => []CompareIsCausalOrder
BY Typing, CompareLaw, PTL

(***************************************************************************)
(* Merge is the least upper bound in that order, in whatever order and     *)
(* however often clocks are merged.                                        *)
(***************************************************************************)
THEOREM MergeIsRight == Spec => []MergeIsLeastUpperBound
BY Typing, MergeLaw, PTL

-----------------------------------------------------------------------------
\* Compare is mirrored when its arguments are.
LEMMA CompareMirrors ==
    ASSUME NEW x \in Clock, NEW y \in Clock
    PROVE  /\ Compare(x, y) = "Equal"      <=> Compare(y, x) = "Equal"
           /\ Compare(x, y) = "Before"     <=> Compare(y, x) = "After"
           /\ Compare(x, y) = "Concurrent" <=> Compare(y, x) = "Concurrent"
           /\ Compare(x, y) = "Equal" => x = y
           /\ Compare(x, y) \in {"Equal", "Before", "After", "Concurrent"}
BY CompareByOrder, OrderIsAntisymmetric

\* The tie-break decides between versions of different peers.
LEMMA OneWins ==
    ASSUME NEW x \in Document, NEW y \in Document, x.peer # y.peer
    PROVE  Wins(x, y) <=> ~ Wins(y, x)
<1>1. Rank[x.peer] \in Nat /\ Rank[y.peer] \in Nat /\ Rank[x.peer] # Rank[y.peer]
  BY ConflictAssumption DEF Document
<1>2. x.timestamp \in Nat /\ y.timestamp \in Nat
  BY DEF Document
<1>3. QED
  BY <1>1, <1>2 DEF Wins

LEMMA ResolutionLaw == Versions => ResolveCommutes
<1> SUFFICES ASSUME Versions, FromOneHistory(a, b), a # b
             PROVE  ResolveConflict(a, b) = ResolveConflict(b, a)
  BY DEF ResolveCommutes
<1>1. a.vector # b.vector /\ (Compare(a.vector, b.vector) = "Concurrent" => a.peer # b.peer)
  BY DEF FromOneHistory
<1>2. a \in Document /\ b \in Document /\ a # NoDocument /\ b # NoDocument
  BY ResolverAssumption DEF Versions
<1>3. a.deleted \in BOOLEAN /\ b.deleted \in BOOLEAN
  BY <1>2 DEF Document
<1>4. CASE a.deleted # b.deleted
  BY <1>2, <1>3, <1>4 DEF ResolveConflict
<1>5. CASE a.deleted = b.deleted
  <2> DEFINE comp   == Compare(a.vector, b.vector)
             mirror == Compare(b.vector, a.vector)
  <2>1. /\ comp = "Before" <=> mirror = "After"
        /\ comp = "After" <=> mirror = "Before"
        /\ comp = "Concurrent" <=> mirror = "Concurrent"
        /\ comp \in {"Before", "After", "Concurrent"}
    BY <1>1, <1>2, StampIsClock, CompareMirrors
  <2>2. comp = "Concurrent" => (Wins(a, b) <=> ~ Wins(b, a))
    BY <1>1, <1>2, OneWins
  <2>3. ResolveConflict(a, b) = IF comp \in {"After", "Equal"} THEN a
                                ELSE IF comp = "Before" THEN b
                                ELSE IF Wins(a, b) THEN mergeDocuments(a, b)
                                                   ELSE mergeDocuments(b, a)
    BY <1>2, <1>5 DEF ResolveConflict
  <2>4. ResolveConflict(b, a) = IF mirror \in {"After", "Equal"} THEN b
                                ELSE IF mirror = "Before" THEN a
                                ELSE IF Wins(b, a) THEN mergeDocuments(b, a)
                                                   ELSE mergeDocuments(a, b)
    BY <1>2, <1>5 DEF ResolveConflict
  <2> HIDE DEF comp, mirror
  <2>5. CASE comp = "Before"
    BY <2>1, <2>3, <2>4, <2>5
  <2>6. CASE comp = "After"
    BY <2>1, <2>3, <2>4, <2>6
  <2>7. CASE comp = "Concurrent"
    BY <2>1, <2>2, <2>3, <2>4, <2>7
  <2>8. QED
    BY <2>1, <2>5, <2>6, <2>7
<1>6. QED
  BY <1>4, <1>5

(***************************************************************************)
(* ResolveConflict gives two replicas the same document, whichever version *)
(* each calls its own, for all versions that one history can contain.      *)
(***************************************************************************)
THEOREM ResolutionCommutes == Spec => []ResolveCommutes
BY Typing, ResolutionLaw, PTL

-----------------------------------------------------------------------------
\* What a merge is made of.
LEMMA MergedDocument ==
    ASSUME NEW x \in Document, NEW y \in Document
    PROVE  LET r == mergeDocuments(x, y)
           IN  /\ x.vector \preceq r.vector /\ y.vector \preceq r.vector
               /\ r.vector \in Clock
               /\ r.timestamp = x.timestamp
               /\ \A f \in Fields : x.payload[f] # Absent \/ y.payload[f] # Absent =>
                                        r.payload[f] \in {x.payload[f], y.payload[f]} \ {Absent}
<1> DEFINE r == mergeDocuments(x, y)
<1>1. r.vector = Merge(x.vector, y.vector) /\ r.timestamp = x.timestamp
  BY DEF Document, mergeDocuments
<1>2. r.payload = Overlay(x.payload, y.payload)
  BY DEF Document, mergeDocuments
<1>3. \A f \in Fields : x.payload[f] # Absent \/ y.payload[f] # Absent =>
                           r.payload[f] \in {x.payload[f], y.payload[f]} \ {Absent}
  BY <1>2 DEF Overlay
<1>4. QED
  BY <1>1, <1>3, StampIsClock, MergeIsUpperBound, MergeType

LEMMA MergeKeepsAll == Versions => MergeLosesNothing
<1> SUFFICES ASSUME Versions, Compare(a.vector, b.vector) = "Concurrent", a.deleted = b.deleted
             PROVE  LET r == ResolveConflict(a, b)
                    IN  /\ HappensBefore(a.vector, r.vector) /\ HappensBefore(b.vector, r.vector)
                        /\ \A f \in Fields : a.payload[f] # Absent \/ b.payload[f] # Absent =>
                                 r.payload[f] \in {a.payload[f], b.payload[f]} \ {Absent}
                        /\ r.timestamp = Later(a.timestamp, b.timestamp)
  BY DEF MergeLosesNothing
<1>1. a \in Document /\ b \in Document /\ a # NoDocument /\ b # NoDocument
  BY ResolverAssumption DEF Versions
<1>2. a.timestamp \in Nat /\ b.timestamp \in Nat
  BY <1>1 DEF Document
<1>3. ResolveConflict(a, b) = IF Wins(a, b) THEN mergeDocuments(a, b) ELSE mergeDocuments(b, a)
  BY <1>1 DEF ResolveConflict
<1>4. a.vector \in Clock /\ b.vector \in Clock
  BY <1>1, StampIsClock
<1>5. CASE Wins(a, b)
  <2>1. a.timestamp = Later(a.timestamp, b.timestamp)
    BY <1>2, <1>5 DEF Wins, Later
  <2>2. QED
    BY <1>1, <1>3, <1>4, <1>5, <2>1, MergedDocument, HappensBeforeIsOrder
<1>6. CASE ~ Wins(a, b)
  <2>1. b.timestamp = Later(a.timestamp, b.timestamp)
    BY <1>2, <1>6 DEF Wins, Later
  <2>2. QED
    BY <1>1, <1>3, <1>4, <1>6, <2>1, MergedDocument, HappensBeforeIsOrder
<1>7. QED
  BY <1>5, <1>6

(***************************************************************************)
(* Merging two concurrent versions, edited or deleted alike, keeps what    *)
(* both know, every field that either has, and the later timestamp.        *)
(***************************************************************************)
THEOREM MergeKeepsBoth == Spec => []MergeLosesNothing
BY Typing, MergeKeepsAll, PTL
=============================================================================
