------------------------ MODULE ConflictResolution ------------------------
(***************************************************************************)
(* internal/resolver/crdt_resolver.go: ResolveConflict and mergeDocuments, *)
(* which choose between two versions of a document or merge them.  They    *)
(* are exported and described by the documentation; the collection applies *)
(* operations with ApplyOperation and does not call them.                  *)
(*                                                                         *)
(* A state is a pair of versions from Samples, on which the laws of        *)
(* conflict resolution, and those of the clocks they are stamped with, are *)
(* read off; a step exchanges the two.                                     *)
(***************************************************************************)
EXTENDS CRDTResolver

CONSTANTS Rank,      \* the order of peer ID strings
          Samples    \* the versions to be resolved

ASSUME ConflictAssumption ==
    /\ Rank \in [Peers -> Nat]
    /\ \A p, q \in Peers : Rank[p] = Rank[q] => p = q
    /\ Samples \subseteq Document

VARIABLES a, b

\* Mutant: the merged document keeps the winner's stamp.
MergeKeepsStamp(winner, loser) ==
    [winner EXCEPT !.payload = Overlay(winner.payload, loser.payload)]

(***************************************************************************)
(* The winner, with the fields it lacks from the loser.  (The code writes  *)
(* them into the winner's own map; callers that keep the winner see them.) *)
(***************************************************************************)
mergeDocuments(winner, loser) ==
    [winner EXCEPT !.vector  = Merge(winner.vector, loser.vector),
                   !.payload = Overlay(winner.payload, loser.payload)]

\* Mutant: no tie-break.
LocalWinsTies(local, remote) == local.timestamp >= remote.timestamp

\* Last writer wins, peer IDs break ties.
Wins(local, remote) ==
    \/ local.timestamp > remote.timestamp
    \/ local.timestamp = remote.timestamp /\ Rank[local.peer] >= Rank[remote.peer]

ResolveConflict(local, remote) ==
    LET comp    == Compare(local.vector, remote.vector)
        deleted == IF local.deleted THEN local ELSE remote
        kept    == IF local.deleted THEN remote ELSE local
    IN  IF remote = NoDocument THEN local
        ELSE IF local = NoDocument THEN remote
        ELSE IF local.deleted # remote.deleted
        THEN IF Compare(kept.vector, deleted.vector) \in {"Before", "Concurrent"}
             THEN deleted ELSE kept
        ELSE IF comp \in {"After", "Equal"} THEN local
        ELSE IF comp = "Before" THEN remote
        ELSE IF Wins(local, remote) THEN mergeDocuments(local, remote)
                                    ELSE mergeDocuments(remote, local)

-----------------------------------------------------------------------------
Init == a \in Samples /\ b \in Samples

Exchange == a' = b /\ b' = a

Spec == Init /\ [][Exchange]_<<a, b>>

\* Versions of one document that a history can contain: one version per
\* stamp, and the writes of one peer are ordered by their stamps.
FromOneHistory(x, y) ==
    \/ x = y
    \/ x.vector # y.vector /\ (Compare(x.vector, y.vector) = "Concurrent" => x.peer # y.peer)

(***************************************************************************)
(* Two replicas that resolve the same two versions, each calling its own   *)
(* one local, end up with the same document.                               *)
(***************************************************************************)
ResolveCommutes ==
    FromOneHistory(a, b) => ResolveConflict(a, b) = ResolveConflict(b, a)

(***************************************************************************)
(* Merging concurrent edits loses nothing: the result covers the stamps of *)
(* both, has a field if either has it, and the later timestamp.            *)
(***************************************************************************)
MergeLosesNothing ==
    Compare(a.vector, b.vector) = "Concurrent" /\ a.deleted = b.deleted =>
        LET r == ResolveConflict(a, b)
        IN  /\ HappensBefore(a.vector, r.vector) /\ HappensBefore(b.vector, r.vector)
            /\ \A f \in Fields : a.payload[f] # Absent \/ b.payload[f] # Absent =>
                                     r.payload[f] \in {a.payload[f], b.payload[f]} \ {Absent}
            /\ r.timestamp = Later(a.timestamp, b.timestamp)

(***************************************************************************)
(* Compare names how two stamps stand in the causal order, and             *)
(* HappensBefore is that order: two stamps each before the other are one,  *)
(* and a chain of messages is as good as a single one.                     *)
(***************************************************************************)
CompareIsCausalOrder ==
    LET x == a.vector
        y == b.vector
    IN  /\ Compare(x, y) = "Equal"      <=> x = y
        /\ Compare(x, y) = "Before"     <=> x \preceq y /\ x # y
        /\ Compare(x, y) = "After"      <=> y \preceq x /\ x # y
        /\ Compare(x, y) = "Concurrent" <=> ~ (x \preceq y) /\ ~ (y \preceq x)
        /\ HappensBefore(x, y) /\ HappensBefore(y, x) => x = y
        /\ \A s \in Samples :
              HappensBefore(x, y) /\ HappensBefore(y, s.vector) => HappensBefore(x, s.vector)

(***************************************************************************)
(* Merge is the least upper bound of two stamps: it knows what either of   *)
(* them knows and nothing else, so stamps may be merged in any order and   *)
(* more than once.                                                         *)
(***************************************************************************)
MergeIsLeastUpperBound ==
    LET x == a.vector
        y == b.vector
    IN  /\ x \preceq Merge(x, y) /\ y \preceq Merge(x, y)
        /\ Merge(x, y) = Merge(y, x) /\ Merge(x, x) = x
        /\ \A s \in Samples :
              LET z == s.vector
              IN  /\ x \preceq z /\ y \preceq z => Merge(x, y) \preceq z
                  /\ Merge(Merge(x, y), z) = Merge(x, Merge(y, z))
=============================================================================
