----------------------- MODULE MCConflictResolution -----------------------
(***************************************************************************)
(* Versions to resolve, for TLC.                                           *)
(***************************************************************************)
EXTENDS ConflictResolution

CONSTANTS p, q

PeerOrder == [x \in Peers |-> IF x = p THEN 1 ELSE 2]

\* Versions of two peers with counters up to 2 and timestamps up to 1, each stamped by
\* the peer that wrote it.
AllVersions ==
    {v \in [payload : Payload, vector : [Peers -> 0 .. 2], timestamp : 0 .. 1,
            peer : Peers, deleted : BOOLEAN] : v.vector[v.peer] > 0}
=============================================================================
