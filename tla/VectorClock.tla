---------------------------- MODULE VectorClock ----------------------------
(***************************************************************************)
(* internal/clock/vector_clock.go: vector clocks, the causal stamps of     *)
(* CRDT operations.                                                        *)
(*                                                                         *)
(* The code keeps a Go map from peer IDs to int64 counters and reads a     *)
(* missing key as 0 in every function, so a clock is a total function from *)
(* peers to naturals here, 0 standing for "no entry".  Counters advance by *)
(* one per local operation; the 2^63 operations that would wrap one are    *)
(* out of scope.  Clone copies a value and is the identity on values.      *)
(***************************************************************************)
EXTENDS Naturals

CONSTANT Peers      \* peer IDs: one per run of a process (network.GetPeerID)

Clock == [Peers -> Nat]

NewVectorClock == [p \in Peers |-> 0]

Increment(clock, peerID) == [clock EXCEPT ![peerID] = @ + 1]

\* Mutant: any entry of the second clock replaces that of the first.
MergeBySecond(clock1, clock2) ==
    [k \in Peers |-> IF clock2[k] > 0 THEN clock2[k] ELSE clock1[k]]

Merge(clock1, clock2) ==
    [k \in Peers |-> IF clock2[k] > clock1[k] THEN clock2[k] ELSE clock1[k]]

\* Mutant: Concurrent is never told from After.
CompareStopsAtGreater(clock1, clock2) ==
    IF \E k \in Peers : clock1[k] > clock2[k] THEN "After"
    ELSE IF \E k \in Peers : clock1[k] < clock2[k] THEN "Before" ELSE "Equal"

(***************************************************************************)
(* How clock1 stands to clock2.                                            *)
(***************************************************************************)
Compare(clock1, clock2) ==
    LET hasGreater == \E k \in Peers : clock1[k] > clock2[k]
        hasLess    == \E k \in Peers : clock1[k] < clock2[k]
    IN  IF hasGreater THEN IF hasLess THEN "Concurrent" ELSE "After"
                      ELSE IF hasLess THEN "Before" ELSE "Equal"

\* "Before or equal", as the code puts it.
HappensBefore(clock1, clock2) == Compare(clock1, clock2) \in {"Before", "Equal"}

\* The causal order the functions are about: x knows nothing that y does not.
x \preceq y == \A k \in Peers : x[k] <= y[k]
=============================================================================
