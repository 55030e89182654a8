------------------------- MODULE MCCollectionThreads -------------------------
(***************************************************************************)
(* Small instances of CollectionThreads for TLC.                           *)
(***************************************************************************)
EXTENDS CollectionThreads, TLC

CONSTANTS me, q, f1, v1, v2

OneFieldDocs == {[f \in Fields |-> v1]}

\* Inserts by q: one stamped by a peer that knew nothing, which a stored document
\* ignores, and a later one that knew an operation of this process.
Inserts ==
    {[type |-> "insert", documentID |-> "d1",
      data |-> ToDistributed([f \in Fields |-> v2], q, 0),
      vector |-> v, timestamp |-> 0, peer |-> q] :
        v \in {[x \in Peers |-> 0], [x \in Peers |-> IF x = q THEN 2 ELSE 1]}}

WritersAreAlike == Permutations(Writers)

\* Once the collection cannot be attached again, a network that was left since it
\* was attached changes nothing but itself, and no property looks at it.
NetworkMatters == ~ (history.left /\ states = MaxStates)

StateThatMatters ==
    <<ended, document, networkID, state, operationLog, mu, calls, states, history,
      IF NetworkMatters THEN network ELSE NoNetwork>>
=============================================================================
