---------------------------- MODULE CRDTResolver ----------------------------
(***************************************************************************)
(* internal/resolver/crdt_resolver.go (the part the system runs): turning  *)
(* stored payloads into distributed documents and back, and applying a     *)
(* CRDT operation to a document.                                           *)
(*                                                                         *)
(* A payload is a map from field names to JSON values; Absent stands for   *)
(* "no such key".  NoDocument is Go's nil *DistributedDocument.  ID,       *)
(* EntryType and Stage are carried along by the code and never read here,  *)
(* so a document has no such fields.                                       *)
(***************************************************************************)
EXTENDS VectorClock

CONSTANTS Fields,       \* field names of a payload
          Values,       \* what a field can hold
          Absent,       \* a field that is not there
          NoDocument    \* nil

Payload == [Fields -> Values \cup {Absent}]

EmptyPayload == [f \in Fields |-> Absent]

Document == [payload   : Payload,
             vector    : Clock,
             timestamp : Nat,
             peer      : Peers,
             deleted   : BOOLEAN]

ASSUME ResolverAssumption == /\ Absent \notin Values
                             /\ NoDocument \notin Document
                             /\ NoDocument \notin Payload

(***************************************************************************)
(* The fields of first, and those of second that first lacks.              *)
(***************************************************************************)
Overlay(first, second) ==
    [f \in Fields |-> IF first[f] # Absent THEN first[f] ELSE second[f]]

(***************************************************************************)
(* ToDistributed forgets whatever history the payload has: the vector is   *)
(* {peerID: 1} and the timestamp is the wall clock, whoever wrote it and   *)
(* however often.                                                          *)
(***************************************************************************)
ToDistributed(payload, peerID, now) ==
    [payload   |-> payload,
     vector    |-> [NewVectorClock EXCEPT ![peerID] = 1],
     timestamp |-> now,
     peer      |-> peerID,
     deleted   |-> FALSE]

ToRegular(doc) == doc.payload

Later(t1, t2) == IF t2 > t1 THEN t2 ELSE t1

(***************************************************************************)
(* An operation reaches a document it knows nothing of, or not all of.     *)
(***************************************************************************)
Applies(doc, op) == Compare(doc.vector, op.vector) \in {"Before", "Concurrent"}

(***************************************************************************)
(* The document after an operation; the same document when the operation   *)
(* is ignored, NoDocument when there is none.  An insert and an update are *)
(* treated alike.                                                          *)
(***************************************************************************)
ApplyOperation(doc, op) ==
    IF doc = NoDocument
    THEN IF op.type \in {"insert", "update"}
         THEN [op.data EXCEPT !.vector    = op.vector,
                              !.timestamp = op.timestamp,
                              !.peer      = op.peer]
         ELSE NoDocument
    ELSE IF ~ Applies(doc, op) THEN doc
    ELSE [doc EXCEPT
            !.payload   = IF op.type = "delete" THEN @
                          ELSE Overlay(op.data.payload, @),
            !.deleted   = @ \/ op.type = "delete",
            !.vector    = Merge(@, op.vector),
            !.timestamp = Later(@, op.timestamp)]
=============================================================================
