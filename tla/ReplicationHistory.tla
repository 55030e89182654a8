------------------------ MODULE ReplicationHistory ------------------------
(***************************************************************************)
(* Replication with a record of what has been written and which operations *)
(* each process has applied, to say what replicas promise each other.      *)
(***************************************************************************)
EXTENDS Replication

VARIABLES handled,   \* the operations a process has issued or applied
          writes,    \* what clients wrote to a document (NoDocument: a delete)
          offline    \* documents written by a process that was not attached

history == <<handled, writes, offline>>

HistoryInit ==
    /\ Init
    /\ handled = [p \in Peers |-> {}]
    /\ writes  = [d \in DocIDs |-> {}]
    /\ offline = {}

Handles(p, op) == handled' = [handled EXCEPT ![p] = @ \cup {op}]

\* Process p has written what to document d, by operation op.
Writes(p, d, what, op) ==
    /\ writes' = [writes EXCEPT ![d] = @ \cup {what}]
    /\ IF attached[p] THEN Handles(p, op) /\ UNCHANGED offline
                      ELSE offline' = offline \cup {d} /\ UNCHANGED handled

InsertH(p, d, payload) ==
    /\ Insert(p, d, payload)
    /\ Writes(p, d, payload, NewOperation(p, "insert", d, ToDistributed(payload, p, Now)))

DeleteH(p, d) ==
    /\ Delete(p, d)
    /\ Writes(p, d, NoDocument, NewOperation(p, "delete", d, NoDocument))

ReceiveOperationH(p, m) ==
    /\ ReceiveOperation(p, m)
    /\ Handles(p, m.op) /\ UNCHANGED <<writes, offline>>

ApplyFromResponseH(h, i) ==
    /\ ApplyFromResponse(h, i)
    /\ Handles(h.at, h.ops[i]) /\ UNCHANGED <<writes, offline>>

\* What has been applied is on the disk, whose next owner inherits it.
RestartH(dead, p) ==
    /\ Restart(dead, p)
    /\ handled' = [handled EXCEPT ![p] = handled[dead], ![dead] = {}]
    /\ UNCHANGED <<writes, offline>>

\* The steps that neither write nor apply anything.
Silent ==
    \/ \E p \in Peers :
          \/ Start(p)
          \/ Crash(p)
          \/ Update(p)
          \/ AttachToNetwork(p)
          \/ DetachFromNetwork(p)
          \/ ForceSync(p)
          \/ ClearFlagAfterTimeout(p)
          \/ \E m \in net : handleSyncRequest(p, m) \/ ReceiveSyncResponse(p, m)
    \/ \E h \in handlers : FinishResponse(h)
    \/ \E m \in net : Lose(m)

HistoryNext ==
    \/ \E p \in Peers, d \in DocIDs :
          DeleteH(p, d) \/ \E payload \in Docs : InsertH(p, d, payload)
    \/ \E p \in Peers, m \in net : ReceiveOperationH(p, m)
    \/ \E dead, p \in Peers : RestartH(dead, p)
    \/ \E h \in handlers : \E i \in DOMAIN h.ops : ApplyFromResponseH(h, i)
    \/ Silent /\ UNCHANGED history

HistorySpec == HistoryInit /\ [][HistoryNext]_<<vars, history>>

HistoryFairSpec == HistorySpec /\ Fairness

-----------------------------------------------------------------------------
(***************************************************************************)
(* Documents that are only ever written one way converge: whoever has      *)
(* applied an operation on such a document holds what was written, however *)
(* often and in whatever order operations came and wherever it was         *)
(* restarted.                                                              *)
(***************************************************************************)
WriteOnceConverges ==
    \A p \in Peers : \A op \in handled[p] :
        Up(p) /\ op.type = "insert" /\ writes[op.documentID] = {op.data.payload}
            => store[p][op.documentID] = op.data.payload

(***************************************************************************)
(* Strong eventual consistency: two replicas that have applied the same    *)
(* operations hold the same documents.                                     *)
(***************************************************************************)
SameOperationsSameDocuments ==
    \A p, q \in Peers : Up(p) /\ Up(q) /\ handled[p] = handled[q] =>
        \A d \in DocIDs \ offline : store[p][d] = store[q][d]

(***************************************************************************)
(* handleSyncRequest finds the missing operations: those of its log that   *)
(* the requester has not applied, and that are not on their way to it.     *)
(***************************************************************************)
OnItsWay(p, op) ==
    \/ \E m \in net : m.to = p /\ m.type = "operation" /\ m.op = op
    \/ \E m \in net : m.to = p /\ m.type = "sync_response" /\ op \in {m.ops[i] : i \in DOMAIN m.ops}
    \/ \E h \in handlers : h.at = p /\ op \in {h.ops[i] : i \in DOMAIN h.ops}

SyncFindsMissing ==
    [][\A p \in Peers, m \in net :
          m.to = p /\ m.type = "sync_request" /\ m \notin net' /\ attached'[p] /\ Up(m.from) =>
              LET ops == Missing(operationLog[p], m.vector)
              IN  \A i \in DOMAIN operationLog[p] :
                     \/ i \in DOMAIN ops
                     \/ operationLog[p][i] \in handled[m.from]
                     \/ OnItsWay(m.from, operationLog[p][i])]_<<vars, history>>

=============================================================================
