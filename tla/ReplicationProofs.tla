------------------------- MODULE ReplicationProofs -------------------------
(***************************************************************************)
(* Proofs about Replication and ReplicationHistory, for every set of       *)
(* peers, documents and payloads and every bound.                          *)
(***************************************************************************)
EXTENDS ReplicationHistory, CRDTResolverProofs, SequenceTheorems, TLAPS

-----------------------------------------------------------------------------
(***************************************************************************)
(* What the operators return.                                              *)
(***************************************************************************)
LEMMA AfterRemoteType ==
    ASSUME TypeOK, NEW p \in Peers, NEW op \in Operation
    PROVE  AfterRemote(p, op) \in Payload \cup {NoDocument}
<1> DEFINE existing == store[p][op.documentID]
           known    == IF existing = NoDocument THEN NoDocument
                       ELSE ToDistributed(existing, op.peer, Now)
           result   == ApplyOperation(known, op)
<1>1. /\ existing \in Payload \cup {NoDocument}
      /\ op.peer \in Peers
  <2>1. op.documentID \in DocIDs /\ op.peer \in Peers
    BY DEF Operation
  <2>2. store[p] \in Store
    BY DEF TypeOK
  <2>3. QED
    BY <2>1, <2>2 DEF Store
<1>2. known \in Document \cup {NoDocument}
  BY <1>1, ToDistributedType DEF Now
<1> HIDE DEF known
<1>3. result \in Document \cup {NoDocument}
  <2>1. /\ op.vector \in Clock /\ op.timestamp \in Nat /\ op.peer \in Peers
        /\ op.type # "delete" => op.data \in Document
    BY DEF Operation
  <2>2. QED
    BY <1>2, <2>1, ApplyOperationType
<1>4. AfterRemote(p, op) = IF result = NoDocument THEN NoDocument
                           ELSE IF result.deleted THEN NoDocument ELSE ToRegular(result)
  BY DEF AfterRemote, known
<1> HIDE DEF result
<1>5. QED
  BY <1>3, <1>4 DEF Document, ToRegular

LEMMA NewOperationType ==
    ASSUME TypeOK, NEW p \in Peers, NEW d \in DocIDs
    PROVE  /\ \A payload \in Payload :
                 NewOperation(p, "insert", d, ToDistributed(payload, p, Now)) \in Operation
           /\ NewOperation(p, "delete", d, NoDocument) \in Operation
BY ToDistributedType DEF TypeOK, NewOperation, Operation, Now

\* Appending to a log of at most MaxLogSize operations drops its first one
\* when there is no room.
LEMMA PruneType ==
    ASSUME NEW log \in Seq(Operation), Len(log) <= MaxLogSize, NEW op \in Operation
    PROVE  LET new  == pruneOperationLog(Append(log, op))
               skip == IF Len(log) < MaxLogSize THEN 0 ELSE 1
           IN  /\ new \in Seq(Operation)
               /\ Len(new) = Len(log) + 1 - skip
               /\ \A i \in 1 .. Len(new) : new[i] = Append(log, op)[i + skip]
<1> DEFINE app  == Append(log, op)
           skip == IF Len(log) < MaxLogSize THEN 0 ELSE 1
<1>1. /\ app \in Seq(Operation) /\ Len(app) = Len(log) + 1
      /\ MaxLogSize \in Nat \ {0} /\ Len(log) \in Nat
  BY ReplicationAssumption
<1>2. CASE Len(log) < MaxLogSize
  BY <1>1, <1>2 DEF pruneOperationLog
<1>3. CASE Len(log) = MaxLogSize
  <2>1. pruneOperationLog(app) = SubSeq(app, 2, Len(app))
    BY <1>1, <1>3 DEF pruneOperationLog
  <2>2. /\ SubSeq(app, 2, Len(app)) \in Seq(Operation)
        /\ Len(SubSeq(app, 2, Len(app))) = Len(log)
        /\ \A i \in 1 .. Len(log) : SubSeq(app, 2, Len(app))[i] = app[i + 1]
    BY <1>1, <1>3, SubSeqProperties
  <2>3. skip = 1 /\ Len(log) + 1 - 1 = Len(log)
    BY <1>1, <1>3
  <2> HIDE DEF app, skip
  <2>4. QED
    BY <2>1, <2>2, <2>3 DEF app, skip
<1>4. QED
  BY <1>1, <1>2, <1>3

LEMMA PrunedEntries ==
    ASSUME NEW log \in Seq(Operation), Len(log) <= MaxLogSize, NEW op \in Operation
    PROVE  \A i \in DOMAIN pruneOperationLog(Append(log, op)) :
               \/ pruneOperationLog(Append(log, op))[i] = op
               \/ \E j \in DOMAIN log : pruneOperationLog(Append(log, op))[i] = log[j]
<1> DEFINE new  == pruneOperationLog(Append(log, op))
           skip == IF Len(log) < MaxLogSize THEN 0 ELSE 1
<1>1. /\ new \in Seq(Operation) /\ Len(new) = Len(log) + 1 - skip
      /\ \A i \in 1 .. Len(new) : new[i] = Append(log, op)[i + skip]
  BY PruneType
<1>2. skip \in {0, 1} /\ Len(log) \in Nat
  OBVIOUS
<1>3. \A j \in 1 .. Len(log) + 1 : Append(log, op)[j] = IF j = Len(log) + 1 THEN op ELSE log[j]
  OBVIOUS
<1> HIDE DEF new, skip
<1>4. SUFFICES ASSUME NEW i \in DOMAIN new
               PROVE  new[i] = op \/ \E j \in DOMAIN log : new[i] = log[j]
  BY DEF new
<1>5. i \in 1 .. Len(new)
  BY <1>1
<1>6. i + skip \in 1 .. Len(log) + 1 /\ new[i] = Append(log, op)[i + skip]
  BY <1>1, <1>2, <1>5
<1>7. CASE i + skip = Len(log) + 1
  BY <1>3, <1>6, <1>7
<1>8. CASE i + skip # Len(log) + 1
  <2>1. i + skip \in DOMAIN log /\ new[i] = log[i + skip]
    BY <1>2, <1>3, <1>6, <1>8
  <2>2. QED
    BY <2>1
<1>9. QED
  BY <1>7, <1>8

LEMMA MessageType ==
    ASSUME TypeOK
    PROVE  /\ \A op \in Operation, q \in Peers :
                 IsMessage([type |-> "operation", to |-> q, op |-> op])
           /\ \A p, q \in Peers, v \in Clock :
                 IsMessage([type |-> "sync_request", to |-> q, from |-> p, vector |-> v])
           /\ \A p, q \in Peers, v \in Clock :
                 IsMessage([type |-> "sync_response", to |-> q,
                            ops |-> Missing(operationLog[p], v)])
<1>1. ASSUME NEW p \in Peers, NEW v \in Clock
      PROVE  IsSelection(Missing(operationLog[p], v))
  <2>1. operationLog[p] \in Seq(Operation) /\ Len(operationLog[p]) <= MaxLogSize
    BY DEF TypeOK
  <2>2. DOMAIN operationLog[p] \subseteq 1 .. MaxLogSize
    BY <2>1, ReplicationAssumption
  <2>3. \A i \in DOMAIN operationLog[p] : operationLog[p][i] \in Operation
    BY <2>1
  <2>4. QED
    BY <2>2, <2>3 DEF IsSelection, Missing
<1>2. QED
  BY <1>1 DEF IsMessage

\* The parts of a message, once its type is known.
LEMMA MessageParts ==
    ASSUME TypeOK, NEW m \in net
    PROVE  /\ m.to \in Peers
           /\ m.type = "operation" => m.op \in Operation
           /\ m.type = "sync_request" => m.from \in Peers /\ m.vector \in Clock
           /\ m.type = "sync_response" => IsSelection(m.ops)
BY DEF TypeOK, IsMessage

-----------------------------------------------------------------------------
(***************************************************************************)
(* Type correctness.                                                       *)
(***************************************************************************)
LEMMA StopType ==
    ASSUME TypeOK, NEW p \in Peers, Stop(p)
    PROVE  TypeOK'
BY NewVectorClockType, ReplicationAssumption DEF TypeOK, Stop, IsMessage, IsHandler

LEMMA IssueType ==
    ASSUME TypeOK, NEW p \in Peers, NEW op \in Operation, Issue(p, op)
    PROVE  /\ localVector' \in [Peers -> Clock]
           /\ operationLog' \in [Peers -> Seq(Operation)]
           /\ \A q \in Peers : Len(operationLog'[q]) <= MaxLogSize
           /\ \A m \in net' : IsMessage(m)
<1>1. CASE ~ attached[p]
  BY <1>1 DEF Issue, TypeOK
<1>2. CASE attached[p]
  <2>1. broadcastOperation(p, op)
    BY <1>2 DEF Issue
  <2>2. localVector' \in [Peers -> Clock]
    BY <2>1, IncrementType DEF broadcastOperation, TypeOK
  <2>3. LET new == pruneOperationLog(Append(operationLog[p], op))
        IN  new \in Seq(Operation) /\ Len(new) <= MaxLogSize
    BY PruneType, ReplicationAssumption DEF TypeOK
  <2>4. /\ operationLog' \in [Peers -> Seq(Operation)]
        /\ \A q \in Peers : Len(operationLog'[q]) <= MaxLogSize
    BY <2>1, <2>3 DEF broadcastOperation, TypeOK
  <2>5. \A m \in net' : IsMessage(m)
    BY <2>1, MessageType DEF broadcastOperation, TypeOK, Connected
  <2>6. QED
    BY <2>2, <2>4, <2>5
<1>3. QED
  BY <1>1, <1>2

LEMMA RemoteType ==
    ASSUME TypeOK, NEW p \in Peers, NEW op \in Operation, handleRemoteOperation(p, op)
    PROVE  store' \in [Peers -> Store] /\ localVector' \in [Peers -> Clock]
<1>1. op.documentID \in DocIDs /\ op.vector \in Clock
  BY DEF Operation
<1>2. AfterRemote(p, op) \in Payload \cup {NoDocument}
  BY AfterRemoteType
<1>3. store' \in [Peers -> Store]
  BY <1>1, <1>2 DEF handleRemoteOperation, TypeOK, Store
<1>4. localVector' \in [Peers -> Clock]
  BY <1>1, MergeType DEF handleRemoteOperation, TypeOK
<1>5. QED
  BY <1>3, <1>4

LEMMA TypeInit == Init => TypeOK
<1>1. EmptyStore \in Store
  BY DEF EmptyStore, Store
<1>2. <<>> \in Seq(Operation) /\ Len(<<>>) = 0
  OBVIOUS
<1>3. QED
  BY <1>1, <1>2, NewVectorClockType, ReplicationAssumption DEF Init, TypeOK

LEMMA TypeStep == TypeOK /\ [Next]_vars => TypeOK'
<1> SUFFICES ASSUME TypeOK, [Next]_vars PROVE TypeOK'
  OBVIOUS
<1>1. ASSUME NEW p \in Peers, Start(p) PROVE TypeOK'
  BY <1>1 DEF Start, TypeOK, volatile
<1>2. ASSUME NEW dead \in Peers, NEW p \in Peers, Restart(dead, p) PROVE TypeOK'
  <2>1. EmptyStore \in Store /\ store[dead] \in Store
    BY DEF EmptyStore, Store, TypeOK
  <2>2. QED
    BY <1>2, <2>1 DEF Restart, TypeOK, volatile
<1>3. ASSUME NEW p \in Peers, Crash(p) PROVE TypeOK'
  BY <1>3, StopType DEF Crash
<1>4. ASSUME NEW p \in Peers, NEW d \in DocIDs, NEW payload \in Docs, Insert(p, d, payload)
      PROVE  TypeOK'
  <2>1. payload \in Payload
    BY ReplicationAssumption
  <2>2. store' \in [Peers -> Store]
    BY <1>4, <2>1 DEF Insert, TypeOK, Store
  <2>3. NewOperation(p, "insert", d, ToDistributed(payload, p, Now)) \in Operation
    BY <2>1, NewOperationType
  <2>4. QED
    BY <1>4, <2>2, <2>3, IssueType DEF Insert, TypeOK
<1>5. ASSUME NEW p \in Peers, NEW d \in DocIDs, Delete(p, d) PROVE TypeOK'
  <2>1. store' \in [Peers -> Store]
    BY <1>5 DEF Delete, TypeOK, Store
  <2>2. NewOperation(p, "delete", d, NoDocument) \in Operation
    BY NewOperationType
  <2>3. QED
    BY <1>5, <2>1, <2>2, IssueType DEF Delete, TypeOK
<1>6. ASSUME NEW p \in Peers, Update(p) PROVE TypeOK'
  BY <1>6 DEF Update, TypeOK, volatile
<1>7. ASSUME NEW p \in Peers, AttachToNetwork(p) PROVE TypeOK'
  <2>1. \A m \in net' : IsMessage(m)
    BY <1>7, MessageType, NewVectorClockType
    DEF AttachToNetwork, requestSync, TypeOK, Connected
  <2>2. QED
    BY <1>7, <2>1, NewVectorClockType DEF AttachToNetwork, requestSync, TypeOK
<1>8. ASSUME NEW p \in Peers, DetachFromNetwork(p) PROVE TypeOK'
  BY <1>8, NewVectorClockType DEF DetachFromNetwork, TypeOK
<1>9. ASSUME NEW p \in Peers, ForceSync(p) PROVE TypeOK'
  <2>1. \A m \in net' : IsMessage(m)
    BY <1>9, MessageType DEF ForceSync, requestSync, TypeOK, Connected
  <2>2. QED
    BY <1>9, <2>1 DEF ForceSync, requestSync, TypeOK
<1>10. ASSUME NEW p \in Peers, ClearFlagAfterTimeout(p) PROVE TypeOK'
  BY <1>10 DEF ClearFlagAfterTimeout, TypeOK
<1>11. ASSUME NEW p \in Peers, NEW m \in net, ReceiveOperation(p, m) PROVE TypeOK'
  <2>1. m.op \in Operation
    BY <1>11, MessageParts DEF ReceiveOperation
  <2>2. QED
    BY <1>11, <2>1, RemoteType DEF ReceiveOperation, TypeOK
<1>12. ASSUME NEW p \in Peers, NEW m \in net, handleSyncRequest(p, m) PROVE TypeOK'
  <2>1. CASE AnswerSyncRequest(p, m)
    <3>1. m.from \in Peers /\ m.vector \in Clock
      BY <1>12, MessageParts DEF handleSyncRequest
    <3>2. \A n \in net' : IsMessage(n)
      BY <2>1, <3>1, MessageType DEF AnswerSyncRequest, TypeOK
    <3>3. QED
      BY <2>1, <3>2 DEF AnswerSyncRequest, TypeOK, volatile
  <2>2. CASE Stop(p)
    BY <2>2, StopType
  <2>3. QED
    BY <1>12, <2>1, <2>2 DEF handleSyncRequest
<1>13. ASSUME NEW p \in Peers, NEW m \in net, ReceiveSyncResponse(p, m) PROVE TypeOK'
  <2>1. IsSelection(m.ops)
    BY <1>13, MessageParts DEF ReceiveSyncResponse
  <2>2. IsHandler([at |-> p, ops |-> m.ops])
    BY <2>1 DEF IsHandler
  <2>3. QED
    BY <1>13, <2>2 DEF ReceiveSyncResponse, TypeOK, volatile
<1>14. ASSUME NEW h \in handlers, NEW i \in DOMAIN h.ops, ApplyFromResponse(h, i)
       PROVE  TypeOK'
  <2>1. h.at \in Peers /\ IsSelection(h.ops)
    BY DEF TypeOK, IsHandler
  <2>2. h.ops[i] \in Operation
    BY <2>1 DEF IsSelection
  <2>3. IsHandler([at |-> h.at, ops |-> [j \in DOMAIN h.ops \ {i} |-> h.ops[j]]])
    BY <2>1 DEF IsHandler, IsSelection
  <2>4. store' \in [Peers -> Store] /\ localVector' \in [Peers -> Clock]
    BY <1>14, <2>1, <2>2, RemoteType DEF ApplyFromResponse
  <2>5. QED
    BY <1>14, <2>3, <2>4 DEF ApplyFromResponse, TypeOK
<1>15. ASSUME NEW h \in handlers, FinishResponse(h) PROVE TypeOK'
  BY <1>15 DEF FinishResponse, TypeOK
<1>16. ASSUME NEW m \in net, Lose(m) PROVE TypeOK'
  BY <1>16 DEF Lose, TypeOK, volatile
<1>17. CASE UNCHANGED vars
  BY <1>17 DEF vars, volatile, TypeOK
<1>18. QED
  BY <1>1, <1>2, <1>3, <1>4, <1>5, <1>6, <1>7, <1>8, <1>9, <1>10, <1>11, <1>12,
     <1>13, <1>14, <1>15, <1>16, <1>17
  DEF Next, ProcessStep, ClientStep, Receive, HandlerStep

(***************************************************************************)
(* Every variable keeps its type, and no log outgrows maxLogSize.          *)
(***************************************************************************)
THEOREM TypeInvariant == Spec => []TypeOK
BY TypeInit, TypeStep, PTL DEF Spec

-----------------------------------------------------------------------------
(***************************************************************************)
(* The sync flag.  FlagHasTimer is inductive as it stands: the flag is set *)
(* together with a timer, and a timer that goes takes the flag with it.    *)
(***************************************************************************)
LEMMA FlagStep == TypeOK /\ FlagHasTimer /\ [Next]_vars => FlagHasTimer'
<1> SUFFICES ASSUME TypeOK, FlagHasTimer, [Next]_vars PROVE FlagHasTimer'
  OBVIOUS
<1> USE DEF FlagHasTimer
<1>1. ASSUME NEW p \in Peers, ProcessStep(p) PROVE FlagHasTimer'
  BY <1>1 DEF ProcessStep, Start, Restart, Crash, Stop, TypeOK, volatile
<1>2. ASSUME NEW p \in Peers, ClientStep(p) PROVE FlagHasTimer'
  <2>1. ASSUME NEW d \in DocIDs, NEW payload \in Docs, Insert(p, d, payload)
        PROVE  FlagHasTimer'
    BY <2>1 DEF Insert
  <2>2. ASSUME NEW d \in DocIDs, Delete(p, d) PROVE FlagHasTimer'
    BY <2>2 DEF Delete
  <2>3. CASE Update(p)
    BY <2>3 DEF Update, volatile
  <2>4. CASE AttachToNetwork(p)
    BY <2>4 DEF AttachToNetwork, requestSync, TypeOK
  <2>5. CASE DetachFromNetwork(p)
    BY <2>5 DEF DetachFromNetwork, TypeOK
  <2>6. CASE ForceSync(p)
    BY <2>6 DEF ForceSync, requestSync, TypeOK
  <2>7. QED
    BY <1>2, <2>1, <2>2, <2>3, <2>4, <2>5, <2>6 DEF ClientStep
<1>3. ASSUME NEW p \in Peers, ClearFlagAfterTimeout(p) PROVE FlagHasTimer'
  BY <1>3 DEF ClearFlagAfterTimeout, TypeOK
<1>4. ASSUME NEW p \in Peers, Receive(p) PROVE FlagHasTimer'
  <2>1. ASSUME NEW m \in net, ReceiveOperation(p, m) PROVE FlagHasTimer'
    BY <2>1 DEF ReceiveOperation, TypeOK
  <2>2. ASSUME NEW m \in net, handleSyncRequest(p, m) PROVE FlagHasTimer'
    BY <2>2 DEF handleSyncRequest, AnswerSyncRequest, Stop, TypeOK, volatile
  <2>3. ASSUME NEW m \in net, ReceiveSyncResponse(p, m) PROVE FlagHasTimer'
    BY <2>3 DEF ReceiveSyncResponse, TypeOK, volatile
  <2>4. QED
    BY <1>4, <2>1, <2>2, <2>3 DEF Receive
<1>5. ASSUME NEW h \in handlers, HandlerStep(h) PROVE FlagHasTimer'
  BY <1>5 DEF HandlerStep, ApplyFromResponse, FinishResponse, TypeOK, IsHandler
<1>6. ASSUME NEW m \in net, Lose(m) PROVE FlagHasTimer'
  BY <1>6 DEF Lose, volatile
<1>7. CASE UNCHANGED vars
  BY <1>7 DEF vars, volatile
<1>8. QED
  BY <1>1, <1>2, <1>3, <1>4, <1>5, <1>6, <1>7 DEF Next

(***************************************************************************)
(* A sync that is in progress always has a timer that will end it.         *)
(***************************************************************************)
THEOREM EverySyncHasATimer == Spec => []FlagHasTimer
<1>1. Init => FlagHasTimer
  BY DEF Init, FlagHasTimer
<1>2. QED
  BY <1>1, FlagStep, TypeInvariant, PTL DEF Spec

-----------------------------------------------------------------------------
(***************************************************************************)
(* Clocks only grow while a collection is attached.                        *)
(***************************************************************************)
Growing == \A p \in Peers : attached[p] /\ attached'[p] => localVector[p] \preceq localVector'[p]

LEMMA ClockStep == TypeOK /\ [Next]_vars => Growing
<1> SUFFICES ASSUME TypeOK, [Next]_vars PROVE Growing
  OBVIOUS
<1>1. \A q \in Peers : localVector[q] \in Clock
  BY DEF TypeOK
<1>2. \A q \in Peers : localVector[q] \preceq localVector[q]
  BY <1>1, OrderIsReflexive
<1>3. \A p \in Peers : localVector[p] \preceq Increment(localVector[p], p)
  BY <1>1 DEF Increment, Clock, \preceq
<1>4. ASSUME localVector' = localVector PROVE Growing
  BY <1>2, <1>4 DEF Growing
<1>5. ASSUME NEW p \in Peers, Stop(p) PROVE Growing
  BY <1>2, <1>5 DEF Growing, Stop, TypeOK
<1>6. ASSUME NEW p \in Peers, NEW op, Issue(p, op) PROVE Growing
  BY <1>2, <1>3, <1>6 DEF Growing, Issue, broadcastOperation, TypeOK
<1>7. ASSUME NEW p \in Peers, NEW op \in Operation, handleRemoteOperation(p, op) PROVE Growing
  <2>1. localVector[p] \preceq Merge(localVector[p], op.vector)
    BY <1>1, MergeIsUpperBound DEF Operation
  <2>2. QED
    BY <1>2, <1>7, <2>1 DEF Growing, handleRemoteOperation, TypeOK
<1>8. ASSUME NEW p \in Peers, ProcessStep(p) PROVE Growing
  BY <1>4, <1>5, <1>8 DEF ProcessStep, Start, Restart, Crash, volatile
<1>9. ASSUME NEW p \in Peers, ClientStep(p) PROVE Growing
  <2>1. ASSUME NEW d \in DocIDs, NEW payload \in Docs, Insert(p, d, payload) PROVE Growing
    BY <1>6, <2>1 DEF Insert
  <2>2. ASSUME NEW d \in DocIDs, Delete(p, d) PROVE Growing
    BY <1>6, <2>2 DEF Delete
  <2>3. CASE Update(p) \/ ForceSync(p)
    BY <1>4, <2>3 DEF Update, ForceSync, volatile
  <2>4. CASE AttachToNetwork(p)
    BY <1>2, <2>4 DEF AttachToNetwork, Growing, TypeOK
  <2>5. CASE DetachFromNetwork(p)
    BY <1>2, <2>5 DEF DetachFromNetwork, Growing, TypeOK
  <2>6. QED
    BY <1>9, <2>1, <2>2, <2>3, <2>4, <2>5 DEF ClientStep
<1>10. ASSUME NEW p \in Peers, Receive(p) PROVE Growing
  <2>1. ASSUME NEW m \in net, ReceiveOperation(p, m) PROVE Growing
    BY <1>7, <2>1, MessageParts DEF ReceiveOperation
  <2>2. ASSUME NEW m \in net, handleSyncRequest(p, m) PROVE Growing
    BY <1>4, <1>5, <2>2 DEF handleSyncRequest, AnswerSyncRequest, volatile
  <2>3. ASSUME NEW m \in net, ReceiveSyncResponse(p, m) PROVE Growing
    BY <1>4, <2>3 DEF ReceiveSyncResponse, volatile
  <2>4. QED
    BY <1>10, <2>1, <2>2, <2>3 DEF Receive
<1>11. ASSUME NEW h \in handlers, HandlerStep(h) PROVE Growing
  <2>1. h.at \in Peers /\ \A i \in DOMAIN h.ops : h.ops[i] \in Operation
    BY DEF TypeOK, IsHandler, IsSelection
  <2>2. QED
    BY <1>4, <1>7, <1>11, <2>1 DEF HandlerStep, ApplyFromResponse, FinishResponse
<1>12. QED
  BY <1>4, <1>8, <1>9, <1>10, <1>11
  DEF Next, ClearFlagAfterTimeout, Lose, vars, volatile

(***************************************************************************)
(* No step of the protocol takes an attached collection's clock back.      *)
(***************************************************************************)
THEOREM ClocksGrow == Spec => ClockMonotone
<1>1. TypeOK /\ [Next]_vars =>
        [\A p \in Peers : attached[p] /\ attached'[p] =>
            \A k \in Peers : localVector[p][k] <= localVector'[p][k]]_vars
  BY ClockStep DEF Growing, \preceq
<1>2. QED
  BY <1>1, TypeInvariant, PTL DEF Spec, ClockMonotone

-----------------------------------------------------------------------------
(***************************************************************************)
(* Stamps.  OwnCounterIsMax and LogMatchesClock together are inductive     *)
(* once a collection that is not attached is known to have no clock:       *)
(* attaching must not take back a counter that operations carry already.   *)
(***************************************************************************)
Idle == \A p \in Peers : /\ ~ attached[p] => localVector[p] = NewVectorClock
                         /\ ~ Up(p) => ~ attached[p]

StampInv == TypeOK /\ Idle /\ OwnCounterIsMax /\ LogMatchesClock

\* What the invariant says about a stamp, and about the vector of a request.
Stamped(op, s)   == IF op.peer = s THEN op.vector[s] < localVector[s][s]
                                   ELSE Behind(op.vector, s)
Requested(m, s)  == IF m.from = s THEN m.vector[s] <= localVector[s][s]
                                  ELSE Behind(m.vector, s)

\* op is in a message, with a handler or in a log.
Somewhere(op, nt, hs, logs) ==
    \/ \E m \in nt : m.type = "operation" /\ op = m.op
    \/ \E m \in nt : m.type = "sync_response" /\ \E i \in DOMAIN m.ops : op = m.ops[i]
    \/ \E h \in hs : \E i \in DOMAIN h.ops : op = h.ops[i]
    \/ \E p \in Peers : \E i \in DOMAIN logs[p] : op = logs[p][i]

LEMMA UnionIsSomewhere ==
    ASSUME NEW nt, NEW hs, NEW logs, NEW op
    PROVE  op \in UNION {{m.op : m \in {n \in nt : n.type = "operation"}},
                         UNION {{m.ops[i] : i \in DOMAIN m.ops} :
                                   m \in {n \in nt : n.type = "sync_response"}},
                         UNION {{h.ops[i] : i \in DOMAIN h.ops} : h \in hs},
                         UNION {{logs[p][i] : i \in DOMAIN logs[p]} : p \in Peers}}
             <=> Somewhere(op, nt, hs, logs)
<1> DEFINE A == {m.op : m \in {n \in nt : n.type = "operation"}}
           B == UNION {{m.ops[i] : i \in DOMAIN m.ops} :
                          m \in {n \in nt : n.type = "sync_response"}}
           C == UNION {{h.ops[i] : i \in DOMAIN h.ops} : h \in hs}
           D == UNION {{logs[p][i] : i \in DOMAIN logs[p]} : p \in Peers}
<1>1. op \in A <=> \E m \in nt : m.type = "operation" /\ op = m.op
  OBVIOUS
<1>2. op \in B <=> \E m \in nt : m.type = "sync_response" /\ \E i \in DOMAIN m.ops : op = m.ops[i]
  OBVIOUS
<1>3. op \in C <=> \E h \in hs : \E i \in DOMAIN h.ops : op = h.ops[i]
  OBVIOUS
<1>4. op \in D <=> \E p \in Peers : \E i \in DOMAIN logs[p] : op = logs[p][i]
  OBVIOUS
<1> HIDE DEF A, B, C, D
<1>5. op \in UNION {A, B, C, D} <=> Somewhere(op, nt, hs, logs)
  BY <1>1, <1>2, <1>3, <1>4 DEF Somewhere
<1>6. QED
  BY <1>5 DEF A, B, C, D

LEMMA OperationsAre ==
    ASSUME NEW op
    PROVE  /\ op \in Operations  <=> Somewhere(op, net, handlers, operationLog)
           /\ op \in Operations' <=> Somewhere(op, net', handlers', operationLog')
<1>1. op \in Operations <=> Somewhere(op, net, handlers, operationLog)
  BY UnionIsSomewhere, Zenon DEF Operations
<1>2. op \in Operations' <=> Somewhere(op, net', handlers', operationLog')
  BY UnionIsSomewhere, Zenon DEF Operations
<1>3. QED
  BY <1>1, <1>2

LEMMA OperationsType == TypeOK => Operations \subseteq Operation
<1> SUFFICES ASSUME TypeOK, NEW op \in Operations PROVE op \in Operation
  OBVIOUS
<1>1. \A p \in Peers : \A i \in DOMAIN operationLog[p] : operationLog[p][i] \in Operation
  BY DEF TypeOK
<1>2. \A m \in net : m.type = "sync_response" => \A i \in DOMAIN m.ops : m.ops[i] \in Operation
  BY MessageParts DEF IsSelection
<1>3. \A h \in handlers : \A i \in DOMAIN h.ops : h.ops[i] \in Operation
  BY DEF TypeOK, IsHandler, IsSelection
<1>4. QED
  BY <1>1, <1>2, <1>3, OperationsAre, MessageParts DEF Somewhere

(***************************************************************************)
(* A step keeps OwnCounterIsMax when own counters do not go back and the   *)
(* other clocks, operations and requests it makes are made of known ones.  *)
(***************************************************************************)
LEMMA KnowledgeStep ==
    ASSUME TypeOK, TypeOK', OwnCounterIsMax,
           Steady' \subseteq Steady,
           \A s \in Steady' : localVector[s][s] <= localVector'[s][s],
           \A s \in Steady' : \A q \in Peers \ {s} :
               \/ localVector'[q][s] = 0
               \/ localVector'[q][s] = localVector[q][s]
               \/ \E op \in Operations : localVector'[q][s] = op.vector[s],
           \A op \in Operations' :
               \/ op \in Operations
               \/ /\ op.vector = localVector[op.peer]
                  /\ localVector'[op.peer][op.peer] = localVector[op.peer][op.peer] + 1,
           \A m \in net' : m.type = "sync_request" =>
               m \in net \/ m.vector = NewVectorClock \/ m.vector = localVector[m.from]
    PROVE  OwnCounterIsMax'
<1> SUFFICES ASSUME NEW s \in Steady'
             PROVE  /\ \A q \in Peers \ {s} : Behind(localVector[q], s)'
                    /\ \A op \in Operations' : Stamped(op, s)'
                    /\ \A m \in net' : m.type = "sync_request" => Requested(m, s)'
  BY DEF OwnCounterIsMax, Stamped, Requested
<1> DEFINE own == localVector[s][s]
           new == localVector'[s][s]
<1>1. /\ s \in Steady /\ s \in Peers
      /\ own \in Nat /\ new \in Nat /\ own <= new
      /\ \A q \in Peers : localVector[q] \in Clock
  BY DEF Steady, TypeOK, Clock
<1>2. /\ \A q \in Peers \ {s} : Behind(localVector[q], s)
      /\ \A op \in Operations : Stamped(op, s)
      /\ \A m \in net : m.type = "sync_request" => Requested(m, s)
  BY <1>1 DEF OwnCounterIsMax, Stamped, Requested
<1>3. ASSUME NEW op \in Operations
      PROVE  op.vector[s] \in Nat /\ (op.vector[s] = 0 \/ op.vector[s] < own)
  <2>1. op \in Operation
    BY OperationsType
  <2>2. op.vector[s] \in Nat
    BY <1>1, <2>1 DEF Operation, Clock
  <2>3. QED
    BY <1>1, <1>2, <2>2 DEF Stamped, Behind
<1>4. ASSUME NEW q \in Peers \ {s} PROVE Behind(localVector[q], s)'
  <2>1. localVector'[q][s] = 0 \/ localVector'[q][s] < own
    BY <1>2, <1>3 DEF Behind
  <2>2. localVector'[q][s] \in Nat
    BY <1>1 DEF TypeOK, Clock
  <2>3. QED
    BY <1>1, <2>1, <2>2 DEF Behind
<1>5. ASSUME NEW op \in Operations' PROVE Stamped(op, s)'
  <2>0. (Operations \subseteq Operation)'
    BY OperationsType, PTL
  <2>1. op \in Operation /\ op.peer \in Peers /\ op.vector[s] \in Nat
    BY <1>1, <2>0 DEF Operation, Clock
  <2>2. CASE op \in Operations
    <3>1. IF op.peer = s THEN op.vector[s] < own ELSE op.vector[s] = 0 \/ op.vector[s] < own
      BY <1>2, <2>2 DEF Stamped, Behind
    <3>2. QED
      BY <1>1, <2>1, <3>1 DEF Stamped, Behind
  <2>3. CASE /\ op.vector = localVector[op.peer]
             /\ localVector'[op.peer][op.peer] = localVector[op.peer][op.peer] + 1
    <3>1. CASE op.peer = s
      BY <1>1, <2>3, <3>1 DEF Stamped
    <3>2. CASE op.peer # s
      <4>1. op.vector[s] = 0 \/ op.vector[s] < own
        BY <1>2, <2>1, <2>3, <3>2 DEF Behind
      <4>2. QED
        BY <1>1, <2>1, <3>2, <4>1 DEF Stamped, Behind
    <3>3. QED
      BY <3>1, <3>2
  <2>4. QED
    BY <2>2, <2>3
<1>6. ASSUME NEW m \in net', m.type = "sync_request" PROVE Requested(m, s)'
  <2>1. m.from \in Peers /\ m.vector \in Clock /\ m.vector[s] \in Nat
    BY <1>1, <1>6 DEF TypeOK, IsMessage, Clock
  <2>2. CASE m \in net
    <3>1. IF m.from = s THEN m.vector[s] <= own ELSE m.vector[s] = 0 \/ m.vector[s] < own
      BY <1>2, <1>6, <2>2 DEF Requested, Behind
    <3>2. QED
      BY <1>1, <2>1, <3>1 DEF Requested, Behind
  <2>3. CASE m.vector = NewVectorClock
    <3>1. m.vector[s] = 0
      BY <1>1, <2>3 DEF NewVectorClock
    <3>2. QED
      BY <1>1, <3>1 DEF Requested, Behind
  <2>4. CASE m.vector = localVector[m.from]
    <3>1. IF m.from = s THEN m.vector[s] <= own ELSE m.vector[s] = 0 \/ m.vector[s] < own
      BY <1>1, <1>2, <2>1, <2>4 DEF Behind
    <3>2. QED
      BY <1>1, <2>1, <3>1 DEF Requested, Behind
  <2>5. QED
    BY <1>6, <2>2, <2>3, <2>4
<1>7. QED
  BY <1>4, <1>5, <1>6

LEMMA IdleStep == TypeOK /\ Idle /\ [Next]_vars => Idle'
<1> SUFFICES ASSUME TypeOK, Idle, [Next]_vars PROVE Idle'
  OBVIOUS
<1> USE DEF Idle, Up
<1>1. ASSUME NEW p \in Peers, Stop(p) PROVE Idle'
  BY <1>1 DEF Stop, TypeOK
<1>2. ASSUME NEW p \in Peers, NEW op, CanUseStorage(p), Issue(p, op),
             UNCHANGED <<proc, attached>>
      PROVE  Idle'
  BY <1>2 DEF Issue, broadcastOperation, TypeOK
<1>3. ASSUME NEW p \in Peers, NEW op, handleRemoteOperation(p, op),
             UNCHANGED <<proc, attached>>
      PROVE  Idle'
  BY <1>3 DEF handleRemoteOperation, TypeOK
<1>4. ASSUME UNCHANGED <<proc, attached, localVector>> PROVE Idle'
  BY <1>4
<1>5. ASSUME NEW p \in Peers, ProcessStep(p) PROVE Idle'
  BY <1>1, <1>5 DEF ProcessStep, Start, Restart, Crash, TypeOK, volatile
<1>6. ASSUME NEW p \in Peers, ClientStep(p) PROVE Idle'
  <2>1. ASSUME NEW d \in DocIDs, NEW payload \in Docs, Insert(p, d, payload) PROVE Idle'
    BY <1>2, <2>1 DEF Insert
  <2>2. ASSUME NEW d \in DocIDs, Delete(p, d) PROVE Idle'
    BY <1>2, <2>2 DEF Delete
  <2>3. CASE Update(p) \/ ForceSync(p)
    BY <1>4, <2>3 DEF Update, ForceSync, volatile
  <2>4. CASE AttachToNetwork(p)
    BY <2>4 DEF AttachToNetwork, TypeOK
  <2>5. CASE DetachFromNetwork(p)
    BY <2>5 DEF DetachFromNetwork, TypeOK
  <2>6. QED
    BY <1>6, <2>1, <2>2, <2>3, <2>4, <2>5 DEF ClientStep
<1>7. ASSUME NEW p \in Peers, Receive(p) PROVE Idle'
  <2>1. ASSUME NEW m \in net, ReceiveOperation(p, m) PROVE Idle'
    BY <1>3, <2>1 DEF ReceiveOperation
  <2>2. ASSUME NEW m \in net, handleSyncRequest(p, m) PROVE Idle'
    BY <1>1, <1>4, <2>2 DEF handleSyncRequest, AnswerSyncRequest, volatile
  <2>3. ASSUME NEW m \in net, ReceiveSyncResponse(p, m) PROVE Idle'
    BY <1>4, <2>3 DEF ReceiveSyncResponse, volatile
  <2>4. QED
    BY <1>7, <2>1, <2>2, <2>3 DEF Receive
<1>8. ASSUME NEW h \in handlers, HandlerStep(h) PROVE Idle'
  <2>1. h.at \in Peers
    BY DEF TypeOK, IsHandler
  <2>2. QED
    BY <1>3, <1>4, <1>8, <2>1 DEF HandlerStep, ApplyFromResponse, FinishResponse
<1>9. QED
  BY <1>4, <1>5, <1>6, <1>7, <1>8
  DEF Next, ClearFlagAfterTimeout, Lose, vars, volatile

-----------------------------------------------------------------------------
(***************************************************************************)
(* OwnCounterIsMax, one kind of step at a time.                            *)
(***************************************************************************)
\* Steps that make no clock and no operation.
LEMMA QuietKnowledge ==
    ASSUME StampInv, TypeOK',
           Steady' \subseteq Steady,
           \A q \in Peers : \/ localVector'[q] = localVector[q]
                            \/ localVector'[q] = NewVectorClock /\ q \notin Steady',
           Operations' \subseteq Operations,
           \A m \in net' : m.type = "sync_request" =>
               m \in net \/ m.vector = NewVectorClock \/ m.vector = localVector[m.from]
    PROVE  OwnCounterIsMax'
<1>1. \A s \in Steady' : localVector[s][s] \in Nat /\ localVector'[s][s] = localVector[s][s]
  BY DEF StampInv, TypeOK, Clock, Steady
<1>2. \A s \in Steady' : localVector[s][s] <= localVector'[s][s]
  BY <1>1
<1>3. \A s \in Steady' : \A q \in Peers \ {s} :
        localVector'[q][s] = 0 \/ localVector'[q][s] = localVector[q][s]
  BY DEF NewVectorClock, Steady
<1>4. QED
  BY <1>2, <1>3, KnowledgeStep DEF StampInv

LEMMA StopAddsNothing ==
    ASSUME TypeOK, NEW p \in Peers, Stop(p)
    PROVE  Operations' \subseteq Operations
<1>1. \A q \in Peers : operationLog'[q] = IF q = p THEN <<>> ELSE operationLog[q]
  BY DEF Stop, TypeOK
<1>2. \A q \in Peers : \A i \in DOMAIN operationLog'[q] :
        i \in DOMAIN operationLog[q] /\ operationLog'[q][i] = operationLog[q][i]
  BY <1>1
<1>3. net' \subseteq net /\ handlers' \subseteq handlers
  BY DEF Stop
<1>4. QED
  BY <1>2, <1>3, OperationsAre DEF Somewhere

LEMMA StopKnowledge ==
    ASSUME StampInv, TypeOK', NEW p \in Peers, Stop(p)
    PROVE  OwnCounterIsMax'
<1>1. Steady' \subseteq Steady /\ p \notin Steady'
  BY DEF Stop, Steady, StampInv, TypeOK
<1>2. \A q \in Peers : localVector'[q] = IF q = p THEN NewVectorClock ELSE localVector[q]
  BY DEF Stop, StampInv, TypeOK
<1>3. Operations' \subseteq Operations
  BY StopAddsNothing DEF StampInv
<1>4. net' \subseteq net
  BY DEF Stop
<1>5. QED
  BY <1>1, <1>2, <1>3, <1>4, QuietKnowledge

\* What a local write adds to the operations there are.
LEMMA IssueAddsOne ==
    ASSUME TypeOK, NEW p \in Peers, NEW op \in Operation, Issue(p, op), UNCHANGED handlers
    PROVE  \A o \in Operations' : o \in Operations \/ o = op
<1>1. CASE ~ attached[p]
  BY <1>1 DEF Issue, Operations
<1>2. CASE attached[p]
  <2>1. broadcastOperation(p, op)
    BY <1>2 DEF Issue
  <2>2. /\ operationLog[p] \in Seq(Operation) /\ Len(operationLog[p]) <= MaxLogSize
        /\ operationLog'[p] = pruneOperationLog(Append(operationLog[p], op))
        /\ \A q \in Peers \ {p} : operationLog'[q] = operationLog[q]
    BY <2>1 DEF broadcastOperation, TypeOK
  <2>3. \A i \in DOMAIN operationLog'[p] :
           \/ operationLog'[p][i] = op
           \/ \E j \in DOMAIN operationLog[p] : operationLog'[p][i] = operationLog[p][j]
    BY <2>2, PrunedEntries
  <2>4. \A m \in net' : m \in net \/ (m.type = "operation" /\ m.op = op)
    BY <2>1 DEF broadcastOperation
  <2>5. QED
    BY <2>2, <2>3, <2>4, OperationsAre DEF Somewhere
<1>3. QED
  BY <1>1, <1>2

LEMMA IssueKnowledge ==
    ASSUME StampInv, TypeOK', NEW p \in Peers, NEW op \in Operation, Issue(p, op),
           op.peer = p, op.vector = localVector[p], UNCHANGED <<proc, handlers>>
    PROVE  OwnCounterIsMax'
<1>1. Steady' = Steady
  BY DEF Steady
<1>2. CASE ~ attached[p]
  <2>1. UNCHANGED <<localVector, operationLog, net>>
    BY <1>2 DEF Issue
  <2>2. Operations' = Operations
    BY <2>1 DEF Operations
  <2>3. QED
    BY <1>1, <2>1, <2>2, QuietKnowledge
<1>3. CASE attached[p]
  <2>1. broadcastOperation(p, op)
    BY <1>3 DEF Issue
  <2>2. \A q \in Peers : localVector'[q] = IF q = p THEN Increment(localVector[p], p)
                                           ELSE localVector[q]
    BY <2>1 DEF broadcastOperation, StampInv, TypeOK
  <2>3. localVector[p] \in Clock /\ localVector[p][p] \in Nat
    BY DEF StampInv, TypeOK, Clock
  <2>4. \A k \in Peers : Increment(localVector[p], p)[k] =
                           IF k = p THEN localVector[p][p] + 1 ELSE localVector[p][k]
    BY <2>3 DEF Increment, Clock
  <2>5. localVector'[p][p] = localVector[p][p] + 1
    BY <2>2, <2>4
  <2>6. ASSUME NEW s \in Steady' PROVE localVector[s][s] <= localVector'[s][s]
    <3>1. s \in Peers /\ localVector[s][s] \in Nat
      BY DEF StampInv, TypeOK, Clock, Steady
    <3>2. localVector'[s][s] = IF s = p THEN localVector[p][p] + 1 ELSE localVector[s][s]
      BY <2>2, <2>5, <3>1
    <3>3. QED
      BY <3>1, <3>2
  <2>7. \A s \in Steady' : \A q \in Peers \ {s} : localVector'[q][s] = localVector[q][s]
    BY <2>2, <2>4 DEF Steady
  <2>8. ASSUME NEW o \in Operations' PROVE o \in Operations \/ o = op
    BY IssueAddsOne DEF StampInv
  <2>9. \A m \in net' : m.type = "sync_request" => m \in net
    BY <2>1 DEF broadcastOperation
  <2>10. QED
    BY <1>1, <2>5, <2>6, <2>7, <2>8, <2>9, KnowledgeStep DEF StampInv
<1>4. QED
  BY <1>2, <1>3

LEMMA RemoteKnowledge ==
    ASSUME StampInv, TypeOK', NEW p \in Peers, NEW op \in Operations, Up(p),
           handleRemoteOperation(p, op), Operations' \subseteq Operations,
           net' \subseteq net, UNCHANGED proc
    PROVE  /\ OwnCounterIsMax'
           /\ \A s \in Steady : localVector'[s][s] = localVector[s][s]
<1>1. op \in Operation /\ op.vector \in Clock
  BY OperationsType DEF StampInv, Operation
<1>2. Steady' = Steady
  BY DEF Steady
<1>3. \A q \in Peers : localVector[q] \in Clock
  BY DEF StampInv, TypeOK
<1>4. ASSUME NEW q \in Peers, NEW s \in Peers
      PROVE  localVector'[q][s] = localVector[q][s] \/
                 (q = p /\ localVector'[q][s] = op.vector[s] /\ localVector[q][s] < op.vector[s])
  BY <1>1, <1>3 DEF handleRemoteOperation, StampInv, TypeOK, Merge, Clock
<1>5. ASSUME NEW s \in Steady PROVE localVector'[s][s] = localVector[s][s]
  <2>1. s \in Peers /\ localVector[s][s] \in Nat /\ op.vector[s] \in Nat
    BY <1>1, <1>3 DEF Steady, Clock
  <2>2. op.vector[s] <= localVector[s][s]
    BY <2>1 DEF StampInv, OwnCounterIsMax, Behind
  <2>3. QED
    BY <1>4, <2>1, <2>2
<1>6. \A s \in Steady' : localVector[s][s] <= localVector'[s][s]
  BY <1>2, <1>3, <1>5 DEF Steady, Clock
<1>7. \A s \in Steady' : \A q \in Peers \ {s} :
          localVector'[q][s] = localVector[q][s] \/ localVector'[q][s] = op.vector[s]
  BY <1>4 DEF Steady
<1>8. OwnCounterIsMax'
  BY <1>2, <1>6, <1>7, KnowledgeStep DEF StampInv
<1>9. QED
  BY <1>5, <1>8

\* Operations that are received, answered or handed on are known ones.
LEMMA LogStays ==
    ASSUME UNCHANGED operationLog,
           \A m \in net' : m \in net \/ m.type = "sync_request",
           handlers' \subseteq handlers
    PROVE  Operations' \subseteq Operations
BY OperationsAre DEF Somewhere

\* Answering, handing over and applying a sync response only moves operations.
LEMMA SyncAddsNothing ==
    /\ \A p \in Peers, m \in net : AnswerSyncRequest(p, m) => Operations' \subseteq Operations
    /\ \A p \in Peers, m \in net : ReceiveSyncResponse(p, m) => Operations' \subseteq Operations
    /\ \A h \in handlers : \A i \in DOMAIN h.ops :
          ApplyFromResponse(h, i) => Operations' \subseteq Operations
<1>1. ASSUME NEW p \in Peers, NEW m \in net, AnswerSyncRequest(p, m)
      PROVE  Operations' \subseteq Operations
  <2>1. \A n \in net' : \/ n \in net
                        \/ /\ n.type = "sync_response"
                           /\ n.ops = Missing(operationLog[p], m.vector)
    BY <1>1 DEF AnswerSyncRequest
  <2>2. \A i \in DOMAIN Missing(operationLog[p], m.vector) :
           /\ i \in DOMAIN operationLog[p]
           /\ Missing(operationLog[p], m.vector)[i] = operationLog[p][i]
    BY DEF Missing
  <2>3. UNCHANGED <<operationLog, handlers>>
    BY <1>1 DEF AnswerSyncRequest, volatile
  <2>4. QED
    BY <2>1, <2>2, <2>3, OperationsAre DEF Somewhere
<1>2. ASSUME NEW p \in Peers, NEW m \in net, ReceiveSyncResponse(p, m)
      PROVE  Operations' \subseteq Operations
  <2>1. /\ UNCHANGED operationLog /\ net' \subseteq net /\ m.type = "sync_response"
        /\ \A h \in handlers' : h \in handlers \/ h.ops = m.ops
    BY <1>2 DEF ReceiveSyncResponse, volatile
  <2>2. QED
    BY <2>1, OperationsAre DEF Somewhere
<1>3. ASSUME NEW h \in handlers, NEW i \in DOMAIN h.ops, ApplyFromResponse(h, i)
      PROVE  Operations' \subseteq Operations
  <2>1. /\ UNCHANGED <<operationLog, net>>
        /\ \A g \in handlers' : g \in handlers \/
              g.ops = [j \in DOMAIN h.ops \ {i} |-> h.ops[j]]
    BY <1>3 DEF ApplyFromResponse
  <2>2. \A g \in handlers' : g \in handlers \/
          \A j \in DOMAIN g.ops : j \in DOMAIN h.ops /\ g.ops[j] = h.ops[j]
    BY <2>1
  <2>3. QED
    BY <2>1, <2>2, OperationsAre DEF Somewhere
<1>4. QED
  BY <1>1, <1>2, <1>3

LEMMA KnowledgeInvariant == StampInv /\ TypeOK' /\ [Next]_vars => OwnCounterIsMax'
<1> SUFFICES ASSUME StampInv, TypeOK', [Next]_vars PROVE OwnCounterIsMax'
  OBVIOUS
<1>1. ASSUME UNCHANGED <<localVector, operationLog>>, handlers' \subseteq handlers,
             net' \subseteq net, Steady' \subseteq Steady
      PROVE  OwnCounterIsMax'
  BY <1>1, LogStays, QuietKnowledge
<1>2. ASSUME NEW p \in Peers, ProcessStep(p) PROVE OwnCounterIsMax'
  <2>1. CASE Start(p)
    BY <1>1, <2>1 DEF Start, Steady, volatile, StampInv, TypeOK
  <2>2. ASSUME NEW dead \in Peers, Restart(dead, p) PROVE OwnCounterIsMax'
    BY <1>1, <2>2 DEF Restart, Steady, volatile, StampInv, TypeOK
  <2>3. CASE Crash(p)
    BY <2>3, StopKnowledge DEF Crash
  <2>4. QED
    BY <1>2, <2>1, <2>2, <2>3 DEF ProcessStep
<1>3. ASSUME NEW p \in Peers, ClientStep(p) PROVE OwnCounterIsMax'
  <2>1. ASSUME NEW d \in DocIDs, NEW payload \in Docs, Insert(p, d, payload)
        PROVE  OwnCounterIsMax'
    <3>1. NewOperation(p, "insert", d, ToDistributed(payload, p, Now)) \in Operation
      BY NewOperationType, ReplicationAssumption DEF StampInv
    <3>2. QED
      BY <2>1, <3>1, IssueKnowledge DEF Insert, NewOperation
  <2>2. ASSUME NEW d \in DocIDs, Delete(p, d) PROVE OwnCounterIsMax'
    <3>1. NewOperation(p, "delete", d, NoDocument) \in Operation
      BY NewOperationType DEF StampInv
    <3>2. QED
      BY <2>2, <3>1, IssueKnowledge DEF Delete, NewOperation
  <2>3. CASE Update(p)
    BY <1>1, <2>3 DEF Update, Steady, volatile
  <2>4. CASE AttachToNetwork(p)
    <3>1. localVector' = localVector
      BY <2>4 DEF AttachToNetwork, StampInv, Idle, TypeOK
    <3>2. \A m \in net' : m \in net \/ (m.type = "sync_request" /\ m.vector = NewVectorClock)
      BY <2>4 DEF AttachToNetwork, requestSync
    <3>3. Steady' = Steady /\ Operations' \subseteq Operations
      BY <2>4, <3>2, LogStays DEF AttachToNetwork, Steady
    <3>4. QED
      BY <3>1, <3>2, <3>3, QuietKnowledge
  <2>5. CASE DetachFromNetwork(p)
    <3>1. Steady' = Steady /\ p \notin Steady' /\ Operations' \subseteq Operations
      BY <2>5, LogStays DEF DetachFromNetwork, Steady
    <3>2. \A q \in Peers : localVector'[q] = IF q = p THEN NewVectorClock ELSE localVector[q]
      BY <2>5 DEF DetachFromNetwork, StampInv, TypeOK
    <3>3. QED
      BY <2>5, <3>1, <3>2, QuietKnowledge DEF DetachFromNetwork
  <2>6. CASE ForceSync(p)
    <3>1. \A m \in net' : m \in net \/
            (m.type = "sync_request" /\ m.from = p /\ m.vector = localVector[p])
      <4>1. \A m \in net' : m \in net \/ \E q \in Connected(p) :
              m = [type |-> "sync_request", to |-> q, from |-> p, vector |-> localVector[p]]
        <5>1. requestSync(p, localVector[p])
          BY <2>6 DEF ForceSync
        <5>2. QED
          BY <5>1 DEF requestSync
      <4>2. QED
        BY <4>1
    <3>2. /\ Steady' = Steady /\ Operations' \subseteq Operations
          /\ localVector' = localVector
      BY <2>6, <3>1, LogStays DEF ForceSync, Steady
    <3>3. QED
      BY <3>1, <3>2, QuietKnowledge
  <2>7. QED
    BY <1>3, <2>1, <2>2, <2>3, <2>4, <2>5, <2>6 DEF ClientStep
<1>4. ASSUME NEW p \in Peers, Receive(p) PROVE OwnCounterIsMax'
  <2>1. ASSUME NEW m \in net, ReceiveOperation(p, m) PROVE OwnCounterIsMax'
    <3>1. m.op \in Operations
      BY <2>1, OperationsAre DEF ReceiveOperation, Somewhere
    <3>2. net' \subseteq net /\ Operations' \subseteq Operations /\ Up(p)
      BY <2>1, LogStays DEF ReceiveOperation, CanUseStorage
    <3>3. QED
      BY <2>1, <3>1, <3>2, RemoteKnowledge DEF ReceiveOperation
  <2>2. ASSUME NEW m \in net, AnswerSyncRequest(p, m) PROVE OwnCounterIsMax'
    <3>1. \A n \in net' : n \in net \/ n.type = "sync_response"
      BY <2>2 DEF AnswerSyncRequest
    <3>2. UNCHANGED <<proc, localVector>> /\ Operations' \subseteq Operations
      BY <2>2, SyncAddsNothing DEF AnswerSyncRequest, volatile
    <3>3. QED
      BY <3>1, <3>2, QuietKnowledge DEF Steady
  <2>3. ASSUME NEW m \in net, handleSyncRequest(p, m) PROVE OwnCounterIsMax'
    BY <2>2, <2>3, StopKnowledge DEF handleSyncRequest
  <2>4. ASSUME NEW m \in net, ReceiveSyncResponse(p, m) PROVE OwnCounterIsMax'
    <3>1. UNCHANGED <<proc, localVector>> /\ net' \subseteq net /\ Operations' \subseteq Operations
      BY <2>4, SyncAddsNothing DEF ReceiveSyncResponse, volatile
    <3>2. QED
      BY <3>1, QuietKnowledge DEF Steady
  <2>5. QED
    BY <1>4, <2>1, <2>3, <2>4 DEF Receive
<1>5. ASSUME NEW h \in handlers, HandlerStep(h) PROVE OwnCounterIsMax'
  <2>1. ASSUME NEW i \in DOMAIN h.ops, ApplyFromResponse(h, i) PROVE OwnCounterIsMax'
    <3>1. h.at \in Peers /\ h.ops[i] \in Operations
      BY OperationsAre DEF Somewhere, StampInv, TypeOK, IsHandler
    <3>2. UNCHANGED <<proc, operationLog, net>> /\ Up(h.at) /\ Operations' \subseteq Operations
      BY <2>1, SyncAddsNothing DEF ApplyFromResponse, CanUseStorage
    <3>3. QED
      BY <2>1, <3>1, <3>2, RemoteKnowledge DEF ApplyFromResponse
  <2>2. CASE FinishResponse(h)
    BY <1>1, <2>2 DEF FinishResponse, Steady
  <2>3. QED
    BY <1>5, <2>1, <2>2 DEF HandlerStep
<1>6. ASSUME NEW m \in net, Lose(m) PROVE OwnCounterIsMax'
  BY <1>1, <1>6 DEF Lose, Steady, volatile
<1>7. ASSUME NEW p \in Peers, ClearFlagAfterTimeout(p) PROVE OwnCounterIsMax'
  BY <1>1, <1>7 DEF ClearFlagAfterTimeout, Steady
<1>8. CASE UNCHANGED vars
  BY <1>1, <1>8 DEF vars, volatile, Steady
<1>9. QED
  BY <1>2, <1>3, <1>4, <1>5, <1>6, <1>7, <1>8 DEF Next

-----------------------------------------------------------------------------
(***************************************************************************)
(* LogMatchesClock.                                                        *)
(***************************************************************************)
LogMatches(p) ==
    LET own == localVector[p][p]
        log == operationLog[p]
    IN  /\ Len(log) = IF own < MaxLogSize THEN own ELSE MaxLogSize
        /\ \A i \in DOMAIN log : log[i].peer = p /\ log[i].vector[p] + 1 + Len(log) = own + i

LEMMA EmptyLogMatches ==
    ASSUME NEW p \in Peers, operationLog'[p] = <<>>, localVector'[p] = NewVectorClock
    PROVE  LogMatches(p)'
BY ReplicationAssumption DEF LogMatches, NewVectorClock

LEMMA IssueLog ==
    ASSUME StampInv, NEW p \in Peers \ Detachers, NEW op \in Operation,
           broadcastOperation(p, op), op.peer = p, op.vector = localVector[p]
    PROVE  LogMatches(p)'
<1> DEFINE own  == localVector[p][p]
           log  == operationLog[p]
           new  == operationLog'[p]
           skip == IF Len(log) < MaxLogSize THEN 0 ELSE 1
<1>1. /\ log \in Seq(Operation) /\ Len(log) <= MaxLogSize /\ localVector[p] \in Clock
      /\ own \in Nat /\ MaxLogSize \in Nat \ {0}
  BY ReplicationAssumption DEF StampInv, TypeOK, Clock
<1>2. /\ Len(log) = IF own < MaxLogSize THEN own ELSE MaxLogSize
      /\ \A i \in DOMAIN log : log[i].peer = p /\ log[i].vector[p] + 1 + Len(log) = own + i
  BY DEF StampInv, LogMatchesClock
<1>3. localVector'[p][p] = own + 1
  BY <1>1 DEF broadcastOperation, Increment, Clock, StampInv, TypeOK
<1>4. new = pruneOperationLog(Append(log, op))
  BY DEF broadcastOperation, StampInv, TypeOK
<1>5. /\ new \in Seq(Operation) /\ Len(new) = Len(log) + 1 - skip
      /\ \A i \in 1 .. Len(new) : new[i] = Append(log, op)[i + skip]
  <2>1. LET pruned == pruneOperationLog(Append(log, op))
        IN  /\ pruned \in Seq(Operation) /\ Len(pruned) = Len(log) + 1 - skip
            /\ \A i \in 1 .. Len(pruned) : pruned[i] = Append(log, op)[i + skip]
    BY <1>1, PruneType
  <2> HIDE DEF new, log, skip
  <2>2. QED
    BY <1>4, <2>1
<1>6. Len(new) = IF own + 1 < MaxLogSize THEN own + 1 ELSE MaxLogSize
  BY <1>1, <1>2, <1>5
<1>7. skip \in {0, 1} /\ Len(log) \in Nat /\ DOMAIN log = 1 .. Len(log)
  BY <1>1
<1> HIDE DEF own, log, new, skip
<1>8. ASSUME NEW i \in 1 .. Len(new)
      PROVE  new[i].peer = p /\ new[i].vector[p] + 1 + Len(new) = own + 1 + i
  <2>1. i + skip \in 1 .. Len(log) + 1 /\ new[i] = Append(log, op)[i + skip]
    BY <1>5, <1>7
  <2>2. CASE i + skip = Len(log) + 1
    <3>1. new[i] = op
      BY <1>1, <2>1, <2>2
    <3>2. i = Len(new)
      BY <1>5, <1>7, <2>2
    <3>3. op.vector[p] = own
      BY DEF own
    <3>4. QED
      BY <1>1, <1>5, <1>7, <3>1, <3>2, <3>3
  <2>3. CASE i + skip # Len(log) + 1
    <3>1. i + skip \in DOMAIN log /\ new[i] = log[i + skip]
      BY <1>1, <1>7, <2>1, <2>3
    <3>2. log[i + skip].peer = p /\ log[i + skip].vector[p] + 1 + Len(log) = own + (i + skip)
      BY <1>2, <3>1
    <3>3. log[i + skip].vector[p] \in Nat
      BY <1>1, <3>1 DEF Operation, Clock
    <3>4. new[i].peer = p /\ new[i].vector[p] = log[i + skip].vector[p]
      BY <3>1, <3>2
    <3> DEFINE stamp == log[i + skip].vector[p]
    <3>5. stamp \in Nat /\ stamp + 1 + Len(log) = own + (i + skip)
      BY <3>2, <3>3
    <3> HIDE DEF stamp
    <3>6. stamp + 1 + Len(new) = own + 1 + i
      <4>1. Len(new) = Len(log) + 1 - skip /\ own \in Nat
        BY <1>1, <1>5
      <4>2. Len(log) \in Nat /\ skip \in Int /\ i \in Int
        BY <1>7
      <4>3. QED
        BY <3>5, <4>1, <4>2
    <3>7. QED
      BY <3>4, <3>6 DEF stamp
  <2>4. QED
    BY <2>2, <2>3
<1>9. DOMAIN new = 1 .. Len(new)
  BY <1>5
<1>10. QED
  BY <1>3, <1>6, <1>8, <1>9 DEF LogMatches, own, new

\* A process whose log and counter stay as they are.
LEMMA SameLog ==
    ASSUME StampInv, NEW p \in Peers \ Detachers,
           operationLog'[p] = operationLog[p], localVector'[p][p] = localVector[p][p]
    PROVE  LogMatches(p)'
BY DEF StampInv, LogMatchesClock, LogMatches

LEMMA IssueKeepsLogs ==
    ASSUME StampInv, NEW p \in Peers, NEW op \in Operation, Issue(p, op),
           op.peer = p, op.vector = localVector[p]
    PROVE  LogMatchesClock'
<1> SUFFICES ASSUME NEW s \in Peers \ Detachers PROVE LogMatches(s)'
  BY DEF LogMatchesClock, LogMatches
<1>1. CASE ~ attached[p]
  BY <1>1, SameLog DEF Issue
<1>2. CASE attached[p] /\ s = p
  BY <1>2, IssueLog DEF Issue
<1>3. CASE attached[p] /\ s # p
  <2>1. operationLog'[s] = operationLog[s] /\ localVector'[s] = localVector[s]
    BY <1>3 DEF Issue, broadcastOperation, StampInv, TypeOK
  <2>2. QED
    BY <2>1, SameLog
<1>4. QED
  BY <1>1, <1>2, <1>3

LEMMA RemoteKeepsLogs ==
    ASSUME StampInv, TypeOK', NEW p \in Peers, NEW op \in Operations, Up(p),
           handleRemoteOperation(p, op), Operations' \subseteq Operations,
           net' \subseteq net, UNCHANGED <<proc, operationLog>>
    PROVE  LogMatchesClock'
<1> SUFFICES ASSUME NEW s \in Peers \ Detachers PROVE LogMatches(s)'
  BY DEF LogMatchesClock, LogMatches
<1>1. localVector'[s][s] = localVector[s][s]
  <2>1. CASE s \in Steady
    BY <2>1, RemoteKnowledge
  <2>2. CASE s \notin Steady
    <3>1. s # p
      BY <2>2 DEF Steady, Up
    <3>2. QED
      BY <3>1 DEF handleRemoteOperation, StampInv, TypeOK
  <2>3. QED
    BY <2>1, <2>2
<1>2. QED
  BY <1>1, SameLog

LEMMA StopKeepsLogs ==
    ASSUME StampInv, NEW p \in Peers, Stop(p)
    PROVE  LogMatchesClock'
<1> SUFFICES ASSUME NEW s \in Peers \ Detachers PROVE LogMatches(s)'
  BY DEF LogMatchesClock, LogMatches
<1>1. CASE s = p
  <2>1. operationLog'[s] = <<>> /\ localVector'[s] = NewVectorClock
    BY <1>1 DEF Stop, StampInv, TypeOK
  <2>2. QED
    BY <2>1, EmptyLogMatches
<1>2. CASE s # p
  <2>1. operationLog'[s] = operationLog[s] /\ localVector'[s] = localVector[s]
    BY <1>2 DEF Stop, StampInv, TypeOK
  <2>2. QED
    BY <2>1, SameLog
<1>3. QED
  BY <1>1, <1>2

LEMMA LogInvariant == StampInv /\ TypeOK' /\ [Next]_vars => LogMatchesClock'
<1> SUFFICES ASSUME StampInv, TypeOK', [Next]_vars PROVE LogMatchesClock'
  OBVIOUS
<1>1. ASSUME UNCHANGED operationLog,
             \A s \in Peers \ Detachers : localVector'[s] = localVector[s]
      PROVE  LogMatchesClock'
  BY <1>1, SameLog DEF LogMatchesClock, LogMatches
<1>2. ASSUME NEW p \in Peers, ProcessStep(p) PROVE LogMatchesClock'
  BY <1>1, <1>2, StopKeepsLogs DEF ProcessStep, Start, Restart, Crash, volatile
<1>3. ASSUME NEW p \in Peers, ClientStep(p) PROVE LogMatchesClock'
  <2>1. ASSUME NEW d \in DocIDs, NEW payload \in Docs, Insert(p, d, payload)
        PROVE  LogMatchesClock'
    <3>1. NewOperation(p, "insert", d, ToDistributed(payload, p, Now)) \in Operation
      BY NewOperationType, ReplicationAssumption DEF StampInv
    <3>2. QED
      BY <2>1, <3>1, IssueKeepsLogs DEF Insert, NewOperation
  <2>2. ASSUME NEW d \in DocIDs, Delete(p, d) PROVE LogMatchesClock'
    <3>1. NewOperation(p, "delete", d, NoDocument) \in Operation
      BY NewOperationType DEF StampInv
    <3>2. QED
      BY <2>2, <3>1, IssueKeepsLogs DEF Delete, NewOperation
  <2>3. CASE Update(p) \/ ForceSync(p)
    BY <1>1, <2>3 DEF Update, ForceSync, volatile
  <2>4. CASE AttachToNetwork(p)
    BY <1>1, <2>4 DEF AttachToNetwork, StampInv, Idle, TypeOK
  <2>5. CASE DetachFromNetwork(p)
    BY <1>1, <2>5 DEF DetachFromNetwork, StampInv, TypeOK
  <2>6. QED
    BY <1>3, <2>1, <2>2, <2>3, <2>4, <2>5 DEF ClientStep
<1>4. ASSUME NEW p \in Peers, Receive(p) PROVE LogMatchesClock'
  <2>1. ASSUME NEW m \in net, ReceiveOperation(p, m) PROVE LogMatchesClock'
    <3>1. m.op \in Operations
      BY <2>1, OperationsAre DEF ReceiveOperation, Somewhere
    <3>2. net' \subseteq net /\ Operations' \subseteq Operations /\ Up(p)
      BY <2>1, LogStays DEF ReceiveOperation, CanUseStorage
    <3>3. QED
      BY <2>1, <3>1, <3>2, RemoteKeepsLogs DEF ReceiveOperation
  <2>2. ASSUME NEW m \in net, handleSyncRequest(p, m) PROVE LogMatchesClock'
    BY <1>1, <2>2, StopKeepsLogs DEF handleSyncRequest, AnswerSyncRequest, volatile
  <2>3. ASSUME NEW m \in net, ReceiveSyncResponse(p, m) PROVE LogMatchesClock'
    BY <1>1, <2>3 DEF ReceiveSyncResponse, volatile
  <2>4. QED
    BY <1>4, <2>1, <2>2, <2>3 DEF Receive
<1>5. ASSUME NEW h \in handlers, HandlerStep(h) PROVE LogMatchesClock'
  <2>1. ASSUME NEW i \in DOMAIN h.ops, ApplyFromResponse(h, i) PROVE LogMatchesClock'
    <3>1. h.at \in Peers /\ h.ops[i] \in Operations /\ Up(h.at)
      BY <2>1, OperationsAre
      DEF Somewhere, StampInv, TypeOK, IsHandler, ApplyFromResponse, CanUseStorage
    <3>2. Operations' \subseteq Operations /\ UNCHANGED <<proc, operationLog, net>>
      BY <2>1, SyncAddsNothing DEF ApplyFromResponse
    <3>3. QED
      BY <2>1, <3>1, <3>2, RemoteKeepsLogs DEF ApplyFromResponse
  <2>2. CASE FinishResponse(h)
    BY <1>1, <2>2 DEF FinishResponse
  <2>3. QED
    BY <1>5, <2>1, <2>2 DEF HandlerStep
<1>6. QED
  BY <1>1, <1>2, <1>3, <1>4, <1>5
  DEF Next, ClearFlagAfterTimeout, Lose, vars, volatile

LEMMA StampInit == Init => StampInv
<1> SUFFICES ASSUME Init PROVE StampInv
  OBVIOUS
<1>1. TypeOK
  BY TypeInit
<1>2. Idle
  BY DEF Init, Idle, Up
<1>3. Operations = {}
  <2>1. \A op : ~ Somewhere(op, net, handlers, operationLog)
    BY DEF Init, Somewhere
  <2>2. QED
    BY <2>1, OperationsAre
<1>4. OwnCounterIsMax
  <2>1. \A q, s \in Peers : localVector[q][s] = 0
    BY DEF Init, NewVectorClock
  <2>2. net = {}
    BY DEF Init
  <2>3. QED
    BY <1>3, <2>1, <2>2 DEF OwnCounterIsMax, Steady, Behind
<1>5. LogMatchesClock
  <2>1. \A p \in Peers : /\ Len(operationLog[p]) = 0 /\ DOMAIN operationLog[p] = {}
                         /\ localVector[p][p] = 0
    <3>1. \A p \in Peers : operationLog[p] = <<>> /\ localVector[p][p] = 0
      BY DEF Init, NewVectorClock
    <3>2. Len(<<>>) = 0 /\ DOMAIN <<>> = {}
      OBVIOUS
    <3>3. QED
      BY <3>1, <3>2
  <2>2. 0 < MaxLogSize
    BY ReplicationAssumption
  <2>3. QED
    BY <2>1, <2>2 DEF LogMatchesClock
<1>6. QED
  BY <1>1, <1>2, <1>4, <1>5 DEF StampInv

LEMMA StampInvariant == Spec => []StampInv
<1>1. StampInv /\ [Next]_vars => StampInv'
  BY TypeStep, IdleStep, KnowledgeInvariant, LogInvariant DEF StampInv
<1>2. QED
  BY <1>1, StampInit, PTL DEF Spec

(***************************************************************************)
(* No clock, operation or request ever knows more of a peer's operations   *)
(* than that peer, as long as it has not detached.                         *)
(***************************************************************************)
THEOREM NobodyKnowsBetter == Spec => []OwnCounterIsMax
BY StampInvariant, PTL DEF StampInv

(***************************************************************************)
(* The log of a peer that has not detached is exactly its last operations, *)
(* stamped without a gap up to its counter.                                *)
(***************************************************************************)
THEOREM LogsFollowClocks == Spec => []LogMatchesClock
BY StampInvariant, PTL DEF StampInv

-----------------------------------------------------------------------------
(***************************************************************************)
(* Responses.  What ResponseHasNoGaps says is not inductive: the first     *)
(* operation of a response may be the only one of a peer that detaches.    *)
(***************************************************************************)
LogsAreOwn == \A p \in Peers : \A i \in DOMAIN operationLog[p] : operationLog[p][i].peer = p

Gapless(ops) == \A i, k \in DOMAIN ops :
                    ops[i].peer \notin Detachers => \A j \in i .. k : j \in DOMAIN ops

GapInv ==
    /\ LogsAreOwn
    /\ \A m \in net : m.type = "sync_response" => Gapless(m.ops)
    /\ \A h \in handlers : Gapless(h.ops)

LEMMA IssueKeepsLogsOwn ==
    ASSUME TypeOK, LogsAreOwn, NEW p \in Peers, NEW op \in Operation, Issue(p, op), op.peer = p
    PROVE  LogsAreOwn'
<1> SUFFICES ASSUME NEW s \in Peers, NEW i \in DOMAIN operationLog'[s]
             PROVE  operationLog'[s][i].peer = s
  BY DEF LogsAreOwn
<1>1. CASE operationLog'[s] = operationLog[s]
  BY <1>1 DEF LogsAreOwn
<1>2. CASE operationLog'[s] # operationLog[s]
  <2>1. attached[p] /\ s = p /\ operationLog'[s] = pruneOperationLog(Append(operationLog[s], op))
    BY <1>2 DEF Issue, broadcastOperation, TypeOK
  <2>2. operationLog[s] \in Seq(Operation) /\ Len(operationLog[s]) <= MaxLogSize
    BY DEF TypeOK
  <2>3. \/ operationLog'[s][i] = op
        \/ \E j \in DOMAIN operationLog[s] : operationLog'[s][i] = operationLog[s][j]
    BY <2>1, <2>2, PrunedEntries
  <2>4. QED
    BY <2>1, <2>3 DEF LogsAreOwn
<1>3. QED
  BY <1>1, <1>2

\* The stamps of a log grow with the place in it, so that what a vector has not seen of
\* it are its last entries.
LEMMA MissingIsGapless ==
    ASSUME StampInv, LogsAreOwn, NEW s \in Peers, NEW v \in Clock
    PROVE  Gapless(Missing(operationLog[s], v))
<1> DEFINE log == operationLog[s]
           ops == Missing(log, v)
<1>1. log \in Seq(Operation) /\ DOMAIN log = 1 .. Len(log) /\ Len(log) \in Nat
  BY DEF StampInv, TypeOK
<1>2. /\ \A i \in DOMAIN ops : i \in DOMAIN log /\ ops[i] = log[i]
      /\ \A i \in DOMAIN log : i \in DOMAIN ops <=> log[i].vector[log[i].peer] > v[log[i].peer]
  BY DEF Missing
<1> HIDE DEF ops
<1>3. SUFFICES ASSUME NEW i \in DOMAIN ops, NEW k \in DOMAIN ops, ops[i].peer \notin Detachers,
                      NEW j \in i .. k
               PROVE  j \in DOMAIN ops
  BY DEF Gapless, ops
<1>4. i \in DOMAIN log /\ k \in DOMAIN log /\ log[i].peer = s /\ s \notin Detachers
  BY <1>2, <1>3 DEF LogsAreOwn
<1>5. j \in DOMAIN log /\ i \in Nat /\ j \in Nat /\ i <= j
  BY <1>1, <1>4
<1>6. \A n \in DOMAIN log : /\ log[n].peer = s /\ log[n].vector[s] \in Nat
                            /\ log[n].vector[s] + 1 + Len(log) = localVector[s][s] + n
  <2>1. \A n \in DOMAIN log : log[n].vector \in Clock
    BY <1>1 DEF Operation
  <2>2. QED
    BY <1>4, <2>1 DEF StampInv, LogMatchesClock, Clock
<1>7. log[i].vector[s] > v[s] /\ v[s] \in Nat /\ localVector[s][s] \in Nat
  BY <1>2, <1>4, <1>6 DEF Clock, StampInv, TypeOK
<1>8. log[j].vector[s] > v[s]
  <2> DEFINE x == log[i].vector[s]
             y == log[j].vector[s]
             n == localVector[s][s]
             l == Len(log)
  <2>1. x \in Nat /\ y \in Nat /\ x + 1 + l = n + i /\ y + 1 + l = n + j /\ x > v[s]
    BY <1>4, <1>5, <1>6, <1>7
  <2>2. n \in Nat /\ l \in Nat
    BY <1>1, <1>7
  <2> HIDE DEF x, y, n, l
  <2>3. y > v[s]
    BY <1>5, <1>7, <2>1, <2>2
  <2>4. QED
    BY <2>3 DEF y
<1>9. QED
  BY <1>2, <1>5, <1>6, <1>8

LEMMA GapStep == StampInv /\ GapInv /\ [Next]_vars => GapInv'
<1> SUFFICES ASSUME StampInv, GapInv, [Next]_vars PROVE GapInv'
  OBVIOUS
<1>1. ASSUME UNCHANGED operationLog PROVE LogsAreOwn'
  BY <1>1 DEF GapInv, LogsAreOwn
<1>2. ASSUME LogsAreOwn', handlers' \subseteq handlers,
             \A m \in net' : m \in net \/ m.type # "sync_response"
      PROVE  GapInv'
  BY <1>2 DEF GapInv
<1>3. ASSUME NEW p \in Peers, Stop(p) PROVE GapInv'
  <2>1. \A s \in Peers : operationLog'[s] = IF s = p THEN <<>> ELSE operationLog[s]
    BY <1>3 DEF Stop, StampInv, TypeOK
  <2>2. LogsAreOwn'
    BY <2>1 DEF GapInv, LogsAreOwn
  <2>3. QED
    BY <1>2, <1>3, <2>2 DEF Stop
<1>4. ASSUME NEW p \in Peers, ProcessStep(p) PROVE GapInv'
  BY <1>1, <1>2, <1>3, <1>4 DEF ProcessStep, Start, Restart, Crash, volatile
<1>5. ASSUME NEW p \in Peers, ClientStep(p) PROVE GapInv'
  <2>1. ASSUME NEW op \in Operation, op.peer = p, Issue(p, op), UNCHANGED handlers PROVE GapInv'
    <3>1. LogsAreOwn'
      BY <2>1, IssueKeepsLogsOwn DEF GapInv, StampInv
    <3>2. \A m \in net' : m \in net \/ m.type # "sync_response"
      BY <2>1 DEF Issue, broadcastOperation
    <3>3. QED
      BY <1>2, <2>1, <3>1, <3>2
  <2>2. ASSUME NEW d \in DocIDs, NEW payload \in Docs, Insert(p, d, payload) PROVE GapInv'
    <3>1. NewOperation(p, "insert", d, ToDistributed(payload, p, Now)) \in Operation
      BY NewOperationType, ReplicationAssumption DEF StampInv
    <3>2. QED
      BY <2>1, <2>2, <3>1 DEF Insert, NewOperation
  <2>3. ASSUME NEW d \in DocIDs, Delete(p, d) PROVE GapInv'
    <3>1. NewOperation(p, "delete", d, NoDocument) \in Operation
      BY NewOperationType DEF StampInv
    <3>2. QED
      BY <2>1, <2>3, <3>1 DEF Delete, NewOperation
  <2>4. CASE Update(p) \/ DetachFromNetwork(p)
    BY <1>1, <1>2, <2>4 DEF Update, DetachFromNetwork, volatile
  <2>5. CASE AttachToNetwork(p) \/ ForceSync(p)
    BY <1>1, <1>2, <2>5 DEF AttachToNetwork, ForceSync, requestSync
  <2>6. QED
    BY <1>5, <2>2, <2>3, <2>4, <2>5 DEF ClientStep
<1>6. ASSUME NEW p \in Peers, NEW m \in net, handleSyncRequest(p, m) PROVE GapInv'
  <2>1. CASE AnswerSyncRequest(p, m)
    <3>1. m.vector \in Clock
      BY <1>6, MessageParts DEF handleSyncRequest, StampInv
    <3>2. Gapless(Missing(operationLog[p], m.vector))
      BY <3>1, MissingIsGapless DEF GapInv
    <3>3. \A n \in net' : n \in net \/ n.ops = Missing(operationLog[p], m.vector)
      BY <2>1 DEF AnswerSyncRequest
    <3>4. QED
      BY <1>1, <2>1, <3>2, <3>3 DEF AnswerSyncRequest, GapInv, volatile
  <2>2. QED
    BY <1>3, <1>6, <2>1 DEF handleSyncRequest
<1>7. ASSUME NEW p \in Peers, Receive(p) PROVE GapInv'
  <2>1. ASSUME NEW m \in net, ReceiveOperation(p, m) PROVE GapInv'
    BY <1>1, <1>2, <2>1 DEF ReceiveOperation
  <2>2. ASSUME NEW m \in net, ReceiveSyncResponse(p, m) PROVE GapInv'
    BY <1>1, <2>2 DEF ReceiveSyncResponse, GapInv, volatile
  <2>3. QED
    BY <1>6, <1>7, <2>1, <2>2 DEF Receive
<1>8. ASSUME NEW h \in handlers, HandlerStep(h) PROVE GapInv'
  <2>1. ASSUME NEW i \in DOMAIN h.ops, ApplyFromResponse(h, i) PROVE GapInv'
    <3> DEFINE rest == [j \in DOMAIN h.ops \ {i} |-> h.ops[j]]
    <3>1. DOMAIN h.ops \subseteq Nat /\ Gapless(h.ops) /\ \A j \in DOMAIN h.ops : i <= j
      BY <2>1, ReplicationAssumption
      DEF ApplyFromResponse, GapInv, StampInv, TypeOK, IsHandler, IsSelection
    <3>2. DOMAIN rest = DOMAIN h.ops \ {i} /\ \A j \in DOMAIN rest : rest[j] = h.ops[j]
      OBVIOUS
    <3> HIDE DEF rest
    <3>3. ASSUME NEW a \in DOMAIN rest, NEW b \in DOMAIN rest, rest[a].peer \notin Detachers,
                 NEW j \in a .. b
          PROVE  j \in DOMAIN rest
      <4>1. j \in DOMAIN h.ops
        BY <3>1, <3>2, <3>3 DEF Gapless
      <4>2. j # i
        BY <3>1, <3>2, <4>1
      <4>3. QED
        BY <3>2, <4>1, <4>2
    <3>4. Gapless(rest)
      BY <3>3 DEF Gapless
    <3>5. \A n \in handlers' : n \in handlers \/ n.ops = rest
      BY <2>1 DEF ApplyFromResponse, rest
    <3>6. QED
      BY <1>1, <2>1, <3>4, <3>5 DEF ApplyFromResponse, GapInv
  <2>2. CASE FinishResponse(h)
    BY <1>1, <1>2, <2>2 DEF FinishResponse
  <2>3. QED
    BY <1>8, <2>1, <2>2 DEF HandlerStep
<1>9. QED
  BY <1>1, <1>2, <1>4, <1>5, <1>7, <1>8
  DEF Next, ClearFlagAfterTimeout, Lose, vars, volatile

(***************************************************************************)
(* What handleSyncRequest sends, and what a handler has left of it, are    *)
(* consecutive entries of the log of a peer that never detaches.           *)
(***************************************************************************)
THEOREM ResponsesAreConsecutive == Spec => []ResponseHasNoGaps
<1>1. Init => GapInv
  <2>1. DOMAIN <<>> = {}
    OBVIOUS
  <2>2. QED
    BY <2>1 DEF Init, GapInv, LogsAreOwn
<1>2. GapInv => ResponseHasNoGaps
  BY DEF GapInv, Gapless, ResponseHasNoGaps
<1>3. QED
  BY <1>1, <1>2, GapStep, StampInvariant, PTL DEF Spec

-----------------------------------------------------------------------------
(***************************************************************************)
(* ReplicationHistory.  The record of what was written and applied adds no *)
(* step to Replication, and takes none away.                               *)
(***************************************************************************)
LEMMA HistoryIsNext == HistoryNext => Next
<1> SUFFICES ASSUME HistoryNext PROVE Next
  OBVIOUS
<1>1. ASSUME NEW p \in Peers, NEW d \in DocIDs,
             DeleteH(p, d) \/ \E payload \in Docs : InsertH(p, d, payload)
      PROVE  Next
  BY <1>1 DEF DeleteH, InsertH, Next, ClientStep
<1>2. ASSUME NEW p \in Peers, NEW m \in net, ReceiveOperationH(p, m) PROVE Next
  BY <1>2 DEF ReceiveOperationH, Next, Receive
<1>3. ASSUME NEW dead \in Peers, NEW p \in Peers, RestartH(dead, p) PROVE Next
  BY <1>3 DEF RestartH, Next, ProcessStep
<1>4. ASSUME NEW h \in handlers, NEW i \in DOMAIN h.ops, ApplyFromResponseH(h, i) PROVE Next
  BY <1>4 DEF ApplyFromResponseH, Next, HandlerStep
<1>5. CASE Silent
  BY <1>5 DEF Silent, Next, ProcessStep, ClientStep, Receive, HandlerStep
<1>6. QED
  BY <1>1, <1>2, <1>3, <1>4, <1>5 DEF HistoryNext

(***************************************************************************)
(* What is proved of Replication holds with the record too: a behaviour of *)
(* the one is a behaviour of the other.                                    *)
(***************************************************************************)
THEOREM HistoryIsReplication == HistorySpec => Spec
<1>1. HistoryInit => Init
  BY DEF HistoryInit
<1>2. [HistoryNext]_<<vars, history>> => [Next]_vars
  BY HistoryIsNext
<1>3. QED
  BY <1>1, <1>2, PTL DEF HistorySpec, Spec

\* What an operation writes.
WhatOf(op) == IF op.type = "insert" THEN op.data.payload ELSE NoDocument

WasWritten(op) == /\ WhatOf(op) \in writes[op.documentID]
                  /\ op.type = "insert" => ~ op.data.deleted

\* Document d has only ever been written one way, if at all.
Only(d, what) == writes[d] \subseteq {what}

HistoryInv ==
    /\ TypeOK
    /\ handled \in [Peers -> SUBSET Operation]
    /\ writes \in [DocIDs -> SUBSET (Payload \cup {NoDocument})]
    /\ \A op \in Operations : WasWritten(op)
    /\ \A p \in Peers, d \in DocIDs : store[p][d] # NoDocument =>
          \A what \in Payload \cup {NoDocument} : Only(d, what) => store[p][d] = what
    /\ \A p \in Peers : \A op \in handled[p] :
          op.type = "insert" /\ Only(op.documentID, op.data.payload) =>
              store[p][op.documentID] = op.data.payload

\* An operation that writes what has been written before leaves nothing else.
LEMMA OnlyIsKept ==
    ASSUME TypeOK, NEW p \in Peers, NEW op \in Operation,
           op.type = "insert" => ~ op.data.deleted,
           store[p][op.documentID] \in {NoDocument, WhatOf(op)}
    PROVE  AfterRemote(p, op) = WhatOf(op)
<1> DEFINE existing == store[p][op.documentID]
           known    == IF existing = NoDocument THEN NoDocument
                       ELSE ToDistributed(existing, op.peer, Now)
           result   == ApplyOperation(known, op)
<1>1. AfterRemote(p, op) = IF result = NoDocument THEN NoDocument
                           ELSE IF result.deleted THEN NoDocument ELSE ToRegular(result)
  BY DEF AfterRemote
<1>2. /\ op.documentID \in DocIDs /\ op.vector \in Clock /\ op.timestamp \in Nat
      /\ op.peer \in Peers /\ op.type \in {"insert", "delete"}
      /\ op.type = "insert" => op.data \in Document
  BY DEF Operation
<1>3. CASE op.type = "delete"
  <2>1. WhatOf(op) = NoDocument /\ existing = NoDocument
    BY <1>3 DEF WhatOf
  <2>2. result = NoDocument
    BY <1>3, <2>1 DEF ApplyOperation
  <2>3. QED
    BY <1>1, <2>1, <2>2
<1>4. CASE op.type = "insert" /\ existing = NoDocument
  <2>1. op.data \in Document /\ WhatOf(op) = op.data.payload /\ ~ op.data.deleted
    BY <1>2, <1>4 DEF WhatOf
  <2>2. result = [op.data EXCEPT !.vector = op.vector, !.timestamp = op.timestamp,
                                 !.peer = op.peer]
    BY <1>4 DEF ApplyOperation
  <2> HIDE DEF result
  <2>3. result \in Document
    BY <1>2, <2>1, <2>2 DEF Document
  <2>4. result.payload = op.data.payload /\ ~ result.deleted
    BY <2>1, <2>2 DEF Document
  <2>5. result # NoDocument
    BY <2>3, ResolverAssumption
  <2>6. QED
    BY <1>1, <2>1, <2>4, <2>5 DEF ToRegular
<1>5. CASE op.type = "insert" /\ existing # NoDocument
  <2>1. /\ op.data \in Document /\ WhatOf(op) = op.data.payload /\ ~ op.data.deleted
        /\ existing = op.data.payload /\ op.data.payload \in Payload
    BY <1>2, <1>5 DEF WhatOf, Document
  <2>2. known = ToDistributed(existing, op.peer, Now) /\ known \in Document /\ known # NoDocument
    BY <1>2, <1>5, <2>1, ToDistributedType, ResolverAssumption DEF Now
  <2>3. known.payload = op.data.payload /\ ~ known.deleted
    BY <2>1, <2>2 DEF ToDistributed
  <2> HIDE DEF known
  <2>4. Overlay(op.data.payload, known.payload) = op.data.payload
    BY <2>1, <2>3 DEF Overlay, Payload
  <2>5. CASE ~ Applies(known, op)
    <3>1. result = known
      BY <2>2, <2>5 DEF ApplyOperation
    <3>2. QED
      BY <1>1, <2>1, <2>2, <2>3, <3>1 DEF ToRegular
  <2>6. CASE Applies(known, op)
    <3>1. result = [known EXCEPT !.payload = Overlay(op.data.payload, @),
                                 !.deleted = @ \/ FALSE,
                                 !.vector = Merge(@, op.vector),
                                 !.timestamp = Later(@, op.timestamp)]
      BY <1>5, <2>2, <2>6 DEF ApplyOperation
    <3> HIDE DEF result
    <3>2. result.payload = op.data.payload /\ ~ result.deleted
      BY <2>2, <2>3, <2>4, <3>1 DEF Document
    <3>3. result # NoDocument
      <4>1. /\ known.deleted = FALSE /\ known.vector \in Clock /\ known.timestamp \in Nat
            /\ known.payload \in Payload
        BY <2>2, <2>3 DEF Document
      <4>2. result = [known EXCEPT !.payload = op.data.payload, !.deleted = FALSE,
                                   !.vector = Merge(known.vector, op.vector),
                                   !.timestamp = Later(known.timestamp, op.timestamp)]
        BY <2>2, <2>4, <3>1, <4>1 DEF Document
      <4>3. /\ Merge(known.vector, op.vector) \in Clock
            /\ Later(known.timestamp, op.timestamp) \in Nat
        BY <1>2, <4>1, MergeType DEF Later
      <4>4. result \in Document
        BY <2>1, <2>2, <4>2, <4>3 DEF Document
      <4>5. QED
        BY <4>4, ResolverAssumption
    <3>4. QED
      BY <1>1, <2>1, <3>2, <3>3 DEF ToRegular
  <2>7. QED
    BY <2>5, <2>6
<1>6. QED
  BY <1>2, <1>3, <1>4, <1>5

LEMMA RemoteKeepsHistory ==
    ASSUME HistoryInv, TypeOK', NEW p \in Peers, NEW op \in Operations,
           handleRemoteOperation(p, op), Handles(p, op), UNCHANGED writes,
           Operations' \subseteq Operations
    PROVE  HistoryInv'
<1> DEFINE d0 == op.documentID
<1>1. op \in Operation /\ d0 \in DocIDs /\ WasWritten(op)
  BY OperationsType DEF HistoryInv, Operation
<1>2. PICK what : what = WhatOf(op)
  OBVIOUS
<1>3. what \in Payload \cup {NoDocument} /\ what \in writes[d0]
  BY <1>1, <1>2 DEF WasWritten, HistoryInv
<1>4. ASSUME NEW v, Only(d0, v) PROVE v = what /\ AfterRemote(p, op) = what
  <2>1. v = what
    BY <1>3, <1>4 DEF Only
  <2>2. store[p][d0] \in {NoDocument, what}
    BY <1>1, <1>3, <1>4, <2>1 DEF HistoryInv
  <2>3. QED
    BY <1>1, <1>2, <2>1, <2>2, OnlyIsKept DEF HistoryInv, WasWritten
<1>5. \A q \in Peers, d \in DocIDs :
         store'[q][d] = IF q = p /\ d = d0 THEN AfterRemote(p, op) ELSE store[q][d]
  BY <1>1 DEF handleRemoteOperation, HistoryInv, TypeOK, Store
<1>6. \A q \in Peers : handled'[q] = IF q = p THEN handled[p] \cup {op} ELSE handled[q]
  BY DEF Handles, HistoryInv
<1>7. handled' \in [Peers -> SUBSET Operation]
  BY <1>1 DEF Handles, HistoryInv
<1>8. writes' \in [DocIDs -> SUBSET (Payload \cup {NoDocument})]
  BY DEF HistoryInv
<1>9. ASSUME NEW o \in Operations' PROVE WasWritten(o)'
  BY <1>9 DEF HistoryInv, WasWritten
<1>10. ASSUME NEW q \in Peers, NEW d \in DocIDs, store'[q][d] # NoDocument,
              NEW v \in Payload \cup {NoDocument}, Only(d, v)
       PROVE  store'[q][d] = v
  BY <1>4, <1>5, <1>10 DEF HistoryInv
<1>11. ASSUME NEW q \in Peers, NEW o \in handled'[q], o.type = "insert",
              Only(o.documentID, o.data.payload)
       PROVE  store'[q][o.documentID] = o.data.payload
  <2>1. o \in Operation /\ o.documentID \in DocIDs
    BY <1>7 DEF Operation
  <2>2. CASE q = p /\ o.documentID = d0
    BY <1>4, <1>5, <1>11, <2>1, <2>2
  <2>3. CASE ~ (q = p /\ o.documentID = d0)
    <3>1. o \in handled[q]
      BY <1>6, <2>3
    <3>2. QED
      BY <1>5, <1>11, <2>1, <2>3, <3>1 DEF HistoryInv
  <2>4. QED
    BY <2>2, <2>3
<1>12. \A d, v : Only(d, v)' <=> Only(d, v)
  BY DEF Only
<1>13. QED
  BY <1>7, <1>8, <1>9, <1>10, <1>11, <1>12 DEF HistoryInv

LEMMA WriteKeepsHistory ==
    ASSUME HistoryInv, TypeOK', NEW p \in Peers, NEW d \in DocIDs,
           NEW what \in Payload \cup {NoDocument},
           NEW op \in Operation, op.documentID = d, WhatOf(op) = what,
           op.type = "insert" => ~ op.data.deleted,
           store' = [store EXCEPT ![p][d] = what],
           Writes(p, d, what, op),
           \A o \in Operations' : o \in Operations \/ o = op
    PROVE  HistoryInv'
<1>1. \A q \in Peers, e \in DocIDs :
         store'[q][e] = IF q = p /\ e = d THEN what ELSE store[q][e]
  BY DEF HistoryInv, TypeOK, Store
<1>2. \A e \in DocIDs : writes'[e] = IF e = d THEN writes[d] \cup {what} ELSE writes[e]
  BY DEF Writes, HistoryInv
<1>3. writes' \in [DocIDs -> SUBSET (Payload \cup {NoDocument})]
  BY DEF Writes, HistoryInv
<1>4. /\ handled' \in [Peers -> SUBSET Operation]
      /\ \A q \in Peers : \A o \in handled'[q] : o \in handled[q] \/ (q = p /\ o = op)
  BY DEF Writes, Handles, HistoryInv
<1>5. ASSUME NEW e \in DocIDs, NEW v, Only(e, v)'
      PROVE  Only(e, v) /\ (e = d => v = what)
  BY <1>2, <1>5 DEF Only
<1>6. ASSUME NEW o \in Operations' PROVE WasWritten(o)'
  <2>1. CASE o = op
    BY <1>2, <2>1 DEF WasWritten
  <2>2. CASE o \in Operations
    <3>1. WasWritten(o) /\ o.documentID \in DocIDs
      BY <2>2, OperationsType DEF HistoryInv, Operation
    <3>2. QED
      BY <1>2, <3>1 DEF WasWritten
  <2>3. QED
    BY <2>1, <2>2
<1>7. ASSUME NEW q \in Peers, NEW e \in DocIDs, store'[q][e] # NoDocument,
             NEW v \in Payload \cup {NoDocument}, Only(e, v)'
      PROVE  store'[q][e] = v
  BY <1>1, <1>5, <1>7 DEF HistoryInv
<1>8. ASSUME NEW q \in Peers, NEW o \in handled'[q], o.type = "insert",
             Only(o.documentID, o.data.payload)'
      PROVE  store'[q][o.documentID] = o.data.payload
  <2>1. o.documentID \in DocIDs
    BY <1>4 DEF Operation
  <2>2. Only(o.documentID, o.data.payload) /\ (o.documentID = d => o.data.payload = what)
    BY <1>5, <1>8, <2>1
  <2>3. CASE q = p /\ o.documentID = d
    BY <1>1, <2>1, <2>2, <2>3
  <2>4. CASE ~ (q = p /\ o.documentID = d)
    <3>1. o \in handled[q]
      BY <1>4, <2>4
    <3>2. QED
      BY <1>1, <1>8, <2>1, <2>2, <2>4, <3>1 DEF HistoryInv
  <2>5. QED
    BY <2>3, <2>4
<1>9. QED
  BY <1>3, <1>4, <1>6, <1>7, <1>8 DEF HistoryInv

LEMMA RestartKeepsHistory ==
    ASSUME HistoryInv, TypeOK', NEW dead \in Peers, NEW p \in Peers, RestartH(dead, p)
    PROVE  HistoryInv'
<1>1. dead # p /\ UNCHANGED <<writes, net, handlers, operationLog>>
  BY DEF RestartH, Restart, volatile
<1>2. \A q \in Peers : /\ store'[q] = IF q = p THEN store[dead] ELSE
                                      IF q = dead THEN EmptyStore ELSE store[q]
                       /\ handled'[q] = IF q = p THEN handled[dead] ELSE
                                        IF q = dead THEN {} ELSE handled[q]
  BY <1>1 DEF RestartH, Restart, HistoryInv, TypeOK
<1>3. handled' \in [Peers -> SUBSET Operation]
  BY DEF RestartH, HistoryInv
<1>4. Operations' \subseteq Operations /\ (\A d, v : Only(d, v)' <=> Only(d, v))
  BY <1>1, LogStays DEF Only
<1>5. ASSUME NEW o \in Operations' PROVE WasWritten(o)'
  BY <1>1, <1>4, <1>5 DEF HistoryInv, WasWritten
<1>6. ASSUME NEW q \in Peers, NEW d \in DocIDs, store'[q][d] # NoDocument,
             NEW v \in Payload \cup {NoDocument}, Only(d, v)
      PROVE  store'[q][d] = v
  BY <1>2, <1>6 DEF HistoryInv, EmptyStore
<1>7. ASSUME NEW q \in Peers, NEW o \in handled'[q], o.type = "insert",
             Only(o.documentID, o.data.payload)
      PROVE  store'[q][o.documentID] = o.data.payload
  BY <1>2, <1>7 DEF HistoryInv
<1>8. QED
  BY <1>1, <1>3, <1>4, <1>5, <1>6, <1>7 DEF HistoryInv

LEMMA QuietHistory ==
    ASSUME HistoryInv, TypeOK', UNCHANGED <<store, handled, writes>>,
           Operations' \subseteq Operations
    PROVE  HistoryInv'
<1>1. \A d, v : Only(d, v)' <=> Only(d, v)
  BY DEF Only
<1>2. ASSUME NEW o \in Operations' PROVE WasWritten(o)'
  BY <1>2 DEF HistoryInv, WasWritten
<1>3. QED
  BY <1>1, <1>2 DEF HistoryInv

LEMMA SilentAddsNothing ==
    TypeOK /\ Silent => UNCHANGED store /\ Operations' \subseteq Operations
<1> SUFFICES ASSUME TypeOK, Silent PROVE UNCHANGED store /\ Operations' \subseteq Operations
  OBVIOUS
<1>1. ASSUME NEW p \in Peers, Start(p) \/ Update(p) \/ DetachFromNetwork(p)
                                \/ ClearFlagAfterTimeout(p)
      PROVE  UNCHANGED store /\ Operations' \subseteq Operations
  BY <1>1, LogStays DEF Start, Update, DetachFromNetwork, ClearFlagAfterTimeout, volatile
<1>2. ASSUME NEW p \in Peers, AttachToNetwork(p) \/ ForceSync(p)
      PROVE  UNCHANGED store /\ Operations' \subseteq Operations
  <2>1. \A m \in net' : m \in net \/ m.type = "sync_request"
    BY <1>2 DEF AttachToNetwork, ForceSync, requestSync
  <2>2. UNCHANGED <<store, operationLog, handlers>>
    BY <1>2 DEF AttachToNetwork, ForceSync
  <2>3. Operations' \subseteq Operations
    BY <2>1, <2>2, LogStays
  <2>4. QED
    BY <2>2, <2>3
<1>3. ASSUME NEW p \in Peers, Stop(p) PROVE UNCHANGED store /\ Operations' \subseteq Operations
  BY <1>3, StopAddsNothing DEF Stop
<1>4. ASSUME NEW p \in Peers, NEW m \in net, handleSyncRequest(p, m) \/ ReceiveSyncResponse(p, m)
      PROVE  UNCHANGED store /\ Operations' \subseteq Operations
  BY <1>3, <1>4, SyncAddsNothing
  DEF handleSyncRequest, AnswerSyncRequest, ReceiveSyncResponse, volatile
<1>5. ASSUME NEW h \in handlers, FinishResponse(h)
      PROVE  UNCHANGED store /\ Operations' \subseteq Operations
  BY <1>5, LogStays DEF FinishResponse
<1>6. ASSUME NEW m \in net, Lose(m) PROVE UNCHANGED store /\ Operations' \subseteq Operations
  BY <1>6, LogStays DEF Lose, volatile
<1>7. QED
  BY <1>1, <1>2, <1>3, <1>4, <1>5, <1>6 DEF Silent, Crash

LEMMA HistoryStep == HistoryInv /\ [HistoryNext]_<<vars, history>> => HistoryInv'
<1> SUFFICES ASSUME HistoryInv, [HistoryNext]_<<vars, history>> PROVE HistoryInv'
  OBVIOUS
<1>1. TypeOK /\ TypeOK'
  BY HistoryIsNext, TypeStep DEF HistoryInv
<1>2. ASSUME NEW p \in Peers, NEW d \in DocIDs, NEW payload \in Docs, InsertH(p, d, payload)
      PROVE  HistoryInv'
  <2>1. payload \in Payload
    BY ReplicationAssumption
  <2>2. PICK op : op = NewOperation(p, "insert", d, ToDistributed(payload, p, Now))
    OBVIOUS
  <2>3. /\ op \in Operation /\ op.documentID = d /\ op.type = "insert"
        /\ op.data.payload = payload /\ op.data.deleted = FALSE
    BY <1>1, <2>1, <2>2, NewOperationType DEF NewOperation, ToDistributed
  <2>4. /\ store' = [store EXCEPT ![p][d] = payload] /\ Writes(p, d, payload, op)
        /\ Issue(p, op) /\ UNCHANGED handlers
    BY <1>2, <2>2 DEF InsertH, Insert
  <2>5. \A o \in Operations' : o \in Operations \/ o = op
    BY <1>1, <2>3, <2>4, IssueAddsOne
  <2>6. QED
    BY <1>1, <2>1, <2>3, <2>4, <2>5, WriteKeepsHistory DEF WhatOf
<1>3. ASSUME NEW p \in Peers, NEW d \in DocIDs, DeleteH(p, d) PROVE HistoryInv'
  <2>1. PICK op : op = NewOperation(p, "delete", d, NoDocument)
    OBVIOUS
  <2>2. op \in Operation /\ op.documentID = d /\ op.type = "delete"
    BY <1>1, <2>1, NewOperationType DEF NewOperation
  <2>3. /\ store' = [store EXCEPT ![p][d] = NoDocument] /\ Writes(p, d, NoDocument, op)
        /\ Issue(p, op) /\ UNCHANGED handlers
    BY <1>3, <2>1 DEF DeleteH, Delete
  <2>4. \A o \in Operations' : o \in Operations \/ o = op
    BY <1>1, <2>2, <2>3, IssueAddsOne
  <2>5. QED
    BY <1>1, <2>2, <2>3, <2>4, WriteKeepsHistory DEF WhatOf
<1>4. ASSUME NEW p \in Peers, NEW m \in net, ReceiveOperationH(p, m) PROVE HistoryInv'
  <2>1. m.op \in Operations
    BY <1>4, OperationsAre DEF ReceiveOperationH, ReceiveOperation, Somewhere
  <2>2. Operations' \subseteq Operations
    BY <1>4, LogStays DEF ReceiveOperationH, ReceiveOperation
  <2>3. QED
    BY <1>1, <1>4, <2>1, <2>2, RemoteKeepsHistory DEF ReceiveOperationH, ReceiveOperation
<1>5. ASSUME NEW h \in handlers, NEW i \in DOMAIN h.ops, ApplyFromResponseH(h, i)
      PROVE  HistoryInv'
  <2>1. h.at \in Peers /\ h.ops[i] \in Operations
    BY <1>1, OperationsAre DEF Somewhere, TypeOK, IsHandler
  <2>2. Operations' \subseteq Operations
    BY <1>5, SyncAddsNothing DEF ApplyFromResponseH
  <2>3. QED
    BY <1>1, <1>5, <2>1, <2>2, RemoteKeepsHistory DEF ApplyFromResponseH, ApplyFromResponse
<1>6. ASSUME NEW dead \in Peers, NEW p \in Peers, RestartH(dead, p) PROVE HistoryInv'
  BY <1>1, <1>6, RestartKeepsHistory
<1>7. CASE Silent /\ UNCHANGED history
  BY <1>1, <1>7, SilentAddsNothing, QuietHistory DEF history
<1>8. CASE UNCHANGED <<vars, history>>
  <2>1. Operations' \subseteq Operations /\ UNCHANGED <<store, handled, writes>>
    BY <1>8, LogStays DEF vars, volatile, history
  <2>2. QED
    BY <1>1, <2>1, QuietHistory
<1>9. QED
  BY <1>2, <1>3, <1>4, <1>5, <1>6, <1>7, <1>8 DEF HistoryNext

(***************************************************************************)
(* A document that is only ever written one way is what was written at     *)
(* every process that has applied an insert of it, in whatever order       *)
(* handleRemoteOperation had the operations, and after every restart.      *)
(***************************************************************************)
THEOREM WrittenOnceConverges == HistorySpec => []WriteOnceConverges
<1>1. HistoryInit => HistoryInv
  <2> SUFFICES ASSUME HistoryInit PROVE HistoryInv
    OBVIOUS
  <2>1. TypeOK
    BY TypeInit DEF HistoryInit
  <2>2. \A op : op \notin Operations
    <3>1. \A op : ~ Somewhere(op, net, handlers, operationLog)
      BY DEF HistoryInit, Init, Somewhere
    <3>2. QED
      BY <3>1, OperationsAre
  <2>3. \A p \in Peers, d \in DocIDs : store[p][d] = NoDocument
    BY DEF HistoryInit, Init, EmptyStore
  <2>4. QED
    BY <2>1, <2>2, <2>3 DEF HistoryInit, HistoryInv
<1>2. HistoryInv => WriteOnceConverges
  BY DEF HistoryInv, WriteOnceConverges, Only
<1>3. QED
  BY <1>1, <1>2, HistoryStep, PTL DEF HistorySpec
=============================================================================
