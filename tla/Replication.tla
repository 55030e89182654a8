---------------------------- MODULE Replication ----------------------------
(***************************************************************************)
(* internal/collection/distributed_collection.go: one DistributedCollection*)
(* per process, replicated over the peer-to-peer network.                  *)
(*                                                                         *)
(* Each process has a peer ID of its own (the network manager draws a new  *)
(* one whenever a process starts), a local store on disk and, while it is  *)
(* attached to a network, a sync state: the vector clock LocalVector and   *)
(* the flag SyncInProgress.  A local write goes to the store, is stamped,  *)
(* logged and broadcast; a sync asks everybody for logged operations.      *)
(*                                                                         *)
(* Network: every message goes to each connected process by a goroutine of *)
(* its own, so messages are a set without order, and one is lost when its  *)
(* connection is down (Lossy).  A broadcast reaches processes that have    *)
(* not attached too: the handlers are registered by the constructor and    *)
(* look at the collection's name only.                                     *)
(*                                                                         *)
(* Atomicity: a handler runs as one step, except the loop over a sync      *)
(* response, which takes one step per operation.                           *)
(***************************************************************************)
EXTENDS CRDTResolver, Sequences, FiniteSets

CONSTANTS DocIDs,
          Docs,           \* the payloads clients write
          MaxLogSize,     \* maxLogSize, 10000 in the code
          Lossy,          \* whether the network may lose messages
          Starters,       \* processes that start with an empty disk
          Writers,        \* processes whose client inserts documents
          Deleters,       \* processes whose client deletes documents
          Crashers,       \* processes that may be killed
          Updaters,       \* processes whose client calls Update
          Detachers,      \* processes whose client detaches the collection
          \* bounds of the model, none of them in the code
          MaxCounter,     \* operations a process stamps per attachment
          MaxTimers,      \* sync timers a process has running
          MaxNet          \* messages in flight

ASSUME ReplicationAssumption ==
    /\ MaxLogSize \in Nat \ {0}
    /\ Docs \subseteq Payload
    /\ Lossy \in BOOLEAN
    /\ {Starters, Writers, Deleters, Crashers, Updaters, Detachers} \subseteq SUBSET Peers
    /\ {MaxCounter, MaxTimers, MaxNet} \subseteq Nat

VARIABLES proc,           \* "unborn", "up" or "down"
          store,          \* the collection's documents on the process's disk
          wedged,         \* an Update holds the storage lock for ever
          attached,       \* networkID # ""
          localVector,    \* LocalVector of the current sync state
          syncInProgress, \* SyncInProgress of the current sync state
          timers,         \* timers that will clear that flag
          operationLog,   \* the operations issued here, oldest first
          net,            \* messages in flight
          handlers        \* goroutines working through a sync response

volatile == <<attached, localVector, syncInProgress, timers, operationLog>>
vars == <<proc, store, wedged, volatile, net, handlers>>

-----------------------------------------------------------------------------
(***************************************************************************)
(* Operations and messages.  No part of a stored document depends on the   *)
(* wall clock (ToRegular keeps the payload only), so it stands still.      *)
(***************************************************************************)
Now == 0

Operation ==
    {op \in [type      : {"insert", "delete"},
             documentID: DocIDs,
             data      : Document \cup {NoDocument},
             vector    : Clock,
             timestamp : Nat,
             peer      : Peers] : op.type = "insert" => op.data \in Document}

\* Operations picked from a log, each under its place there.
IsSelection(ops) == /\ DOMAIN ops \subseteq 1 .. MaxLogSize
                    /\ ops \in [DOMAIN ops -> Operation]

IsMessage(m) ==
    \/ m \in [type : {"operation"}, to : Peers, op : Operation]
    \/ m \in [type : {"sync_request"}, to : Peers, from : Peers, vector : Clock]
    \/ /\ m \in [type : {"sync_response"}, to : Peers, ops : {m.ops}]
       /\ IsSelection(m.ops)

IsHandler(h) == h \in [at : Peers, ops : {h.ops}] /\ IsSelection(h.ops)

Store == [DocIDs -> Payload \cup {NoDocument}]

EmptyStore == [d \in DocIDs |-> NoDocument]

Up(p) == proc[p] = "up"

CanUseStorage(p) == Up(p) /\ ~ wedged[p]

Connected(p) == {q \in Peers \ {p} : Up(q)}

Room(n) == Cardinality(net) + n <= MaxNet

-----------------------------------------------------------------------------
Init ==
    /\ proc           = [p \in Peers |-> "unborn"]
    /\ store          = [p \in Peers |-> EmptyStore]
    /\ wedged         = [p \in Peers |-> FALSE]
    /\ attached       = [p \in Peers |-> FALSE]
    /\ localVector    = [p \in Peers |-> NewVectorClock]
    /\ syncInProgress = [p \in Peers |-> FALSE]
    /\ timers         = [p \in Peers |-> 0]
    /\ operationLog   = [p \in Peers |-> <<>>]
    /\ net            = {}
    /\ handlers       = {}

(***************************************************************************)
(* Processes.  Stopping one loses everything but its disk; a new process   *)
(* on that disk is a new peer.                                             *)
(***************************************************************************)
Start(p) ==
    /\ proc[p] = "unborn" /\ p \in Starters
    /\ proc' = [proc EXCEPT ![p] = "up"]
    /\ UNCHANGED <<store, wedged, volatile, net, handlers>>

\* Mutant: the new process starts on an empty disk.
RestartOnEmptyDisk(dead, p) ==
    /\ proc[dead] = "down" /\ proc[p] = "unborn"
    /\ proc' = [proc EXCEPT ![p] = "up"]
    /\ UNCHANGED <<store, wedged, volatile, net, handlers>>

Restart(dead, p) ==
    /\ proc[dead] = "down" /\ proc[p] = "unborn"
    /\ proc'  = [proc EXCEPT ![p] = "up"]
    /\ store' = [store EXCEPT ![p] = store[dead], ![dead] = EmptyStore]
    /\ UNCHANGED <<wedged, volatile, net, handlers>>

\* The effect of the end of process p, whatever ends it.
Stop(p) ==
    /\ proc'           = [proc EXCEPT ![p] = "down"]
    /\ wedged'         = [wedged EXCEPT ![p] = FALSE]
    /\ attached'       = [attached EXCEPT ![p] = FALSE]
    /\ localVector'    = [localVector EXCEPT ![p] = NewVectorClock]
    /\ syncInProgress' = [syncInProgress EXCEPT ![p] = FALSE]
    /\ timers'         = [timers EXCEPT ![p] = 0]
    /\ operationLog'   = [operationLog EXCEPT ![p] = <<>>]
    /\ net'            = {m \in net : m.to # p}
    /\ handlers'       = {h \in handlers : h.at # p}
    /\ UNCHANGED store

Crash(p) == Up(p) /\ p \in Crashers /\ Stop(p)

-----------------------------------------------------------------------------
(***************************************************************************)
(* Local writes.                                                           *)
(***************************************************************************)
\* The stamp is the clock before this operation: the first operation of an
\* attachment is stamped 0 in its own entry.
NewOperation(p, type, d, data) ==
    [type |-> type, documentID |-> d, data |-> data,
     vector |-> localVector[p], timestamp |-> Now, peer |-> p]

\* Mutant: one operation too many stays.
PruneOneTooFew(log) ==
    IF Len(log) > MaxLogSize + 1
    THEN SubSeq(log, Len(log) - MaxLogSize, Len(log)) ELSE log

pruneOperationLog(log) ==
    IF Len(log) > MaxLogSize
    THEN SubSeq(log, Len(log) - MaxLogSize + 1, Len(log)) ELSE log

\* Mutant: nothing is logged when there is nobody to send it to.
LogOnlyWhenConnected(p, op) ==
    /\ localVector[p][p] < MaxCounter
    /\ Room(Cardinality(Connected(p)))
    /\ operationLog' = IF Connected(p) = {} THEN operationLog
                       ELSE [operationLog EXCEPT ![p] = pruneOperationLog(Append(@, op))]
    /\ localVector'  = [localVector EXCEPT ![p] = Increment(@, p)]
    /\ net' = net \cup {[type |-> "operation", to |-> q, op |-> op] : q \in Connected(p)}

broadcastOperation(p, op) ==
    /\ localVector[p][p] < MaxCounter
    /\ Room(Cardinality(Connected(p)))
    /\ operationLog' = [operationLog EXCEPT ![p] = pruneOperationLog(Append(@, op))]
    /\ localVector'  = [localVector EXCEPT ![p] = Increment(@, p)]
    /\ net' = net \cup {[type |-> "operation", to |-> q, op |-> op] : q \in Connected(p)}

\* What a local write does once the local collection has accepted it.
Issue(p, op) ==
    IF attached[p] THEN broadcastOperation(p, op)
                   ELSE UNCHANGED <<localVector, operationLog, net>>

Insert(p, d, payload) ==
    /\ CanUseStorage(p) /\ p \in Writers
    /\ store' = [store EXCEPT ![p][d] = payload]
    /\ Issue(p, NewOperation(p, "insert", d, ToDistributed(payload, p, Now)))
    /\ UNCHANGED <<proc, wedged, attached, syncInProgress, timers, handlers>>

\* Deleting a document that is not there succeeds and is broadcast too.  The
\* operation's Data, a bare tombstone, is read by nobody: NoDocument.
Delete(p, d) ==
    /\ CanUseStorage(p) /\ p \in Deleters
    /\ store' = [store EXCEPT ![p][d] = NoDocument]
    /\ Issue(p, NewOperation(p, "delete", d, NoDocument))
    /\ UNCHANGED <<proc, wedged, attached, syncInProgress, timers, handlers>>

\* FileStorage.Update takes the storage's lock and then waits in Find for the
\* read side of it: it never returns and nobody else gets in (FileStorageLock).
Update(p) ==
    /\ CanUseStorage(p) /\ p \in Updaters
    /\ wedged' = [wedged EXCEPT ![p] = TRUE]
    /\ UNCHANGED <<proc, store, volatile, net, handlers>>

-----------------------------------------------------------------------------
(***************************************************************************)
(* Attaching, detaching and asking for a sync.                             *)
(***************************************************************************)
\* requestSync on a sync state whose vector is v.
requestSync(p, v) ==
    /\ Room(Cardinality(Connected(p)))
    /\ syncInProgress' = [syncInProgress EXCEPT ![p] = TRUE]
    /\ net' = net \cup {[type |-> "sync_request", to |-> q, from |-> p, vector |-> v] :
                            q \in Connected(p)}

\* Attaching makes a new sync state; the log stays as it is.
AttachToNetwork(p) ==
    /\ Up(p) /\ ~ attached[p]
    /\ attached'    = [attached EXCEPT ![p] = TRUE]
    /\ localVector' = [localVector EXCEPT ![p] = NewVectorClock]
    /\ requestSync(p, NewVectorClock)
    /\ timers'      = [timers EXCEPT ![p] = 1]
    /\ UNCHANGED <<proc, store, wedged, operationLog, handlers>>

\* Mutant: the flag is not part of what goes.
DetachKeepsFlag(p) ==
    /\ Up(p) /\ attached[p] /\ p \in Detachers
    /\ attached'       = [attached EXCEPT ![p] = FALSE]
    /\ localVector'    = [localVector EXCEPT ![p] = NewVectorClock]
    /\ timers'         = [timers EXCEPT ![p] = 0]
    /\ UNCHANGED <<proc, store, wedged, syncInProgress, operationLog, net, handlers>>

\* The sync state goes; timers that are left only touch the old one.
DetachFromNetwork(p) ==
    /\ Up(p) /\ attached[p] /\ p \in Detachers
    /\ attached'       = [attached EXCEPT ![p] = FALSE]
    /\ localVector'    = [localVector EXCEPT ![p] = NewVectorClock]
    /\ syncInProgress' = [syncInProgress EXCEPT ![p] = FALSE]
    /\ timers'         = [timers EXCEPT ![p] = 0]
    /\ UNCHANGED <<proc, store, wedged, operationLog, net, handlers>>

ForceSync(p) ==
    /\ Up(p) /\ attached[p] /\ ~ syncInProgress[p]
    /\ timers[p] < MaxTimers
    /\ requestSync(p, localVector[p])
    /\ timers' = [timers EXCEPT ![p] = @ + 1]
    /\ UNCHANGED <<proc, store, wedged, attached, localVector, operationLog, handlers>>

\* Mutant: the timer runs out and leaves the flag.
TimeoutKeepsFlag(p) ==
    /\ timers[p] > 0
    /\ timers' = [timers EXCEPT ![p] = @ - 1]
    /\ UNCHANGED <<proc, store, wedged, attached, localVector, syncInProgress,
                   operationLog, net, handlers>>

\* Ten seconds after some requestSync, not necessarily the last one.
ClearFlagAfterTimeout(p) ==
    /\ timers[p] > 0
    /\ timers'         = [timers EXCEPT ![p] = @ - 1]
    /\ syncInProgress' = [syncInProgress EXCEPT ![p] = FALSE]
    /\ UNCHANGED <<proc, store, wedged, attached, localVector, operationLog, net, handlers>>

-----------------------------------------------------------------------------
(***************************************************************************)
(* Remote operations.  At a wedged process their handlers wait for ever in *)
(* Find: the message stays where it is.                                    *)
(***************************************************************************)
\* The document on p's disk after op: the stored payload is given the vector
\* {op.peer: 1}, and a deleted document is removed with its history.
AfterRemote(p, op) ==
    LET existing == store[p][op.documentID]
        result   == ApplyOperation(IF existing = NoDocument THEN NoDocument
                                   ELSE ToDistributed(existing, op.peer, Now), op)
    IN  IF result = NoDocument THEN NoDocument
        ELSE IF result.deleted THEN NoDocument ELSE ToRegular(result)

\* Mutants: the operation's stamp replaces the clock; the operation itself is
\* counted.
OverwriteClock(p, op) ==
    /\ store' = [store EXCEPT ![p][op.documentID] = AfterRemote(p, op)]
    /\ localVector' = IF attached[p] THEN [localVector EXCEPT ![p] = op.vector]
                      ELSE localVector

CountRemote(p, op) ==
    /\ store' = [store EXCEPT ![p][op.documentID] = AfterRemote(p, op)]
    /\ localVector' = IF attached[p]
                      THEN [localVector EXCEPT ![p] = Merge(@, Increment(op.vector, op.peer))]
                      ELSE localVector

handleRemoteOperation(p, op) ==
    /\ store' = [store EXCEPT ![p][op.documentID] = AfterRemote(p, op)]
    /\ localVector' = IF attached[p]
                      THEN [localVector EXCEPT ![p] = Merge(@, op.vector)]
                      ELSE localVector

ReceiveOperation(p, m) ==
    /\ m.type = "operation" /\ m.to = p
    /\ CanUseStorage(p)
    /\ handleRemoteOperation(p, m.op)
    /\ net' = net \ {m}
    /\ UNCHANGED <<proc, wedged, attached, syncInProgress, timers, operationLog, handlers>>

(***************************************************************************)
(* Sync.  The handler of a request has no sync state to read when the      *)
(* collection is not attached: the nil pointer ends the process.           *)
(***************************************************************************)
\* What the log has beyond the vector, by the issuer's own entry of a stamp.
Missing(log, vector) ==
    LET I == {i \in DOMAIN log : log[i].vector[log[i].peer] > vector[log[i].peer]}
    IN  [i \in I |-> log[i]]

AnswerSyncRequest(p, m) ==
    /\ attached[p]
    /\ net' = (net \ {m}) \cup
              (IF Up(m.from)
               THEN {[type |-> "sync_response", to |-> m.from,
                      ops |-> Missing(operationLog[p], m.vector)]}
               ELSE {})
    /\ UNCHANGED <<proc, store, wedged, volatile, handlers>>

handleSyncRequest(p, m) ==
    /\ m.type = "sync_request" /\ m.to = p
    /\ Up(p)
    /\ \/ AnswerSyncRequest(p, m)
       \/ ~ attached[p] /\ Stop(p)

ReceiveSyncResponse(p, m) ==
    /\ m.type = "sync_response" /\ m.to = p
    /\ Up(p)
    /\ net'      = net \ {m}
    /\ handlers' = handlers \cup {[at |-> p, ops |-> m.ops]}
    /\ UNCHANGED <<proc, store, wedged, volatile>>

\* Mutant: the operations of a response in any order.
ApplyInAnyOrder(h, i) ==
    /\ CanUseStorage(h.at)
    /\ handleRemoteOperation(h.at, h.ops[i])
    /\ handlers' = (handlers \ {h}) \cup
                   {[at |-> h.at, ops |-> [j \in DOMAIN h.ops \ {i} |-> h.ops[j]]]}
    /\ UNCHANGED <<proc, wedged, attached, syncInProgress, timers, operationLog, net>>

\* The next operation of a response, in the order of the sender's log.
ApplyFromResponse(h, i) ==
    /\ CanUseStorage(h.at)
    /\ \A j \in DOMAIN h.ops : i <= j
    /\ handleRemoteOperation(h.at, h.ops[i])
    /\ handlers' = (handlers \ {h}) \cup
                   {[at |-> h.at, ops |-> [j \in DOMAIN h.ops \ {i} |-> h.ops[j]]]}
    /\ UNCHANGED <<proc, wedged, attached, syncInProgress, timers, operationLog, net>>

FinishResponse(h) ==
    /\ DOMAIN h.ops = {}
    /\ handlers' = handlers \ {h}
    /\ syncInProgress' = IF attached[h.at] THEN [syncInProgress EXCEPT ![h.at] = FALSE]
                         ELSE syncInProgress
    /\ UNCHANGED <<proc, store, wedged, attached, localVector, timers, operationLog, net>>

Lose(m) ==
    /\ Lossy
    /\ net' = net \ {m}
    /\ UNCHANGED <<proc, store, wedged, volatile, handlers>>

-----------------------------------------------------------------------------
ProcessStep(p) ==
    \/ Start(p)
    \/ Crash(p)
    \/ \E dead \in Peers : Restart(dead, p)

ClientStep(p) ==
    \/ \E d \in DocIDs : Delete(p, d) \/ \E payload \in Docs : Insert(p, d, payload)
    \/ Update(p)
    \/ AttachToNetwork(p)
    \/ DetachFromNetwork(p)
    \/ ForceSync(p)

Receive(p) ==
    \E m \in net : \/ ReceiveOperation(p, m)
                   \/ handleSyncRequest(p, m)
                   \/ ReceiveSyncResponse(p, m)

HandlerStep(h) == FinishResponse(h) \/ \E i \in DOMAIN h.ops : ApplyFromResponse(h, i)

Next ==
    \/ \E p \in Peers : \/ ProcessStep(p)
                        \/ ClientStep(p)
                        \/ ClearFlagAfterTimeout(p)
                        \/ Receive(p)
    \/ \E h \in handlers : HandlerStep(h)
    \/ \E m \in net : Lose(m)

Spec == Init /\ [][Next]_vars

(***************************************************************************)
(* The sleeping goroutine of a requestSync wakes up.                       *)
(***************************************************************************)
Fairness == \A p \in Peers : WF_vars(ClearFlagAfterTimeout(p))

-----------------------------------------------------------------------------
(***************************************************************************)
(* Properties.                                                             *)
(***************************************************************************)
TypeOK ==
    /\ proc           \in [Peers -> {"unborn", "up", "down"}]
    /\ store          \in [Peers -> Store]
    /\ wedged         \in [Peers -> BOOLEAN]
    /\ attached       \in [Peers -> BOOLEAN]
    /\ localVector    \in [Peers -> Clock]
    /\ syncInProgress \in [Peers -> BOOLEAN]
    /\ timers         \in [Peers -> Nat]
    /\ operationLog   \in [Peers -> Seq(Operation)]
    /\ \A p \in Peers : Len(operationLog[p]) <= MaxLogSize
    /\ \A m \in net : IsMessage(m)
    /\ \A h \in handlers : IsHandler(h)

\* Every operation there is outside of the stores.
Operations ==
    UNION {{m.op : m \in {n \in net : n.type = "operation"}},
           UNION {{m.ops[i] : i \in DOMAIN m.ops} : m \in {n \in net : n.type = "sync_response"}},
           UNION {{h.ops[i] : i \in DOMAIN h.ops} : h \in handlers},
           UNION {{operationLog[p][i] : i \in DOMAIN operationLog[p]} : p \in Peers}}

\* A clock that has not seen p's last operation yet, if there is one.
Behind(v, p) == v[p] = 0 \/ v[p] < localVector[p][p]

\* Peers that have had one sync state at most, and are not gone.
Steady == {p \in Peers \ Detachers : proc[p] # "down"}

(***************************************************************************)
(* Nobody knows more of a peer's operations than the peer itself: its own  *)
(* operations are stamped below its counter (the stamp is taken before the *)
(* increment of broadcastOperation), and all that merging and syncing can  *)
(* put into another clock, a request or an operation stays below it too.   *)
(***************************************************************************)
OwnCounterIsMax ==
    \A p \in Steady :
        /\ \A q \in Peers \ {p} : Behind(localVector[q], p)
        /\ \A op \in Operations :
              IF op.peer = p THEN op.vector[p] < localVector[p][p] ELSE Behind(op.vector, p)
        /\ \A m \in {n \in net : n.type = "sync_request"} :
              IF m.from = p THEN m.vector[p] <= localVector[p][p] ELSE Behind(m.vector, p)

(***************************************************************************)
(* The log of a peer that never detached is its last operations and no     *)
(* others, stamped without a gap up to its counter, and as many as         *)
(* pruneOperationLog leaves.                                               *)
(***************************************************************************)
LogMatchesClock ==
    \A p \in Peers \ Detachers :
        LET own == localVector[p][p]
            log == operationLog[p]
        IN  /\ Len(log) = IF own < MaxLogSize THEN own ELSE MaxLogSize
            /\ \A i \in DOMAIN log : /\ log[i].peer = p
                                     /\ log[i].vector[p] + 1 + Len(log) = own + i

(***************************************************************************)
(* The operations handleSyncRequest finds missing, and those a handler has *)
(* still to apply, are consecutive entries of the sender's log.            *)
(***************************************************************************)
ResponseHasNoGaps ==
    \A r \in handlers \cup {m \in net : m.type = "sync_response"} :
        (\A i \in DOMAIN r.ops : r.ops[i].peer \notin Detachers) =>
            \A i, k \in DOMAIN r.ops : \A j \in i .. k : j \in DOMAIN r.ops

(***************************************************************************)
(* A sync that is marked as running has a timer that will clear the mark:  *)
(* requestSync cannot be blocked for ever by a lost response.              *)
(***************************************************************************)
FlagHasTimer == \A p \in Peers : syncInProgress[p] => attached[p] /\ timers[p] > 0

(***************************************************************************)
(* While a collection stays attached its clock never goes back, neither    *)
(* by an own operation, nor by merging one, in whatever order they come.   *)
(***************************************************************************)
ClockMonotone ==
    [][\A p \in Peers : attached[p] /\ attached'[p] =>
            \A k \in Peers : localVector[p][k] <= localVector'[p][k]]_vars

(***************************************************************************)
(* Every sync ends, answered or not: SyncInProgress is cleared.            *)
(***************************************************************************)
SyncEnds == \A p \in Peers : syncInProgress[p] ~> ~ syncInProgress[p]
=============================================================================
