------------------------- MODULE CollectionThreads -------------------------
(***************************************************************************)
(* internal/collection/distributed_collection.go again, from the inside:   *)
(* the goroutines of one process that share a DistributedCollection, here  *)
(* with one document.  Replication runs each handler as one step; this     *)
(* module runs it in the steps between which others come in, to say how    *)
(* much of that survives.                                                  *)
(*                                                                         *)
(* dc.mu is held by broadcastOperation alone.  All the rest (networkID,    *)
(* the map syncStates, the clock in it) is read and written without it.    *)
(* Go ends the process when a goroutine uses a sync state that is not      *)
(* there, and when it notices that a map is read while it is written; a    *)
(* writer's caller may recover from the first, with dc.mu held for ever.   *)
(*                                                                         *)
(* The network manager's entry for the network is here as well: attaching  *)
(* goes through AddCollectionToNetwork, which locks it twice.              *)
(***************************************************************************)
EXTENDS CRDTResolver, Sequences

CONSTANTS Me,            \* this process
          Writers,       \* goroutines that insert and delete
          Syncers,       \* goroutines that call ForceSync
          Handlers,      \* goroutines that handle operations and responses
          Controller,    \* the goroutine that attaches and detaches
          Docs,          \* the payloads written
          Incoming,      \* operations that arrive from other peers
          MaxLogSize,    \* maxLogSize
          Idle,          \* no call, nobody
          \* bounds of the model
          MaxWrites,     \* local writes
          MaxStates,     \* sync states made, one per AttachToNetwork
          MaxTimers      \* sync timers running

Goroutines == Writers \cup Syncers \cup Handlers \cup {Controller}

VARIABLES ended,        \* why the process ended; "no" while it runs
          document,     \* the document on disk
          networkID,    \* whether dc.networkID is set
          syncState,    \* the number of the sync state there is, 0 for none
          localVector,  \* its LocalVector
          inProgress,   \* its SyncInProgress
          timers,       \* timers that will clear its SyncInProgress
          operationLog, \* the stamps of the operations in the log
          mu,           \* who holds dc.mu
          network,      \* the network manager's entry for the network
          calls,        \* what each goroutine is doing
          states,       \* sync states made so far
          history

state == <<syncState, localVector, inProgress, timers>>
vars == <<ended, document, networkID, state, operationLog, mu, network, calls, states, history>>

Now == 0

\* A logged operation: its stamp and, for history, its writer and sync state.
Logged == [vector : Clock, by : Writers, state : Nat]

\* Whether there is a network of this ID, whether its Collections hold this one,
\* and its statistics' CollectionsShared.
Network == [there : BOOLEAN, listed : BOOLEAN, shared : 0 .. 1]

NoNetwork == [there |-> FALSE, listed |-> FALSE, shared |-> 0]

\* Increments of the current sync state, and what has crossed a merge: "increment"
\* or another "merge"; the join of the stamps applied; what a client wrote, as
\* long as it must still be there; whether the network was left since the last
\* AttachToNetwork began; the writes so far.
History == [done : Nat, crossed : SUBSET {"increment", "merge"}, applied : Clock,
            mine : Payload \cup {NoDocument, Idle}, left : BOOLEAN,
            writes : Nat]

\* A call: the operation it is about, the document it found, the clock and the
\* sync state it has read.  stale: the document was written since it was found,
\* or the network left since it was looked up.  History: what came between its
\* reading and writing the clock, merges or an increment; the controller attached or
\* detached meanwhile.
Call == [step    : {"stamp", "lock", "count", "assign", "panicked",
                    "apply", "check_merge", "read", "merge", "check_clear", "clear",
                    "check_sync", "check_progress", "set_progress", "start_timer",
                    "add", "set_id", "new_state", "drop", "clear_id"},
         op      : Incoming \cup {Idle},
         found   : Payload \cup {NoDocument},
         vector  : Clock,
         state   : Nat,
         stale   : BOOLEAN,
         crossed : SUBSET {"increment", "merge"},
         overlapped : BOOLEAN]

ASSUME ThreadsAssumption ==
    /\ Me \in Peers
    /\ Docs \subseteq Payload
    /\ MaxLogSize \in Nat \ {0}
    /\ {MaxWrites, MaxStates, MaxTimers} \subseteq Nat
    /\ \A op \in Incoming :
          /\ op.type \in {"insert", "update", "delete"} /\ op.peer \in Peers
          /\ op.vector \in Clock /\ op.timestamp \in Nat
          /\ op.type # "delete" => op.data \in Document
    /\ Idle \notin Goroutines \cup Payload \cup {NoDocument} \cup Incoming \cup Call

Running == ended = "no"
At(g, step) == Running /\ calls[g] # Idle /\ calls[g].step = step
Free(g) == Running /\ calls[g] = Idle

\* A call that begins at step.
Begin(step) == [step |-> step, op |-> Idle, found |-> NoDocument,
                vector |-> NewVectorClock, state |-> 0, stale |-> FALSE, crossed |-> {},
                overlapped |-> calls[Controller] # Idle]

Continue(g, step) == calls' = [calls EXCEPT ![g].step = step]
Finish(g) == calls' = [calls EXCEPT ![g] = Idle]

\* Mutant: networkID is not looked at.
NoCheck(g, from, to) ==
    /\ At(g, from)
    /\ Continue(g, to)
    /\ UNCHANGED <<ended, document, networkID, state, operationLog, mu, network, states, history>>

\* if dc.networkID != ""
CheckNetworkID(g, from, to) ==
    /\ At(g, from)
    /\ IF networkID THEN Continue(g, to) ELSE Finish(g)
    /\ UNCHANGED <<ended, document, networkID, state, operationLog, mu, network, states, history>>

\* dc.syncStates[dc.networkID] is not nil
HasState == networkID /\ syncState # 0

\* The process ends, and all its goroutines but g, which is remembered.
EndProcess(g, why) ==
    /\ ended' = why
    /\ calls' = [h \in Goroutines |-> IF h = g THEN [calls[g] EXCEPT !.step = "panicked"] ELSE Idle]
    /\ UNCHANGED <<document, networkID, state, operationLog, mu, network, states, history>>

\* g uses the sync state that is not there.
NilState(g) == ~ HasState /\ EndProcess(g, "nil")

\* The other goroutines' view of a document that g writes.
Overtaken(g, c) == [h \in Goroutines |->
    IF h # g /\ c[h] # Idle /\ c[h].step = "apply" THEN [c[h] EXCEPT !.stale = TRUE] ELSE c[h]]

\* Those between reading and writing the clock, when an increment or a merge of
\* another goroutine is stored.
Crossed(c, what) == [h \in Goroutines |->
    IF c[h] # Idle /\ c[h].step \in {"assign", "merge"}
    THEN [c[h] EXCEPT !.crossed = @ \cup {what}] ELSE c[h]]

Init ==
    /\ ended        = "no"
    /\ document     = NoDocument
    /\ networkID    = FALSE
    /\ syncState    = 0
    /\ localVector  = NewVectorClock
    /\ inProgress   = FALSE
    /\ timers       = 0
    /\ operationLog = <<>>
    /\ mu           = Idle
    /\ network      = NoNetwork
    /\ calls        = [g \in Goroutines |-> Idle]
    /\ states       = 0
    /\ history      = [done |-> 0, crossed |-> {}, applied |-> NewVectorClock,
                       mine |-> Idle, left |-> FALSE, writes |-> 0]

-----------------------------------------------------------------------------
(***************************************************************************)
(* Insert and Delete (what # NoDocument or not), with broadcastOperation.  *)
(***************************************************************************)
WriteLocal(g, what) ==
    /\ g \in Writers /\ Free(g) /\ history.writes < MaxWrites
    /\ document' = what
    /\ calls'    = Overtaken(g, [calls EXCEPT ![g] = Begin("stamp")])
    /\ history'  = [history EXCEPT !.mine = what, !.writes = @ + 1]
    /\ UNCHANGED <<ended, networkID, state, operationLog, mu, network, states>>

\* The three looks at networkID on the way to the lock and getCurrentVector, in
\* one step: a call that fails one of them has done nothing but look.
Stamp(g) ==
    /\ At(g, "stamp")
    /\ calls' = [calls EXCEPT ![g] = IF networkID
          THEN [@ EXCEPT !.step = "lock", !.state = syncState,
                         !.vector = IF HasState THEN localVector ELSE NewVectorClock]
          ELSE Idle]
    /\ UNCHANGED <<ended, document, networkID, state, operationLog, mu, network, states, history>>

pruneOperationLog(log) ==
    IF Len(log) > MaxLogSize
    THEN SubSeq(log, Len(log) - MaxLogSize + 1, Len(log)) ELSE log

\* Mutant: dc.mu is not locked.
LogWithoutLock(g) ==
    /\ At(g, "lock")
    /\ mu' = g
    /\ operationLog' = pruneOperationLog(Append(operationLog,
          [vector |-> calls[g].vector, by |-> g, state |-> calls[g].state]))
    /\ calls' = [calls EXCEPT ![g] = [Begin("count") EXCEPT !.overlapped = calls[g].overlapped]]
    /\ UNCHANGED <<ended, document, networkID, state, network, states, history>>

LockAndLog(g) ==
    /\ At(g, "lock") /\ mu = Idle
    /\ mu' = g
    /\ operationLog' = pruneOperationLog(Append(operationLog,
          [vector |-> calls[g].vector, by |-> g, state |-> calls[g].state]))
    /\ calls' = [calls EXCEPT ![g] = [Begin("count") EXCEPT !.overlapped = calls[g].overlapped]]
    /\ UNCHANGED <<ended, document, networkID, state, network, states, history>>

\* The caller of Insert recovers from the panic: dc.mu stays locked.
RecoverInLock(g) ==
    /\ At(g, "count") /\ ~ HasState
    /\ Continue(g, "panicked")
    /\ UNCHANGED <<ended, document, networkID, state, operationLog, mu, network, states, history>>

ReadClock(g, from, to) ==
    /\ At(g, from) /\ HasState
    /\ calls' = [calls EXCEPT ![g].step = to, ![g].state = syncState,
                              ![g].vector = localVector, ![g].crossed = {}]
    /\ UNCHANGED <<ended, document, networkID, state, operationLog, mu, network, states, history>>

\* Mutant: the incremented clock is not stored.
DropIncrement(g) ==
    /\ At(g, "assign")
    /\ mu' = Idle
    /\ Finish(g)
    /\ UNCHANGED <<ended, document, networkID, state, operationLog, network, states, history>>

\* The sync state that was read may not be the current one any more.
AssignIncrement(g) ==
    /\ At(g, "assign")
    /\ mu' = Idle
    /\ IF calls[g].state = syncState
       THEN /\ localVector' = Increment(calls[g].vector, Me)
            /\ calls'   = Crossed([calls EXCEPT ![g] = Idle], "increment")
            /\ history' = [history EXCEPT !.done = @ + 1,
                              !.crossed = @ \cup {c \in {"increment"} : "merge" \in calls[g].crossed}]
       ELSE Finish(g) /\ UNCHANGED <<localVector, history>>
    /\ UNCHANGED <<ended, document, networkID, syncState, inProgress, timers, operationLog,
                   network, states>>

-----------------------------------------------------------------------------
(***************************************************************************)
(* handleRemoteOperation, for an operation that was broadcast or that is   *)
(* in a sync response.                                                     *)
(***************************************************************************)
\* Nobody knows more of this process than it has issued.
FindExisting(g, op) ==
    /\ g \in Handlers /\ Free(g)
    /\ op.vector[Me] = 0 \/ op.vector[Me] < history.writes
    /\ calls' = [calls EXCEPT ![g] = [Begin("apply") EXCEPT !.op = op, !.found = document]]
    /\ UNCHANGED <<ended, document, networkID, state, operationLog, mu, network, states, history>>

Existing(found, op) == IF found = NoDocument THEN NoDocument
                       ELSE ToDistributed(found, op.peer, Now)

\* Mutant: an operation always has its way.
ResultOfOperation(found, op) ==
    IF op.type = "delete" THEN NoDocument ELSE op.data.payload

Result(found, op) ==
    LET result == ApplyOperation(Existing(found, op), op)
    IN  IF result = NoDocument THEN NoDocument
        ELSE IF result.deleted THEN NoDocument ELSE ToRegular(result)

\* Whether an operation that finds this document has its way.
HasItsWay(found, op) ==
    IF found = NoDocument THEN op.type # "delete" ELSE Applies(Existing(found, op), op)

WriteResult(g) ==
    /\ At(g, "apply")
    /\ LET c == calls[g]
       IN  /\ document' = Result(c.found, c.op)
           /\ calls'    = Overtaken(g, [calls EXCEPT ![g].step = "check_merge",
                                                     ![g].found = NoDocument, ![g].stale = FALSE])
           /\ history'  = [history EXCEPT
                 !.applied = Merge(@, c.op.vector),
                 !.mine    = IF c.stale \/ HasItsWay(c.found, c.op) THEN Idle ELSE @]
    /\ UNCHANGED <<ended, networkID, state, operationLog, mu, network, states>>

\* The end of handleRemoteOperation, for the last operation of a response or
\* for another one.
AfterOperation(c, last) ==
    IF last THEN [Begin("check_clear") EXCEPT !.overlapped = c.overlapped] ELSE Idle

CheckBeforeMerge(g, last) ==
    /\ At(g, "check_merge")
    /\ ~ (networkID /\ last)
    /\ calls' = [calls EXCEPT ![g] = IF networkID THEN [@ EXCEPT !.step = "read"]
                                     ELSE AfterOperation(@, last)]
    /\ UNCHANGED <<ended, document, networkID, state, operationLog, mu, network, states, history>>

\* Mutant: receiving an operation counts as an operation of its peer.
MergeAndCount(g, last) ==
    /\ At(g, "merge")
    /\ calls' = Crossed([calls EXCEPT ![g] = AfterOperation(@, last)], "merge")
    /\ localVector' = IF calls[g].state # syncState THEN localVector
          ELSE Increment(Merge(calls[g].vector, calls[g].op.vector), calls[g].op.peer)
    /\ history' = [history EXCEPT !.crossed = @ \cup calls[g].crossed]
    /\ UNCHANGED <<ended, document, networkID, syncState, inProgress, timers, operationLog,
                   mu, network, states>>

AssignMerge(g, last) ==
    /\ At(g, "merge")
    /\ LET done == [calls EXCEPT ![g] = AfterOperation(@, last)]
       IN  IF calls[g].state = syncState
           THEN /\ localVector' = Merge(calls[g].vector, calls[g].op.vector)
                /\ calls'   = Crossed(done, "merge")
                /\ history' = [history EXCEPT !.crossed = @ \cup calls[g].crossed]
           ELSE calls' = done /\ UNCHANGED <<localVector, history>>
    /\ UNCHANGED <<ended, document, networkID, syncState, inProgress, timers, operationLog,
                   mu, network, states>>

\* handleSyncResponse clears the flag when it is through.
ClearProgress(g) ==
    /\ At(g, "clear") /\ HasState
    /\ inProgress' = FALSE
    /\ Finish(g)
    /\ UNCHANGED <<ended, document, networkID, syncState, localVector, timers, operationLog,
                   mu, network, states, history>>

\* handleSyncRequest reads the sync state without any check.
SyncRequestUnattached ==
    /\ Running /\ ~ HasState
    /\ EndProcess(Idle, "sync_request")

-----------------------------------------------------------------------------
(***************************************************************************)
(* requestSync.                                                            *)
(***************************************************************************)
ForceSync(g) ==
    /\ g \in Syncers /\ Free(g)
    /\ calls' = [calls EXCEPT ![g] = Begin("check_sync")]
    /\ UNCHANGED <<ended, document, networkID, state, operationLog, mu, network, states, history>>

CheckProgress(g) ==
    /\ At(g, "check_progress") /\ HasState
    /\ calls' = [calls EXCEPT ![g] = IF inProgress THEN Idle
                    ELSE [@ EXCEPT !.step = "set_progress", !.state = syncState]]
    /\ UNCHANGED <<ended, document, networkID, state, operationLog, mu, network, states, history>>

\* Mutant: requestSync returns without having started the timer.
SetWithoutTimer(g) ==
    /\ At(g, "set_progress")
    /\ inProgress' = (inProgress \/ calls[g].state = syncState)
    /\ Finish(g)
    /\ UNCHANGED <<ended, document, networkID, syncState, localVector, timers, operationLog,
                   mu, network, states, history>>

SetProgress(g) ==
    /\ At(g, "set_progress")
    /\ inProgress' = (inProgress \/ calls[g].state = syncState)
    /\ Continue(g, "start_timer")
    /\ UNCHANGED <<ended, document, networkID, syncState, localVector, timers, operationLog,
                   mu, network, states, history>>

StartTimer(g) ==
    /\ At(g, "start_timer") /\ timers < MaxTimers
    /\ timers' = IF calls[g].state = syncState THEN timers + 1 ELSE timers
    /\ Finish(g)
    /\ UNCHANGED <<ended, document, networkID, syncState, localVector, inProgress, operationLog,
                   mu, network, states, history>>

ClearFlagAfterTimeout ==
    /\ Running /\ timers > 0
    /\ timers'     = timers - 1
    /\ inProgress' = FALSE
    /\ UNCHANGED <<ended, document, networkID, syncState, localVector, operationLog, mu,
                   network, calls, states, history>>

-----------------------------------------------------------------------------
(***************************************************************************)
(* AttachToNetwork and DetachFromNetwork.                                  *)
(***************************************************************************)
\* The other calls under way when the controller begins one at step.
BeginControl(step) ==
    [g \in Goroutines |->
        IF g = Controller THEN Begin(step)
        ELSE IF calls[g] = Idle THEN Idle ELSE [calls[g] EXCEPT !.overlapped = TRUE]]

\* The check of networkID, and AddCollectionToNetwork's lookup of the network.
AttachToNetwork ==
    /\ Free(Controller) /\ ~ networkID /\ states < MaxStates
    /\ network.there
    /\ calls'   = BeginControl("add")
    /\ history' = [history EXCEPT !.left = FALSE]
    /\ UNCHANGED <<ended, document, networkID, state, operationLog, mu, network, states>>

\* The network that was looked up gets the collection, the one that is there
\* now the number of its collections.
AddCollection ==
    /\ At(Controller, "add")
    /\ network' = IF ~ network.there THEN network
                  ELSE [network EXCEPT !.listed = @ \/ ~ calls[Controller].stale, !.shared = 1]
    /\ calls' = [calls EXCEPT ![Controller].step = "set_id", ![Controller].stale = FALSE]
    /\ UNCHANGED <<ended, document, networkID, state, operationLog, mu, states, history>>

SetNetworkID ==
    /\ At(Controller, "set_id")
    /\ networkID' = TRUE
    /\ Continue(Controller, "new_state")
    /\ UNCHANGED <<ended, document, state, operationLog, mu, network, states, history>>

\* The next thing is requestSync.
NewSyncState ==
    /\ At(Controller, "new_state")
    /\ states'      = states + 1
    /\ syncState'   = states + 1
    /\ localVector' = NewVectorClock
    /\ inProgress'  = FALSE
    /\ timers'      = 0
    /\ history'     = [history EXCEPT !.done = 0, !.crossed = {}]
    /\ Continue(Controller, "check_sync")
    /\ UNCHANGED <<ended, document, networkID, operationLog, mu, network>>

\* Mutant: the network keeps the collection.
DetachAlone ==
    /\ Free(Controller) /\ networkID
    /\ calls' = BeginControl("drop")
    /\ UNCHANGED <<ended, document, networkID, state, operationLog, mu, network, states, history>>

\* The check of networkID, and RemoveCollectionFromNetwork.
DetachFromNetwork ==
    /\ Free(Controller) /\ networkID
    /\ network' = IF network.there THEN [NoNetwork EXCEPT !.there = TRUE] ELSE network
    /\ calls'   = BeginControl("drop")
    /\ UNCHANGED <<ended, document, networkID, state, operationLog, mu, states, history>>

DeleteSyncState ==
    /\ At(Controller, "drop")
    /\ syncState'   = 0
    /\ localVector' = NewVectorClock
    /\ inProgress'  = FALSE
    /\ timers'      = 0
    /\ Continue(Controller, "clear_id")
    /\ UNCHANGED <<ended, document, networkID, operationLog, mu, network, states, history>>

ClearNetworkID ==
    /\ At(Controller, "clear_id")
    /\ networkID' = FALSE
    /\ Finish(Controller)
    /\ UNCHANGED <<ended, document, state, operationLog, mu, network, states, history>>

-----------------------------------------------------------------------------
(***************************************************************************)
(* The network manager's networks, as long as it is not shut down.         *)
(***************************************************************************)
\* CreateNetwork, or the same in JoinNetwork: a network there is stays.
CreateNetwork ==
    /\ Running /\ ~ network.there
    /\ network' = [NoNetwork EXCEPT !.there = TRUE]
    /\ UNCHANGED <<ended, document, networkID, state, operationLog, mu, calls, states, history>>

LeaveNetwork ==
    /\ Running /\ network.there
    /\ network' = NoNetwork
    /\ history' = [history EXCEPT !.left = TRUE]
    /\ calls'   = IF At(Controller, "add") THEN [calls EXCEPT ![Controller].stale = TRUE] ELSE calls
    /\ UNCHANGED <<ended, document, networkID, state, operationLog, mu, states>>

-----------------------------------------------------------------------------
\* Somebody is about to write a map that somebody else is about to read: the
\* clock, or syncStates.
ConcurrentMapAccess ==
    /\ Running
    /\ \/ \E g, h \in Goroutines : At(g, "assign") /\ (At(h, "stamp") \/ At(h, "merge"))
       \/ /\ At(Controller, "new_state") \/ At(Controller, "drop")
          /\ \E g \in Goroutines : \E step \in {"stamp", "count", "read", "clear", "check_progress"} :
                At(g, step)
    /\ EndProcess(Idle, "map")

UsesNilState(g) ==
    /\ \E step \in {"count", "read", "clear", "check_progress"} : At(g, step)
    /\ NilState(g)

\* The steps of a call under way.
GoroutineStep(g) ==
    \/ Stamp(g) \/ ReadClock(g, "count", "assign") \/ AssignIncrement(g) \/ RecoverInLock(g)
    \/ WriteResult(g) \/ ReadClock(g, "read", "merge")
    \/ \E last \in BOOLEAN : CheckBeforeMerge(g, last) \/ AssignMerge(g, last)
    \/ CheckNetworkID(g, "check_clear", "clear") \/ ClearProgress(g)
    \/ CheckNetworkID(g, "check_sync", "check_progress")
    \/ CheckProgress(g) \/ SetProgress(g) \/ StartTimer(g)
    \/ UsesNilState(g)

ControllerStep == AddCollection \/ SetNetworkID \/ NewSyncState \/ DeleteSyncState \/ ClearNetworkID

Next ==
    \/ \E g \in Goroutines :
          \/ \E what \in Docs \cup {NoDocument} : WriteLocal(g, what)
          \/ \E op \in Incoming : FindExisting(g, op)
          \/ ForceSync(g) \/ LockAndLog(g) \/ GoroutineStep(g)
    \/ AttachToNetwork \/ DetachFromNetwork \/ ControllerStep
    \/ CreateNetwork \/ LeaveNetwork
    \/ ClearFlagAfterTimeout \/ SyncRequestUnattached \/ ConcurrentMapAccess

Spec == Init /\ [][Next]_vars

-----------------------------------------------------------------------------
(***************************************************************************)
(* Properties.                                                             *)
(***************************************************************************)
TypeOK ==
    /\ ended        \in {"no", "nil", "sync_request", "map"}
    /\ document     \in Payload \cup {NoDocument}
    /\ networkID    \in BOOLEAN
    /\ syncState    \in 0 .. MaxStates
    /\ localVector  \in Clock
    /\ inProgress   \in BOOLEAN
    /\ timers       \in 0 .. MaxTimers
    /\ operationLog \in Seq(Logged) /\ Len(operationLog) <= MaxLogSize
    /\ mu           \in Writers \cup {Idle}
    /\ network      \in Network
    /\ calls        \in [Goroutines -> Call \cup {Idle}]
    /\ states       \in 0 .. MaxStates
    /\ history      \in History

(***************************************************************************)
(* The writers' increments all count: under one sync state the collection's*)
(* own counter is at least the operations that were counted, unless an     *)
(* increment and a merge, which does not take dc.mu, crossed.              *)
(***************************************************************************)
IncrementsAreKept ==
    syncState # 0 /\ "increment" \notin history.crossed => history.done <= localVector[Me]

(***************************************************************************)
(* The operations one goroutine issues under one sync state carry stamps   *)
(* that increase in their own entry, unless an increment crossed a merge,  *)
(* or a merge another one that knows more of this process (after it was    *)
(* attached again).  (Two goroutines may well issue the same stamp.)       *)
(***************************************************************************)
WriterStampsIncrease ==
    history.crossed = {} =>
        \A i, j \in DOMAIN operationLog :
            LET a == operationLog[i]
                b == operationLog[j]
            IN  i < j /\ a.by = b.by /\ a.state = b.state /\ a.state = syncState /\ syncState # 0
                    => a.vector[Me] < b.vector[Me]

(***************************************************************************)
(* The clock never claims to know operations of another peer whose effect  *)
(* is not on the disk yet: whatever handlers are halfway, no sync asks to  *)
(* be spared an operation that would be lost if the process ended here.    *)
(***************************************************************************)
ClockFollowsDisk == \A q \in Peers \ {Me} : localVector[q] <= history.applied[q]

(***************************************************************************)
(* What a client wrote stays until a client writes again, an operation has *)
(* its way over it, or a handler writes that found the document before the *)
(* client wrote it.                                                        *)
(***************************************************************************)
OwnWriteStays == history.mine # Idle => document = history.mine

(***************************************************************************)
(* A sync that is marked as running has a timer that clears the mark, or   *)
(* a goroutine about to start one, also when several goroutines saw the    *)
(* mark clear and set it.                                                  *)
(***************************************************************************)
MarkHasTimer ==
    Running /\ inProgress =>
        \/ timers > 0
        \/ \E g \in Goroutines : At(g, "start_timer") /\ calls[g].state = syncState

(***************************************************************************)
(* A collection is attached when and only when its network lists and       *)
(* counts it, between two calls of the controller, unless the network was  *)
(* left since the collection began to be attached.                         *)
(***************************************************************************)
ListedIffAttached ==
    Free(Controller) /\ ~ history.left =>
        /\ network.listed = networkID
        /\ network.shared = IF network.listed THEN 1 ELSE 0

(***************************************************************************)
(* Using a collection ends no process and jams no lock, unless the         *)
(* collection is being attached or detached during that very call: dc.mu   *)
(* is held by a writer that will give it back, or that overlapped.         *)
(***************************************************************************)
OnlyOverlapsPanic ==
    /\ \A g \in Goroutines :
          calls[g] # Idle /\ calls[g].step = "panicked" => calls[g].overlapped
    /\ Running /\ mu # Idle => \/ At(mu, "count") \/ At(mu, "assign")
                               \/ At(mu, "panicked") /\ calls[mu].overlapped
=============================================================================
