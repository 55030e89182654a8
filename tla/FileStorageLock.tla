-------------------------- MODULE FileStorageLock --------------------------
(***************************************************************************)
(* internal/storage/storage.go: how the operations of a FileStorage share  *)
(* its lock mu, a sync.RWMutex.  What they do to files and indexes is in   *)
(* IndexedStorage; here they only take and release the lock.               *)
(*                                                                         *)
(* A goroutine calls one operation after the other.  The lock is Go's:     *)
(* Lock first announces the writer, which keeps new readers out, and then  *)
(* waits for the readers there are; Unlock lets in every reader that waits *)
(* before another writer can be announced.  It knows no owner: a goroutine *)
(* that asks for a lock it already holds waits like any other.             *)
(***************************************************************************)
EXTENDS Naturals

CONSTANTS Goroutines,
          NoOne,          \* no goroutine
          Calls,          \* the operations that are called
          MaxFiles        \* bound of the model: files in a collection

Reads  == {"Find", "FindAll"}
Writes == {"Insert", "Delete", "Update"}

ASSUME LockAssumption == /\ NoOne \notin Goroutines
                         /\ Calls \subseteq Reads \cup Writes
                         /\ MaxFiles \in Nat

VARIABLES call,       \* the operation a goroutine is in
          pc,         \* where it is
          readLocks,  \* how many read locks it holds
          filesLeft,  \* documents its FindAll has still to Find
          writer      \* who is announced, and holds the lock once no reader does

lockVars == <<call, pc, readLocks, filesLeft, writer>>

LockInit ==
    /\ call      = [g \in Goroutines |-> "Find"]
    /\ pc        = [g \in Goroutines |-> "idle"]
    /\ readLocks = [g \in Goroutines |-> 0]
    /\ filesLeft = [g \in Goroutines |-> 0]
    /\ writer    = NoOne

Goto(g, place) == pc' = [pc EXCEPT ![g] = place]

\* Mutant: Delete is content with a read lock.
CallDeleteReads(g, c) ==
    /\ pc[g] = "idle"
    /\ call' = [call EXCEPT ![g] = c]
    /\ \E n \in 0 .. MaxFiles : filesLeft' = [filesLeft EXCEPT ![g] = IF c = "FindAll" THEN n ELSE 0]
    /\ Goto(g, IF c \in Writes \ {"Delete"} THEN "lock" ELSE "rlock")
    /\ UNCHANGED <<readLocks, writer>>

\* An operation begins: writes ask for the lock, reads for a read lock.
Call(g, c) ==
    /\ pc[g] = "idle"
    /\ call' = [call EXCEPT ![g] = c]
    /\ \E n \in 0 .. MaxFiles : filesLeft' = [filesLeft EXCEPT ![g] = IF c = "FindAll" THEN n ELSE 0]
    /\ Goto(g, IF c \in Writes THEN "lock" ELSE "rlock")
    /\ UNCHANGED <<readLocks, writer>>

\* Mutant: a lock that prefers readers announces nobody while there are some.
AnnounceAfterReaders(g) ==
    /\ pc[g] = "lock" /\ writer = NoOne
    /\ \A h \in Goroutines : readLocks[h] = 0
    /\ writer' = g
    /\ Goto(g, "drain")
    /\ UNCHANGED <<call, readLocks, filesLeft>>

Announce(g) ==
    /\ pc[g] = "lock" /\ writer = NoOne
    /\ writer' = g
    /\ Goto(g, "drain")
    /\ UNCHANGED <<call, readLocks, filesLeft>>

Lock(g) ==
    /\ pc[g] = "drain"
    /\ \A h \in Goroutines : readLocks[h] = 0
    /\ Goto(g, "writing")
    /\ UNCHANGED <<call, readLocks, filesLeft, writer>>

\* The end of an Insert or a Delete; the readers that wait are let in.
Unlock(g) ==
    /\ pc[g] = "writing" /\ call[g] # "Update"
    /\ pc' = [h \in Goroutines |-> IF h = g THEN "idle"
                                   ELSE IF pc[h] = "rlock" THEN "reading" ELSE pc[h]]
    /\ readLocks' = [h \in Goroutines |-> readLocks[h] + (IF pc[h] = "rlock" THEN 1 ELSE 0)]
    /\ writer' = NoOne
    /\ UNCHANGED <<call, filesLeft>>

\* Update holds the lock and calls Find.
FindInUpdate(g) ==
    /\ pc[g] = "writing" /\ call[g] = "Update"
    /\ Goto(g, "rlock")
    /\ UNCHANGED <<call, readLocks, filesLeft, writer>>

RLock(g) ==
    /\ pc[g] = "rlock" /\ writer = NoOne
    /\ readLocks' = [readLocks EXCEPT ![g] = @ + 1]
    /\ Goto(g, "reading")
    /\ UNCHANGED <<call, filesLeft, writer>>

\* FindAll holds a read lock and calls Find for its next file.
FindInFindAll(g) ==
    /\ pc[g] = "reading" /\ readLocks[g] = 1 /\ filesLeft[g] > 0
    /\ filesLeft' = [filesLeft EXCEPT ![g] = @ - 1]
    /\ Goto(g, "rlock")
    /\ UNCHANGED <<call, readLocks, writer>>

\* The end of a Find, in a FindAll or not, or of a FindAll.
RUnlock(g) ==
    /\ pc[g] = "reading"
    /\ readLocks[g] = 1 => filesLeft[g] = 0
    /\ readLocks' = [readLocks EXCEPT ![g] = @ - 1]
    /\ Goto(g, IF readLocks[g] = 1 THEN "idle" ELSE "reading")
    /\ UNCHANGED <<call, filesLeft, writer>>

Proceed(g) == \/ Lock(g) \/ Unlock(g) \/ FindInUpdate(g)
              \/ RLock(g) \/ FindInFindAll(g) \/ RUnlock(g)

LockNext == \E g \in Goroutines :
            \/ \E c \in Calls : Call(g, c)
            \/ Announce(g)
            \/ Proceed(g)

LockSpec == LockInit /\ [][LockNext]_lockVars

(***************************************************************************)
(* Goroutines run, and sync.Mutex (in which writers queue up before they   *)
(* are announced) hands itself over to a goroutine that has waited for a   *)
(* millisecond: nobody is passed over for ever.                            *)
(***************************************************************************)
FairLockSpec == LockSpec /\ \A g \in Goroutines : WF_lockVars(Proceed(g)) /\ SF_lockVars(Announce(g))

-----------------------------------------------------------------------------
LockTypeOK ==
    /\ call      \in [Goroutines -> Reads \cup Writes]
    /\ pc        \in [Goroutines -> {"idle", "lock", "drain", "writing", "rlock", "reading"}]
    /\ readLocks \in [Goroutines -> Nat]
    /\ filesLeft \in [Goroutines -> Nat]
    /\ writer    \in Goroutines \cup {NoOne}

\* Goroutine g is between taking the lock and releasing it.
InBody(g) == readLocks[g] > 0 \/ (writer = g /\ pc[g] # "drain")

(***************************************************************************)
(* A write of the storage runs alone, whatever the others do; only reads   *)
(* overlap.                                                                *)
(***************************************************************************)
WritesRunAlone ==
    \A g, h \in Goroutines :
        g # h /\ InBody(g) /\ InBody(h) => {call[g], call[h]} \subseteq Reads

\* A goroutine waits for a read lock in an operation that keeps others from
\* ever letting it in.
WaitsForItself(g) ==
    /\ pc[g] = "rlock"
    /\ \/ call[g] = "Update" /\ writer = g
       \/ call[g] = "FindAll" /\ readLocks[g] > 0 /\ writer # NoOne

(***************************************************************************)
(* Every operation returns, unless an Update calls Find, or a FindAll does *)
(* with a writer announced: nothing else stops the storage.                *)
(***************************************************************************)
OnlyNestedReadsStop ==
    \A g \in Goroutines :
        pc[g] # "idle" ~> pc[g] = "idle" \/ \E h \in Goroutines : WaitsForItself(h)
=============================================================================
