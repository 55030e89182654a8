# KnirvBase in TLA+

Specifications of the Go implementation of KnirvBase (`src/go`): a document
database that keeps each collection as files in a directory, with indexes in
memory, and replicates collections between peers by broadcasting CRDT
operations. TLC checks small instances of the modules; TLAPS proves the
theorems listed below for every value of the constants. The Rust and TypeScript
directories of the repository are documents only.

## 1. The system

| Part | Source (`src/go/internal`) | State | Operations |
|---|---|---|---|
| vector clocks | `clock/vector_clock.go` | none (values) | `Increment`, `Merge`, `Compare`, `HappensBefore` |
| CRDT resolver | `resolver/crdt_resolver.go` | none (values) | `ApplyOperation`, `ToDistributed`, `ToRegular`; `ResolveConflict`, `mergeDocuments`, which nothing calls |
| distributed collection | `collection/distributed_collection.go` | `networkID`, sync state (`LocalVector`, `SyncInProgress`), `operationLog` | local `Insert`/`Update`/`Delete`, attach, detach, `ForceSync`, three message handlers, the timer of a sync |
| file storage | `storage/storage.go` | a file per document; the lock `mu` | `Insert`, `Update`, `Delete`, `Find`, `FindAll` |
| index manager | `storage/index.go` | indexes in memory, a metadata file for each | create, drop, load, maintain, query |
| network manager | `network/network_manager.go` | listener, connection table; networks, their collections, statistics; handlers | `Initialize`, create/join/leave, dial, accept, broadcast, send, `Shutdown` |
| distributed database, public API, command | `database/`, `pkg/`, `cmd/` | a map of collections | delegation |
| query language and optimizer | `query/` | none | parse, plan (`Optimize`), execute |
| encryption at rest | `crypto/pqc/` | master key, key cache | seal and open fields of documents, key life cycle |

How they interact. The public API creates one storage, one network manager and
collections that share both. A local write goes to the storage (which takes its
lock, writes the file and then updates indexes), is then stamped with the
collection's clock, logged and handed to the network manager, which starts one
goroutine per connection to write it. Incoming lines are handed to handlers in
goroutines of their own; a handler of a collection reads the stored document,
applies the operation and writes the document back, then merges the clock. A
sync request is a broadcast of the requester's clock, answered from the
answerer's operation log. A query is parsed, planned from the indexes there are at
that moment, and executed on a collection's storage and, if the plan says so,
through an index, whose own slice of document IDs it is given. The storage seals
and opens the sensitive fields of documents with whatever key the encryption
manager has when it asks.

What is hard about it:

* concurrency: every message, timer and connection has a goroutine; handlers do
  not take the collection's lock, so that clock, sync state and network are read
  and written in pieces; the storage's lock is taken recursively; a query reads a
  slice that a delete shifts in place; keys are replaced while documents are
  being sealed;
* ordering: neither operations nor sync responses arrive in the order they were
  issued; a timer of an old sync may fire during a new one;
* failure: connections fail, processes are killed in the middle of writing a
  file and come back with a new peer ID, empty clocks and empty indexes;
* bounds: the operation log is pruned; a line of more than 64 kB ends the
  connection.

What makes each part correct, as far as a property below says it: clocks are the
causal order and its joins; resolution does not depend on whose version is
local; nobody knows more of a peer's operations than the peer; the log holds the
latest operations, and a sync sends a run of them; every sync ends; documents
written one way converge; inside a process, increments and local writes are not
lost but where the code really lets them, and what a clock claims is on disk;
writes of the storage run alone; a stored document is found through the indexes
that cover it; sensitive fields are sealed once, alike, and never in the clear
once there is a key; a query is what its text says and its plan keeps every
filter; a scan loses nothing that stands firm under it; a broadcast is handled at
most once by each peer, and arrives unless its connection ends. `PROJECT.json`
lists the hazards behind these, line by line.

## 2. The modules

`VectorClock` - the clock functions. A Go map whose missing keys read as 0 is a
total function to naturals. `Clone` is the identity on values. Counters do not
wrap (2^63 local operations).

`CRDTResolver` - documents and `ApplyOperation`. A payload maps fields to values
or `Absent`; nested maps and the copying of maps are left out. `ToDistributed`
gives every stored document the vector `{op.PeerID: 1}`, because the disk keeps
the payload only: this is what decides whether an operation is applied.

`ConflictResolution` - `ResolveConflict` and `mergeDocuments`, and the laws of
both resolution and clocks. A state is a pair of versions, a step swaps them.

`Replication` - a collection at each of several processes, and the network
between them. One variable per field of the code: `attached` is `networkID # ""`,
`localVector` and `syncInProgress` the sync state, `operationLog`, `store` the
documents on disk. `proc` and `Restart` are processes: a restarted one is a new
peer on an old disk. `wedged` says that an `Update` has stopped the storage (see
`FileStorageLock`). `timers` counts the sleeping goroutines of `requestSync`
that belong to the current sync state; `handlers` are goroutines in the loop of
`handleSyncResponse`, one step per operation. Everything else a handler does is
one step. `net` is a set of messages without order or duplicates, from which
messages may be lost: that the network manager is no worse is what `Connections`
shows. Who may write, delete, crash, detach or call `Update` is given by
constants, so that each instance contains the case it is about.

`ReplicationHistory` - `Replication` with a record of operations that were
handled and of what clients wrote, for the properties that speak about them.

`CollectionThreads` - the same collection from inside one process: writers, a
handler (of operations, and of syncs), timers, and the goroutine that attaches
and detaches. Each handler runs in the steps between which others can come in:
`broadcastOperation` stamps, takes `dc.mu`, reads the clock and assigns it;
`handleRemoteOperation` finds, writes, checks `networkID`, reads the clock and
merges; `requestSync` checks, checks and sets `SyncInProgress`, starts a timer.
There is one document, since handlers of different documents meet in the clock
alone. `network` is the network manager's entry, which `AddCollectionToNetwork`
reaches in two critical sections, with `LeaveNetwork` between them. `ended` says
why the process ended: a nil sync state in a handler, a sync request for an
unattached collection, or the runtime noticing a map that is read while it is
written. The three looks at `networkID` that a writer takes before `dc.mu` are
one (`Stamp`), since nothing else is read in between. Only the
controller attaches and detaches, one call after the other. `calls[g].crossed`,
`overlapped` and `history` are history: `crossed` is the set of what has come
between a merge's reading of the clock and its assignment, an increment or another
merge.

`FileStorageLock` - goroutines that call the storage, and its `sync.RWMutex`: a
writer that has been announced keeps new readers out, `Unlock` admits the waiting
readers, and a goroutine that asks twice waits like any other.

`IndexedStorage` - files and indexes of one collection. Insert and Delete run
one at a time (`FileStorageLock`), each file or index being a step, between which
indexes come and go, since the index manager has a lock of its own, and the
process may end. A document has fields and payload fields with one-word values,
and a vector; keys of btree indexes come from the fields only, tokens of gin
indexes from both. `covered` is a history variable. No blob goes to a file of its
own: `Insert` looks at a copy that has been through JSON, in which `entryType`
has no longer the type it asserts.

`EncryptedStorage` - the sensitive fields of documents, as `FileStorage` and its
`EncryptionManager` treat them. A field is the sequence of seals on it, the
outermost first; a seal has the name it was made under and the key that made it,
which may differ, because the master key is read once for its ID and once to be
used, without the lock. Sealing or opening a field is two steps, in between which
keys are set, cached, dropped or expire. `Rewrite` is the handler of a remote
operation: a `Find` and, later, an `Insert`. `raced`, `crossed` and `disturbed`
are history: they say which coincidence a document or call has met.

`KNIRVQL` - the parser, as a function from a sequence of tokens (what
`strings.Fields` gives) to a query, "invalid" or "panics". Of a token it matters
what it is cut into further. Quotes and number formats are left out.
`QueryOptimizer` - `Optimize`: the candidate indexes, their order by estimated
cost (ties in any order: the sort is unstable and starts from a map), and the
split of the filters. Statistics are the defaults, since nothing calls
`UpdateStats`. `QueryTexts` - a client types a text token by token; every text is
parsed and planned, with every set of indexes there may be.

`QueryExecution` - statements on one collection, over `IndexedStorage`, whose
actions it composes with a `GET` that runs in steps: look up indexes and plan, ask
the index, read one ID after the other (`NextID`) and get its document (`Fetch`,
which waits for the storage's lock), answer. What the index gives out is its
own slice, so that `DeleteFromIndex` moves what the scan has still to read
(`IndexMoves`), and an answer of IDs alone keeps moving in the hands of the caller
(`executeIndexOnlyScan`). An operation that looked up an index before it was
dropped still writes to the slice (`Late`). Filters look at a document's payload, index keys at its
fields, as in the code. Filters compare with `=` and `!=` only. The order in which
`FindAll` finds files is any. `asked`, `since` and `dropped` are history.

`Connections` - the TCP connections between network managers: dialling, the
handshake in both directions, registering, reading, broadcasting, `Shutdown`
and `Initialize`. `wire[e]` is the stream to an end, in order. Connections are
named by who dials whom, once per pair. `Delivery` is the abstract specification:
a message is sent once, to some processes, and each receives it once or never.
`Connections!ImplementsDelivery` is the refinement: copies in flight are those
of the goroutines that have still to write and of the lines not yet read.

The `MC*` modules give constants that a cfg cannot write. Operators commented
"Mutant" are deliberate defects, used by nothing in the specification; each
property is shown to fail when the named definition is replaced by one of them.
The type invariants of `CollectionThreads`, `EncryptedStorage` and `Connections`
document the types; they are proved, as parts of the inductive invariants of section
4, as is that of a `GET` (`GetTyped` in `QueryProofs`).

## 3. The runs

| Run | Shows | Bounds |
|---|---|---|
| `laws` | clock and resolution laws | all pairs of versions of 2 peers, counters to 2, timestamps to 1, deleted or not |
| `writer` | types, `LogMatchesClock`, `ResponseHasNoGaps`, `ClockMonotone` | 2 peers, 4 operations, a log of 3, 2 messages in flight |
| `comings_and_goings` | what survives restarts, detaching, a blocked storage and a third peer: `OwnCounterIsMax`, `FlagHasTimer`, `WriteOnceConverges`, `SyncEnds` | 3 peers, 2 operations per attachment, a log of 2, 2 timers, 1 message in flight besides those that handlers hold |
| `threads` | what survives when the goroutines of one process interleave: `IncrementsAreKept`, `WriterStampsIncrease`, `ClockFollowsDisk`, `OwnWriteStays`, `MarkHasTimer`, `ListedIffAttached`, `OnlyOverlapsPanic` | 2 writers, 1 handler and syncer, 1 controller; 2 local writes, 1 sync state, 1 timer, a log of 2 |
| `storage_lock` | `WritesRunAlone`, `OnlyNestedReadsStop` | 3 goroutines, all operations, 2 files |
| `indexes` | `CoveredIsFound`, `UniqueIndexNamesOne`, `NoGhostVectors` | 2 documents, 3 indexes of the 3 kinds, 3 entries per key |
| `keys` | `SealedAlike`, `KeySetMeansSealed`, `SealedOnce`, `FindIsExact` | a client and a handler, 1 document of 2 sensitive fields, 2 keys of which one is cached and expires, at most 2 seals |
| `texts` | `OnlyShortDeletesPanic`, `FiltersReadInOrder`, `QueryIsTheText`, `PlanKeepsFilters`, `BestIndexTakesMost` | 13 beginnings, 4 more tokens out of 13, all 16 subsets of 4 indexes |
| `queries` | `ScanIsComplete`, `FailuresAreNameless` | 2 documents, one of which clients may delete, 2 indexes, 1 GET at a time, 2 entries per key |
| `connections` | `HelloComesFirst`, `ImplementsDelivery`, `HandshakesEnd`, `BroadcastsArrive` | 2 processes that dial each other, 2 messages, one of them too long |
| `same_operations` | violated: `SameOperationsSameDocuments` | 2 peers, 2 operations |
| `sync_misses` | violated: `SyncFindsMissing` | 2 peers, no losses |

Why these are enough. A log of three entries is the smallest that is pruned and
can show a gap between two others; four operations prune it, and the first one
(stamped 0) leaves three that a sync can send. Two peers have every order of two
messages; the third is there for knowledge that passes through somebody else, and
to be the restarted process. In `threads` two writers can cross each other and a
handler, which takes the part of the syncer too; one sync state is replaced by
none, which is what the code forgets to check. Two connections between two processes are the
smallest case in which a table entry is replaced. Three goroutines are a reader,
a writer and one that comes in between. Two documents with equal keys and one
with a repeated word are what unique and inverted indexes can confuse. Two
fields are what a key set halfway can set apart, and two seals a field sealed
twice. Four tokens after `WHERE` are a filter and the beginning of whatever the
loop may be shifted by. A slice of two is the shortest in which one element moves
into the place of another while a scan stands between them.
`MaxCounter`, `MaxTimers`, `MaxNet` (Replication), `MaxWrites`, `MaxStates`,
`MaxTimers` (CollectionThreads), `MaxEntries` (IndexedStorage), `MaxSeals`
(EncryptedStorage), `MaxTokens` (QueryTexts) and `MaxFiles` (FileStorageLock) are
bounds of the model and not of the code; `MaxLogSize` is the code's `maxLogSize`,
10000 there. `queries` has a `VIEW` without `covered`, a history variable that
none of its actions reads and none of its properties mentions; `writer` has one
without the history of `ReplicationHistory`, for the same reason; that of `threads`
forgets the network's entry once it was left and the collection cannot be attached
again, when only the entry itself still depends on it. In `comings_and_goings`
messages overtake each other in handlers only; in `writer`, in flight too. The symmetries
exchange documents, keys' holders or writers that the definitions treat alike.

Deadlock is checked for `laws`, `indexes`, `keys` and `queries`. The others may
really stop: replication when its bounded clients are done or all processes are
down, a process in `threads` when it has ended or its bounded writers are done, the
storage when an `Update` or `FindAll` waits for itself, connections when every
dial and message has been used, a text when it is typed.

Fairness. `SyncEnds` assumes only that a goroutine that sleeps wakes up. The lock
assumes that goroutines run (weak fairness of each step) and that no writer is
passed over for ever by other writers (strong fairness of `Announce`): Go's
`sync.Mutex`, which orders writers, hands itself over to a waiter after a
millisecond. `Connections` assumes that goroutines run and TCP carries what is
written on a connection that does not fail; failing (`Reset`), shutting down,
dialling and broadcasting are not fair. The other modules state safety only.

### What the code does not do

Two runs find that the code does not do what the repository says of it:

* `same_operations` - replicas that applied the same operations differ, because
  an operation's stamp is compared with `{op.PeerID: 1}`, whatever was stored.
* `sync_misses` - the first operation of an attachment, stamped 0, is never found
  missing.

Many properties say what the code does keep by naming what it does not. What one
reads off them, and off the models:

* Replication. Writes before attaching are never sent. A delete stamped `{p: 1}` is
  ignored where the insert was applied, and a late insert brings a deleted document
  back (no tombstone is stored). `mergeDocuments` keeps only the winner's timestamp,
  so three versions resolve differently in different groupings.
* Inside a process (`threads`). A sync request for a collection that is not attached
  dereferences a nil sync state outside of the network manager's `recover`: the
  process ends. A write while the collection is being attached or detached does so
  with `dc.mu` held, for ever if the caller recovers (`OnlyOverlapsPanic`). An
  increment that crosses a merge is lost, or the runtime ends the process
  (`IncrementsAreKept`). Two goroutines can issue one stamp, and one goroutine can
  issue a stamp twice after two merges have crossed (`WriterStampsIncrease`). A client's write is undone by a handler that found the
  document before it (`OwnWriteStays`). Leaving a network while a collection joins
  it leaves the collection attached to nothing (`ListedIffAttached`).
* Storage. `Update` waits for itself and stops the storage; so does `FindAll` when a
  writer is announced between two files; nothing else does (`OnlyNestedReadsStop`).
  `os.WriteFile` truncates a stored document before it writes the new version: a
  crash in between leaves neither.
* Indexes. One occurrence per key is removed from a btree or gin index, so a document
  inserted twice outlives its deletion there. A unique index refuses a document
  silently, after its file has been written; a unique gin index refuses nothing.
* Keys. A master key set in the middle of a sealing makes fields that name one key
  and are sealed with another: nobody can open them (`SealedAlike`). A document
  read before there was a key and written back after is sealed twice
  (`SealedOnce`). A document that cannot be opened counts as missing for a remote
  operation, which replaces it, and `FindAll` leaves it out.
* Queries. A `DELETE` cut short ends the process (`OnlyShortDeletesPanic`). A
  `LIMIT` after `SIMILAR TO` is ignored, and so is the vector; a vector with
  spaces is cut; `CREATE INDEX ... WHERE` has no effect; `where` in small letters
  drops the filters. A `GET` that an index could answer fails unless the index is
  named like its collection (`FailuresAreNameless`). Only the first filter an index
  takes is looked up, its operator ignored; the filter goes unchecked
  afterwards. A gin lookup finds nothing. A deletion makes a scan that stands in the
  same slice skip a document or read one twice (`ScanIsComplete`).
* Network. After `Shutdown`, `Initialize` opens a listener that accepts nothing
  (`Deaf`), and a handshake under way during `Shutdown` still registers its
  connection.

## 4. The proofs

| Theorem | Module | Says |
|---|---|---|
| `TypeInvariant` | `ReplicationProofs` | all reachable states are well typed, no log exceeds `maxLogSize` |
| `NobodyKnowsBetter` | `ReplicationProofs` | `OwnCounterIsMax` |
| `LogsFollowClocks` | `ReplicationProofs` | `LogMatchesClock` |
| `ResponsesAreConsecutive` | `ReplicationProofs` | `ResponseHasNoGaps` |
| `ClocksGrow` | `ReplicationProofs` | `ClockMonotone` |
| `EverySyncHasATimer` | `ReplicationProofs` | `FlagHasTimer` |
| `HistoryIsReplication` | `ReplicationProofs` | `HistorySpec => Spec`: recording adds no behaviour |
| `WrittenOnceConverges` | `ReplicationProofs` | `WriteOnceConverges` |
| `ThreadsTypeInvariant` | `CollectionThreadsProofs` | `TypeOK` of `CollectionThreads` |
| `NoIncrementIsLost`, `StampsIncrease` | `CollectionThreadsProofs` | `IncrementsAreKept`, `WriterStampsIncrease` |
| `ClockIsBehindDisk`, `ClientsWriteStays` | `CollectionThreadsProofs` | `ClockFollowsDisk`, `OwnWriteStays` |
| `MarkIsCleared`, `AttachedIsListed` | `CollectionThreadsProofs` | `MarkHasTimer`, `ListedIffAttached` |
| `PanicsAreOverlapped` | `CollectionThreadsProofs` | `OnlyOverlapsPanic` |
| `NothingBeforeHello` | `ConnectionsProofs` | `HelloComesFirst` |
| `DeliversOnce` | `ConnectionsProofs` | `ImplementsDelivery`: `Connections` refines `Delivery` |
| `StorageExclusion` | `StorageProofs` | `WritesRunAlone` |
| `IndexTypeInvariant` | `StorageProofs` | `TypeOK` of `IndexedStorage` |
| `CoveredAreFound` | `StorageProofs` | `CoveredIsFound` |
| `DeletedAreNotSimilar` | `StorageProofs` | `NoGhostVectors` |
| `UniqueKeys` | `StorageProofs` | `UniqueIndexNamesOne` |
| `StoredAreSealedAlike`, `StoredAreSealedOnce` | `EncryptedStorageProofs` | `SealedAlike`, `SealedOnce` |
| `NothingInTheClear`, `FindsAreExact` | `EncryptedStorageProofs` | `KeySetMeansSealed`, `FindIsExact` |
| `CompareIsRight`, `MergeIsRight` | `ConflictResolutionProofs` | `CompareIsCausalOrder`, `MergeIsLeastUpperBound` |
| `MergeKeepsBoth`, `ResolutionCommutes` | `ConflictResolutionProofs` | `MergeLosesNothing`, `ResolveCommutes` |
| `NoOtherPanics` | `QueryProofs` | `OnlyShortDeletesPanic` |
| `ClausesAreReadInOrder` | `QueryProofs` | `FiltersReadInOrder` |
| `QueriesAreTheirTexts` | `QueryProofs` | `QueryIsTheText` |
| `PlansKeepFilters`, `BestIndexesTakeMost` | `QueryProofs` | `PlanKeepsFilters`, `BestIndexTakesMost` |
| `StatementsImplementStorage` | `QueryProofs` | `QuerySpec => Spec`: statements do to files and indexes what `IndexedStorage` allows |
| `StatementsKeepIndexes` | `QueryProofs` | `CoveredIsFound`, `UniqueIndexNamesOne` and `NoGhostVectors` whatever statements are executed |
| `GetInvariant` | `QueryProofs` | the inductive invariant of a `GET` |
| `OnlyNamelessFail`, `ScansAreComplete` | `QueryProofs` | `FailuresAreNameless`, `ScanIsComplete` |

`CRDTResolverProofs` holds no theorem of this table: its lemmas say what the
operators of `VectorClock` and `CRDTResolver` return and how clocks stand to the
causal order, and the proofs about replication, threads and resolution cite them.

Assumptions: those named in the modules that declare constants
(`ReplicationAssumption`, `ResolverAssumption`, `ThreadsAssumption`,
`LockAssumption`, `ConflictAssumption`, `ConnectionsAssumption`,
`EncryptionAssumption`, `StorageAssumption`, `IdleAssumption`, `KeysAssumption`,
`TextAssumption`, `StatementAssumption`),
evaluated by TLC in every run of their modules, and nothing else. Peers, documents,
log sizes and all bounds are arbitrary; so are indexes, as long as the composite
keys of the documents are among the keys modelled, which have two components at
most (`KeysAssumption`). Goroutines are arbitrary too, and one of them may play
several parts. `ThreadsAssumption` says of an operation that arrives what its Go
type says, and that an insert or update carries a document; `EncryptionAssumption`
and it say that "no call" and "no document" are neither calls nor documents.
`TextAssumption` says that texts are made of tokens and begin with one: `Parse`
refuses the empty text before anything else, and no property is about it.
`StatementAssumption` ties the statements to the storage they are executed on: the
documents are those that a `SET` writes, and an index has the definition that its
`CREATE INDEX` gives it. Words, filters and the number of each are arbitrary.

The arguments. `OwnCounterIsMax` is not inductive alone: a response copies
operations out of a log, and a process that starts anew must not find operations
already stamped with its name. `StampInv` in `ReplicationProofs` joins it with the
types, with `Idle` (a process that is not up is not attached, and one that is not
attached has a fresh clock) and
with `LogMatchesClock` (the log is the run of stamps that ends at the counter), and
the parts prove each other: each step either copies an operation, or issues one
whose stamp is the counter just before it grows. `LogMatchesClock` needs, in
addition, what pruning leaves of a run of numbers. `ResponseHasNoGaps` speaks of a
whole response, and is not kept when a handler drops its first operation, which may
be the only one of a peer that detaches; `GapInv` says of each operation of a peer
that never detaches that none is missing after it, and that a log holds its
owner's operations only. A response is then a part of a log cut off by a counter.
`WriteOnceConverges` needs to know where operations come from: `HistoryInv` says
that what any operation carries, in a message, a log or a handler, has been
written, and that a store holds nothing else of a document that was only ever
written one way. Whether an operation is then applied, ignored or repeated makes
no difference (`OnlyIsKept`). The type invariant needs that
applying an operation gives a document again. `WritesRunAlone` follows from
`LockInv`: besides the types, the announced writer is the only goroutine past
`Announce`, whoever holds a read lock is in a read, and the writer that runs found
no read lock held.

For `CollectionThreads` the invariant has two halves. `Whole` is about the shared
state: what is set at which step of the controller, who holds `dc.mu`, and the
properties themselves. `Each` is about each call, at each of its steps: what it
has read of the clock is on the disk already (`IsOnDisk`), and is still the clock's
value unless something crossed it (`ReadsCurrent`), the document it found is still
there unless it is `stale` (`FoundCurrent`), the network and sync state it looked
for are there unless the controller overlapped it (`Undisturbed`); and the
operations its goroutine has logged are older than the clock, but for the one it
is about to count (`LogFits`). All properties are read off it. Two attempts failed
for good reasons, and changed the model or the property: two merges that cross can
put the own counter back, when the second one knows more of this process from
before it was attached again, so that `WriterStampsIncrease` has to except them;
and an update creates a document that is missing (crdt_resolver.go:79), which
`HasItsWay`, and with it `OwnWriteStays`, had denied.

For `Connections` the invariant says how far the two ends of a connection may be
apart (`InStep`), that a hello is the first line of an end that waits for one and
is nowhere else (`HelloIsFirst`), that only ends that have gone through the
handshake are written to or registered (`Established`), and that of a message and
its recipient there is one copy at most, with a goroutine that has still to write
it or on a wire (`OneCopy`). The last is what maps each step to one of `Delivery`:
a broadcast to a sending, a read to a receipt of the only copy, the end of a
connection to a loss, and all others to nothing.

For `EncryptedStorage` a stored document's fields are sealed alike and its markers
say whether they are (`StoredOK`). A call that seals or opens field after field is
in between: `Before` are the seals its document had on all fields, `After` those
it will have, and these are alike, whatever is done to `calls[g].todo`. A sealing
whose key was not set meanwhile has put the name and the key it read on every
field it is done with (`Seals`). A call that nothing disturbed finds on its fields
what is stored, one seal less on those it is done with (`OpensStored`, `IsExact`),
and of one that was disturbed nothing of the kind is claimed, nor needed.

For `IndexedStorage` the inductive invariants say how far the operation under way
has got. `OperationInv` relates it to its file (torn while an Insert writes, the new
document after, none in a Delete) and says that it will only touch indexes that are
still there. With it, `DeletedAreNotSimilar` follows from `VectorsBelong`: an index
with a vector for a document without a file is on the list of a Delete that runs.
`CoveredAreFound` follows from `Covers`: an index that was there when the operation
looked has either still to be reached by it or has the document already. What makes
both survive the coming and going of indexes is that a dropped index is struck off
that list and forgets everything. Both rest on what the library's `RemoveFirst`
does to a sequence: it keeps every other element and never makes it longer, from
which `UniqueKeys` follows too. `ResolutionCommutes` splits on
how the stamps compare and uses that peer IDs are ordered strictly.

For the parser and the optimizer the proofs are by induction on the position in a
text. The library's induction theorems take an operator as a parameter; here they are
replaced by one about sets, `Induction`: a set that has 0 and with each number
the next one has all of them. With it, each recursive function of the model is shown to
exist, and then what it holds at a position is related to the position before or
after: `ReadsFrom` says of `whereClause`, at any token, which triples it has taken
and why it stopped, and `Chosen` says that `Selected` takes the elements at the chosen
positions, all of them, in order. The positions of a query's filters fall
into those that an index can use and those it cannot (`PositionsSplit`), from which
`PlansKeepFilters` counts. `BestIndexesTakeMost` needs the costs only as far as they
differ: 101 for one filter, 11 for more (`CostIsTwofold`). `QueriesAreTheirTexts`
takes one lemma per kind of statement; those of `GET` and `CREATE INDEX` read what
was written back a second time and show that the same happens (`ReadAlike`).

For queries, `StatementsImplementStorage` maps every step to one of
`IndexedStorage`, so that its invariants, and its theorems, hold under statements.
`GetInv` adds the `GET`. Its first half (`GetOK`) is about plan and progress: an
index that was planned for is there until it is dropped, which gives
`OnlyNamelessFail`. Its second half (`ScanOK`) is about each document that stands
firm: the slice that is read, and as long as it is shared the entries of the index
too, have it at the positions where the index had named it and nowhere else
(`Steady`), and the scan has taken it as often as it has passed it (`Counted`).
`Steady` is what is hard to keep: a deletion moves everything behind what it
removes, so that only a document before which nothing is deleted keeps its positions;
an insert leaves them alone, or appends; and what is written late, after a drop, is
written to the slice alone. It needs that whoever operates on a document is marked
in `since` before the operation reaches the index (`OperationIsMarked`), also when it began
before the index was asked. All steps of others in the middle of a `GET` are of
one form (`Meanwhile`), for which the invariant is proved once. Three attempts failed
for good reasons, and changed the model: an operation that has looked up an index
writes to its slice although the index is dropped in between, which the model had
left out; the ID of the next document is read before `Find` waits for the lock, and not
when it has it, so that a deletion in between moves the slice after the scan has read
it (`NextID` and `Fetch` were one step); and a text may hold anything a token can be,
for which the assumption about texts had not been made.

Only model-checked, and why:

* Liveness (`SyncEnds`, `OnlyNestedReadsStop`, `HandshakesEnd`,
  `BroadcastsArrive`): TLAPS proves nothing under fairness, nor about `ENABLED`.
* The two runs that find a property violated.

Every other property of a passing run is a theorem. No module that is proved about
declares a recursive operator: the model recurses with functions.

## 5. Not modelled, and the plan

Left out for good: the cryptographic primitives and the serialisation of keys,
JSON and file formats, blobs (the branch that saves them cannot be taken), the
ranking of similarity search (floating point), the filter operators that compare
formatted text, the statistics of networks that nothing reads, the demonstration
command, and the Rust and TypeScript documents. The distributed database and the
public API are maps and delegation without behaviour of their own.

Order of work so far: clocks, resolver and replication (what the system is for),
then the storage it stands on, the network it assumes, the goroutines inside a
process, keys, and queries; then the proofs, in the same order. What is left
is the simulation of `Replication`'s handlers by the steps of `CollectionThreads`
when no two calls overlap, which nothing checks so far.
