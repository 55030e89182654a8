-------------------------- MODULE EncryptedStorage --------------------------
(***************************************************************************)
(* Encryption at rest: what FileStorage (internal/storage/storage.go) and  *)
(* its EncryptionManager (internal/crypto/pqc/encryption.go) do to the     *)
(* documents of one sensitive collection, such as "credentials".           *)
(*                                                                         *)
(* A key pair is sealed with and opened with as a whole (Kyber, AES-GCM    *)
(* and a Dilithium signature): what one key has sealed no other opens.     *)
(* Sealing names a key, by the master key's ID; the key pair is looked up  *)
(* in the cache and, failing that, taken from the master key, which is     *)
(* read without the manager's lock: once for its ID, once more to be used, *)
(* with SetMasterKey free to come in between.  Hence two steps a field.    *)
(*                                                                         *)
(* Insert holds the storage's lock, Find its read side (FileStorageLock);  *)
(* the master key is set under neither.  The handler of a remote operation *)
(* (Rewrite) is a Find and, later, an Insert of the document it found or   *)
(* of the operation's.  The encryption flag and the markers of sealed      *)
(* fields are part of the document, and go through all of this with it.    *)
(* What is in the fields makes no difference to any of this, and fields    *)
(* that are not sensitive are left out.                                    *)
(***************************************************************************)
EXTENDS Naturals, Sequences

CONSTANTS Goroutines,
          Clients,         \* goroutines that insert, delete and find
          Handlers,        \* goroutines that handle remote operations
          IDs,             \* document IDs
          SensitiveFields, \* isSensitiveField, for this collection
          Keys, NoKey,     \* key pairs; no master key has been set
          Cachers,         \* keys that are cached, and removed from the cache
          Expiring,        \* keys that expire, or are revoked
          NoDocument,      \* no file
          Idle,            \* no call
          MaxSeals         \* bound of the model: how often a field is sealed

\* A field sealed again has the last seal first.
Seal == [label : Keys, key : Keys]

\* raced and crossed are history: a master key was set while the document was
\* being sealed; it was read before a master key was set and written after.
Document == [seals     : [SensitiveFields -> Seq(Seal)],
             encrypted : BOOLEAN,
             marked    : BOOLEAN,
             raced     : BOOLEAN,
             crossed   : BOOLEAN]

Plain    == [seals |-> [f \in SensitiveFields |-> <<>>],
             encrypted |-> FALSE, marked |-> FALSE, raced |-> FALSE, crossed |-> FALSE]

VARIABLES masterKey,  \* EncryptionManager.masterKey
          keyCache,   \* EncryptionManager.keyCache
          expired,    \* keys that are not active any more
          disk,       \* the collection's files
          calls       \* what each goroutine is doing

vars == <<masterKey, keyCache, expired, disk, calls>>

\* A call: todo are the fields still to seal or open, looked the one among them
\* whose key has been looked up (and was cached or not), label the master key
\* that the call saw.  disturbed is history: whether since it began any key came, went
\* or expired, or the document was written.
Call == [type      : {"insert", "find", "handle"},
         id        : IDs,
         step      : {"open", "found", "failed", "seal", "write"},
         doc       : Document \cup {NoDocument},
         todo      : SUBSET SensitiveFields,
         looked    : SUBSET SensitiveFields,
         cached    : BOOLEAN,
         label     : Keys \cup {NoKey},
         disturbed : BOOLEAN]

ASSUME EncryptionAssumption ==
    /\ Clients \cup Handlers \subseteq Goroutines
    /\ NoKey \notin Keys /\ Cachers \cup Expiring \subseteq Keys
    /\ SensitiveFields # {}
    /\ MaxSeals \in Nat
    /\ NoDocument \notin Document /\ Idle \notin Call

Init ==
    /\ masterKey = NoKey
    /\ keyCache  = {}
    /\ expired   = {}
    /\ disk      = [id \in IDs |-> NoDocument]
    /\ calls     = [g \in Goroutines |-> Idle]

Busy(g) == calls[g] # Idle

\* Who holds the storage's lock, and who its read side.
Writing(g) == Busy(g) /\ calls[g].step \in {"seal", "write"}
Reading(g) == Busy(g) /\ calls[g].step = "open"

CanWrite == \A g \in Goroutines : ~ Writing(g) /\ ~ Reading(g)
CanRead  == \A g \in Goroutines : ~ Writing(g)

\* What becomes of the calls under way when something they depend on changes.
Disturb(c) == IF c = Idle THEN Idle ELSE [c EXCEPT !.disturbed = TRUE]

IsActive(key) == key \notin expired

-----------------------------------------------------------------------------
(***************************************************************************)
(* Keys.                                                                   *)
(***************************************************************************)
\* Any key pair may be set at any time; it is never taken away.
SetMasterKey(k) ==
    /\ masterKey # k
    /\ masterKey' = k
    /\ calls' = [g \in Goroutines |->
                    IF Writing(g) THEN [calls[g] EXCEPT !.doc.raced = TRUE, !.disturbed = TRUE]
                    ELSE Disturb(calls[g])]
    /\ UNCHANGED <<keyCache, expired, disk>>

CacheKey(k) ==
    /\ k \in Cachers \ keyCache
    /\ keyCache' = keyCache \cup {k}
    /\ calls' = [g \in Goroutines |-> Disturb(calls[g])]
    /\ UNCHANGED <<masterKey, expired, disk>>

RemoveKey(k) ==
    /\ k \in keyCache
    /\ keyCache' = keyCache \ {k}
    /\ calls' = [g \in Goroutines |-> Disturb(calls[g])]
    /\ UNCHANGED <<masterKey, expired, disk>>

\* Its time is over, or its status is changed.
Expire(k) ==
    /\ k \in Expiring \ expired
    /\ expired' = expired \cup {k}
    /\ calls' = [g \in Goroutines |-> Disturb(calls[g])]
    /\ UNCHANGED <<masterKey, keyCache, disk>>

\* The process ends; the next one has an EncryptionManager without keys.
Restart ==
    /\ masterKey' = NoKey
    /\ keyCache'  = {}
    /\ calls'     = [g \in Goroutines |-> Idle]
    /\ UNCHANGED <<expired, disk>>

-----------------------------------------------------------------------------
(***************************************************************************)
(* The lookup of a key in EncryptData and DecryptData.  A cached key pair  *)
(* is taken at once; of the master key only the ID is looked at.           *)
(***************************************************************************)
Failed(c) == [c EXCEPT !.step = "failed", !.doc = NoDocument, !.todo = {}, !.looked = {},
                       !.cached = FALSE]

Lookup(g, f, label) ==
    /\ f \in calls[g].todo /\ calls[g].looked = {}
    /\ calls' = [calls EXCEPT ![g] =
           IF label \in keyCache \/ masterKey = label
           THEN [@ EXCEPT !.looked = {f}, !.cached = label \in keyCache]
           ELSE Failed(@)]

\* The key pair that is used then.
KeyPair(g, label) == IF calls[g].cached THEN label ELSE masterKey

\* The call once it is through with field f; step is what comes after the last.
Done(c, f, step) == [c EXCEPT !.step = IF c.todo = {f} THEN step ELSE @,
                              !.todo = @ \ {f}, !.looked = {}, !.cached = FALSE]

-----------------------------------------------------------------------------
(***************************************************************************)
(* Insert: encryptDocument, if there is a master key, then the file.       *)
(***************************************************************************)
\* Mutant: a document that says it is encrypted is not sealed.
TrustTheFlag(id, doc) ==
    LET seal == masterKey # NoKey /\ ~ doc.encrypted
    IN  [type   |-> "insert",
         id     |-> id,
         step   |-> IF seal THEN "seal" ELSE "write",
         doc    |-> IF seal THEN [doc EXCEPT !.encrypted = TRUE, !.marked = TRUE] ELSE doc,
         todo   |-> IF seal THEN SensitiveFields ELSE {},
         looked |-> {}, cached |-> FALSE,
         label  |-> masterKey, disturbed |-> FALSE]

\* A call that has the lock and is to write doc.
Writer(id, doc) ==
    LET seal == masterKey # NoKey
    IN  [type   |-> "insert",
         id     |-> id,
         step   |-> IF seal THEN "seal" ELSE "write",
         doc    |-> IF seal THEN [doc EXCEPT !.encrypted = TRUE, !.marked = TRUE] ELSE doc,
         todo   |-> IF seal THEN SensitiveFields ELSE {},
         looked |-> {}, cached |-> FALSE,
         label  |-> masterKey, disturbed |-> FALSE]

Insert(g, id) ==
    /\ g \in Clients /\ ~ Busy(g) /\ CanWrite
    /\ calls' = [calls EXCEPT ![g] = Writer(id, Plain)]
    /\ UNCHANGED <<masterKey, keyCache, expired, disk>>

\* encryptPayload goes through the fields in any order.
LookupToSeal(g, f) ==
    /\ Busy(g) /\ calls[g].step = "seal"
    /\ Lookup(g, f, calls[g].label)
    /\ UNCHANGED <<masterKey, keyCache, expired, disk>>

\* Mutant: a field whose key is not active is left as it is, without an error.
SkipInactiveKey(g, f) ==
    /\ Busy(g) /\ calls[g].step = "seal" /\ f \in calls[g].looked
    /\ LET c   == calls[g]
           key == KeyPair(g, c.label)
       IN  calls' = [calls EXCEPT ![g] =
              IF ~ IsActive(key) THEN Done(c, f, "write")
              ELSE [Done(c, f, "write") EXCEPT
                       !.doc.seals[f] = <<[label |-> c.label, key |-> key]>> \o @]]
    /\ UNCHANGED <<masterKey, keyCache, expired, disk>>

EncryptData(g, f) ==
    /\ Busy(g) /\ calls[g].step = "seal" /\ f \in calls[g].looked
    /\ LET c   == calls[g]
           key == KeyPair(g, c.label)
       IN  calls' = [calls EXCEPT ![g] =
              IF ~ IsActive(key) THEN Failed(c)
              ELSE [Done(c, f, "write") EXCEPT
                       !.doc.seals[f] = <<[label |-> c.label, key |-> key]>> \o @]]
    /\ UNCHANGED <<masterKey, keyCache, expired, disk>>

WriteFile(g) ==
    /\ Busy(g) /\ calls[g].step = "write"
    /\ disk'  = [disk EXCEPT ![calls[g].id] = calls[g].doc]
    /\ calls' = [h \in Goroutines |-> IF h = g THEN Idle ELSE Disturb(calls[h])]
    /\ UNCHANGED <<masterKey, keyCache, expired>>

Delete(g, id) ==
    /\ g \in Clients /\ ~ Busy(g) /\ CanWrite
    /\ disk'  = [disk EXCEPT ![id] = NoDocument]
    /\ calls' = [h \in Goroutines |-> Disturb(calls[h])]
    /\ UNCHANGED <<masterKey, keyCache, expired>>

-----------------------------------------------------------------------------
(***************************************************************************)
(* Find: decryptDocument, if the document says it is encrypted and there   *)
(* is a master key.  Only fields that are marked are opened, with the key  *)
(* that their seal names.  FindAll is a Find of each document which leaves *)
(* out those that fail.                                                    *)
(***************************************************************************)
Opened(doc) == [doc EXCEPT !.encrypted = FALSE, !.marked = FALSE]

Find(g, type, id) ==
    /\ g \in IF type = "find" THEN Clients ELSE Handlers
    /\ ~ Busy(g) /\ CanRead
    /\ LET doc  == disk[id]
           open == doc # NoDocument /\ doc.encrypted /\ masterKey # NoKey
       IN  calls' = [calls EXCEPT ![g] =
              [type   |-> type,
               id     |-> id,
               step   |-> IF open /\ doc.marked THEN "open" ELSE "found",
               doc    |-> IF open THEN Opened(doc) ELSE doc,
               todo   |-> IF open /\ doc.marked THEN SensitiveFields ELSE {},
               looked |-> {}, cached |-> FALSE,
               label  |-> masterKey, disturbed |-> FALSE]]
    /\ UNCHANGED <<masterKey, keyCache, expired, disk>>

LookupToOpen(g, f) ==
    /\ Busy(g) /\ calls[g].step = "open"
    /\ Lookup(g, f, Head(calls[g].doc.seals[f]).label)
    /\ UNCHANGED <<masterKey, keyCache, expired, disk>>

\* Mutant: a field that does not open is given out as it is.
GiveSealsOut(g, f) ==
    /\ Busy(g) /\ calls[g].step = "open" /\ f \in calls[g].looked
    /\ LET c    == calls[g]
           seal == Head(c.doc.seals[f])
           key  == KeyPair(g, seal.label)
       IN  calls' = [calls EXCEPT ![g] =
              IF ~ IsActive(key) \/ key # seal.key THEN Done(c, f, "found")
              ELSE [Done(c, f, "found") EXCEPT !.doc.seals[f] = Tail(@)]]
    /\ UNCHANGED <<masterKey, keyCache, expired, disk>>

\* Mutant: the key is not asked whether it is active.
OpenWithAnyKey(g, f) ==
    /\ Busy(g) /\ calls[g].step = "open" /\ f \in calls[g].looked
    /\ LET c    == calls[g]
           seal == Head(c.doc.seals[f])
           key  == KeyPair(g, seal.label)
       IN  calls' = [calls EXCEPT ![g] =
              IF key # seal.key THEN Failed(c)
              ELSE [Done(c, f, "found") EXCEPT !.doc.seals[f] = Tail(@)]]
    /\ UNCHANGED <<masterKey, keyCache, expired, disk>>

\* The signature is checked with the key pair that is used.
DecryptData(g, f) ==
    /\ Busy(g) /\ calls[g].step = "open" /\ f \in calls[g].looked
    /\ LET c    == calls[g]
           seal == Head(c.doc.seals[f])
           key  == KeyPair(g, seal.label)
       IN  calls' = [calls EXCEPT ![g] =
              IF ~ IsActive(key) \/ key # seal.key THEN Failed(c)
              ELSE [Done(c, f, "found") EXCEPT !.doc.seals[f] = Tail(@)]]
    /\ UNCHANGED <<masterKey, keyCache, expired, disk>>

\* The end of a Find, or of an Insert that failed.
Return(g) ==
    /\ Busy(g) /\ calls[g].type \in {"find", "insert"} /\ calls[g].step \in {"found", "failed"}
    /\ calls' = [calls EXCEPT ![g] = Idle]
    /\ UNCHANGED <<masterKey, keyCache, expired, disk>>

-----------------------------------------------------------------------------
(***************************************************************************)
(* The rest of handleRemoteOperation, for an insert or an update.         *)
(* What cannot be read counts as missing, and the operation is taken.  An  *)
(* operation that wins replaces the payload, seals and markers included,   *)
(* but not the flag beside it; one that loses has the document that was    *)
(* found written back as it is.                                            *)
(***************************************************************************)
Sealed(doc) == \E f \in SensitiveFields : doc.seals[f] # <<>>

Merged(c, wins) ==
    IF c.step = "failed" \/ c.doc = NoDocument THEN Plain
    ELSE IF wins THEN [Plain EXCEPT !.encrypted = c.doc.encrypted]
    ELSE [c.doc EXCEPT !.crossed = Sealed(c.doc) /\ (@ \/ (c.label = NoKey /\ masterKey # NoKey))]

Rewrite(g, wins) ==
    /\ Busy(g) /\ calls[g].type = "handle" /\ calls[g].step \in {"found", "failed"}
    /\ CanWrite
    /\ LET doc == Merged(calls[g], wins)
       IN  /\ masterKey # NoKey => \A f \in SensitiveFields : Len(doc.seals[f]) < MaxSeals
           /\ calls' = [calls EXCEPT ![g] = Writer(calls[g].id, doc)]
    /\ UNCHANGED <<masterKey, keyCache, expired, disk>>

Next ==
    \/ \E k \in Keys : SetMasterKey(k) \/ CacheKey(k) \/ RemoveKey(k) \/ Expire(k)
    \/ Restart
    \/ \E g \in Goroutines :
          \/ \E id \in IDs : \/ Insert(g, id) \/ Delete(g, id)
                             \/ \E type \in {"find", "handle"} : Find(g, type, id)
          \/ \E f \in SensitiveFields : \/ LookupToSeal(g, f) \/ EncryptData(g, f)
                                       \/ LookupToOpen(g, f) \/ DecryptData(g, f)
          \/ WriteFile(g) \/ Return(g)
          \/ \E wins \in BOOLEAN : Rewrite(g, wins)

Spec == Init /\ [][Next]_vars

-----------------------------------------------------------------------------
(***************************************************************************)
(* Properties.                                                             *)
(***************************************************************************)
TypeOK ==
    /\ masterKey \in Keys \cup {NoKey}
    /\ keyCache \subseteq Cachers
    /\ expired  \subseteq Expiring
    /\ disk  \in [IDs -> Document \cup {NoDocument}]
    /\ calls \in [Goroutines -> Call \cup {Idle}]

Stored == {disk[id] : id \in IDs} \ {NoDocument}

(***************************************************************************)
(* The sensitive fields of a stored document are sealed alike: all of them *)
(* as often, under the same names of keys, and by the keys named, unless a *)
(* master key was set while they were being sealed.  No Insert that fails  *)
(* halfway, and no document that comes back from a handler, mixes keys.    *)
(***************************************************************************)
SealedAlike ==
    \A doc \in Stored : \A f, h \in SensitiveFields :
        /\ Len(doc.seals[f]) = Len(doc.seals[h])
        /\ \A i \in DOMAIN doc.seals[f] :
              /\ doc.seals[f][i].label = doc.seals[h][i].label
              /\ doc.raced \/ doc.seals[f][i].key = doc.seals[f][i].label

(***************************************************************************)
(* Once there is a master key nothing sensitive goes to disk in the clear, *)
(* whatever flags and markers a document arrives with.                     *)
(***************************************************************************)
KeySetMeansSealed ==
    \A g \in Goroutines : Busy(g) /\ calls[g].step = "write" /\ calls[g].label # NoKey =>
        \A f \in SensitiveFields : calls[g].doc.seals[f] # <<>>

(***************************************************************************)
(* A document is sealed once, unless it was read when there was no master  *)
(* key and written back when there was one: then Find returns sealed       *)
(* fields, and says nothing.                                               *)
(***************************************************************************)
SealedOnce ==
    \A doc \in Stored : ~ doc.crossed => \A f \in SensitiveFields : Len(doc.seals[f]) <= 1

(***************************************************************************)
(* A Find that no change of keys or of the document disturbs fails exactly *)
(* when a seal of the document names a key that is neither cached nor the  *)
(* master key, is not active or did not make the seal; and otherwise       *)
(* returns what is stored, with one seal less if there is a master key.    *)
(***************************************************************************)
Opens(seal) == /\ seal.label \in keyCache \cup {masterKey}
               /\ IsActive(seal.label) /\ seal.key = seal.label

FindIsExact ==
    \A g \in Goroutines :
        LET c      == calls[g]
            stored == disk[c.id]
            shut   == masterKey = NoKey \/ ~ Sealed(stored)
            fails  == ~ shut /\ \E f \in SensitiveFields : ~ Opens(Head(stored.seals[f]))
        IN  /\ Busy(g) /\ c.type # "insert" /\ c.step \in {"found", "failed"}
            /\ ~ c.disturbed /\ stored # NoDocument
            => IF fails THEN c.step = "failed"
               ELSE /\ c.step = "found"
                    /\ \A f \in SensitiveFields :
                          c.doc.seals[f] = IF shut THEN stored.seals[f] ELSE Tail(stored.seals[f])
=============================================================================
