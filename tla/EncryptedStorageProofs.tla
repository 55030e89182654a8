----------------------- MODULE EncryptedStorageProofs -----------------------
(***************************************************************************)
(* Proofs about EncryptedStorage, for any goroutines, documents, sensitive *)
(* fields and keys.                                                        *)
(***************************************************************************)
EXTENDS EncryptedStorage, SequenceTheorems, TLAPS

-----------------------------------------------------------------------------
(***************************************************************************)
(* The inductive invariant.                                                *)
(***************************************************************************)
SealsType == [SensitiveFields -> Seq(Seal)]

\* What SealedAlike says of the seals of one document.
Alike(seals, raced) ==
    \A f, h \in SensitiveFields :
        /\ Len(seals[f]) = Len(seals[h])
        /\ \A i \in DOMAIN seals[f] :
              /\ seals[f][i].label = seals[h][i].label
              /\ raced \/ seals[f][i].key = seals[f][i].label

Longest(seals, n) == \A f \in SensitiveFields : Len(seals[f]) <= n

\* The markers of a document tell whether its fields are sealed.
MarksFit(doc) ==
    /\ doc.marked   => doc.encrypted /\ \A f \in SensitiveFields : doc.seals[f] # <<>>
    /\ ~ doc.marked => \A f \in SensitiveFields : doc.seals[f] = <<>>

StoredOK(doc) ==
    /\ Alike(doc.seals, doc.raced)
    /\ ~ doc.crossed => Longest(doc.seals, 1)
    /\ MarksFit(doc)

\* The seals that a call found on the fields it is sealing, and those that it will
\* leave on the fields it is opening.
Before(c) == [f \in SensitiveFields |-> IF f \in c.todo THEN c.doc.seals[f] ELSE Tail(c.doc.seals[f])]
After(c)  == [f \in SensitiveFields |-> IF f \in c.todo THEN Tail(c.doc.seals[f]) ELSE c.doc.seals[f]]

Seals(c) ==
    /\ c.label # NoKey /\ c.doc.encrypted /\ c.doc.marked
    /\ c.doc.raced \/ masterKey = c.label
    /\ \A f \in SensitiveFields \ c.todo :
          /\ c.doc.seals[f] # <<>>
          /\ Head(c.doc.seals[f]).label = c.label
          /\ c.doc.raced \/ Head(c.doc.seals[f]).key = c.label
    /\ Alike(Before(c), c.doc.raced)
    /\ ~ c.doc.crossed => Longest(Before(c), 0)

\* A document is opened as it is stored, unless something has disturbed the call.
OpensStored(c) ==
    ~ c.disturbed =>
        LET stored == disk[c.id]
        IN  /\ c.label = masterKey /\ stored # NoDocument /\ stored.marked
            /\ \A f \in SensitiveFields :
                  /\ c.doc.seals[f] = IF f \in c.todo THEN stored.seals[f] ELSE Tail(stored.seals[f])
                  /\ f \notin c.todo => Opens(Head(stored.seals[f]))
                  /\ f \in c.looked =>
                        /\ Head(stored.seals[f]).label \in keyCache \cup {masterKey}
                        /\ c.cached <=> Head(stored.seals[f]).label \in keyCache

IsOpening(c) ==
    /\ c.label # NoKey
    /\ \A f \in c.todo : c.doc.seals[f] # <<>>
    /\ Alike(After(c), c.doc.raced)
    /\ ~ c.doc.crossed => Longest(After(c), 0)
    /\ OpensStored(c)

\* What a Find has found.
Found(c) ==
    c.doc # NoDocument =>
        /\ Alike(c.doc.seals, c.doc.raced)
        /\ ~ c.doc.crossed => Longest(c.doc.seals, IF c.label = NoKey THEN 1 ELSE 0)
        /\ c.label = NoKey => MarksFit(c.doc)

IsExact(c) ==
    LET stored == disk[c.id]
        shut   == masterKey = NoKey \/ ~ Sealed(stored)
        fails  == ~ shut /\ \E f \in SensitiveFields : ~ Opens(Head(stored.seals[f]))
    IN  c.type # "insert" /\ c.step \in {"found", "failed"} /\ ~ c.disturbed /\ stored # NoDocument
            => IF fails THEN c.step = "failed"
               ELSE /\ c.step = "found"
                    /\ \A f \in SensitiveFields :
                          c.doc.seals[f] = IF shut THEN stored.seals[f] ELSE Tail(stored.seals[f])

CallFits(c) ==
    /\ c.label # NoKey => masterKey # NoKey
    /\ c.type = "insert" => c.step \in {"seal", "write", "failed"}
    /\ c.type # "insert" => c.step \in {"open", "found", "failed"}
    /\ c.step \in {"seal", "write", "open"} => c.doc # NoDocument
    /\ c.looked \subseteq c.todo

CallOK(c) ==
    /\ CallFits(c) /\ IsExact(c)
    /\ c.step = "seal"  => Seals(c)
    /\ c.step = "write" => /\ StoredOK(c.doc)
                           /\ c.label # NoKey => \A f \in SensitiveFields : c.doc.seals[f] # <<>>
    /\ c.step = "open"  => IsOpening(c)
    /\ c.step = "found" => Found(c)

Inv ==
    /\ TypeOK
    /\ \A id \in IDs : disk[id] # NoDocument => StoredOK(disk[id])
    /\ \A g \in Goroutines : calls[g] # Idle => CallOK(calls[g])

-----------------------------------------------------------------------------
(***************************************************************************)
(* Seals.                                                                  *)
(***************************************************************************)
LEMMA SealsOfField ==
    ASSUME NEW s \in Seq(Seal), s # <<>>
    PROVE  /\ Tail(s) \in Seq(Seal) /\ Head(s) \in Seal
           /\ Len(s) \in Nat /\ Len(Tail(s)) \in Nat /\ Len(s) = Len(Tail(s)) + 1
           /\ Head(s) = s[1]
           /\ \A i \in 1 .. Len(Tail(s)) : Tail(s)[i] = s[i + 1]
OBVIOUS

LEMMA SealOnTop ==
    ASSUME NEW s \in Seq(Seal), NEW x \in Seal
    PROVE  LET t == <<x>> \o s
           IN  t \in Seq(Seal) /\ t # <<>> /\ Head(t) = x /\ Tail(t) = s
<1> DEFINE t == <<x>> \o s
<1>1. <<x>> \in Seq(Seal) /\ Len(<<x>>) = 1 /\ <<x>>[1] = x
  OBVIOUS
<1>2. /\ t \in Seq(Seal) /\ Len(t) = Len(s) + 1 /\ Len(s) \in Nat
      /\ \A i \in 1 .. Len(s) + 1 : t[i] = IF i <= 1 THEN <<x>>[i] ELSE s[i - 1]
  BY <1>1, ConcatProperties
<1> HIDE DEF t
<1>3. t # <<>> /\ Head(t) = x
  BY <1>1, <1>2
<1>4. /\ Tail(t) \in Seq(Seal) /\ Len(Tail(t)) = Len(s)
      /\ \A i \in 1 .. Len(Tail(t)) : Tail(t)[i] = t[i + 1]
  BY <1>2, <1>3, SealsOfField
<1>5. ASSUME NEW i \in 1 .. Len(s) PROVE Tail(t)[i] = s[i]
  <2>1. Tail(t)[i] = t[i + 1] /\ i + 1 \in 1 .. Len(s) + 1 /\ ~ (i + 1 <= 1) /\ (i + 1) - 1 = i
    BY <1>2, <1>4
  <2>2. QED
    BY <2>1, <1>2
<1>6. Tail(t) = s
  BY <1>4, <1>5, SeqEqual
<1>7. QED
  BY <1>2, <1>3, <1>6 DEF t

LEMMA AlikeWithoutTop ==
    ASSUME NEW seals \in SealsType, NEW raced, Alike(seals, raced),
           \A f \in SensitiveFields : seals[f] # <<>>,
           NEW tails, tails = [f \in SensitiveFields |-> Tail(seals[f])]
    PROVE  Alike(tails, raced) /\ tails \in SealsType
<1>1. \A f \in SensitiveFields :
         /\ tails[f] = Tail(seals[f]) /\ tails[f] \in Seq(Seal)
         /\ Len(tails[f]) \in Nat /\ Len(seals[f]) = Len(tails[f]) + 1
         /\ \A i \in 1 .. Len(tails[f]) : tails[f][i] = seals[f][i + 1]
  BY SealsOfField DEF SealsType
<1>2. ASSUME NEW f \in SensitiveFields, NEW h \in SensitiveFields
      PROVE  /\ Len(tails[f]) = Len(tails[h])
             /\ \A i \in DOMAIN tails[f] :
                   /\ tails[f][i].label = tails[h][i].label
                   /\ raced \/ tails[f][i].key = tails[f][i].label
  <2>1. Len(seals[f]) = Len(seals[h]) /\ seals[f] \in Seq(Seal)
    BY DEF Alike, SealsType
  <2>2. Len(tails[f]) = Len(tails[h])
    BY <1>1, <2>1
  <2>3. ASSUME NEW i \in 1 .. Len(tails[f])
        PROVE  /\ tails[f][i].label = tails[h][i].label
               /\ raced \/ tails[f][i].key = tails[f][i].label
    <3>1. i + 1 \in DOMAIN seals[f]
      BY <1>1, <2>1
    <3>2. tails[f][i] = seals[f][i + 1] /\ tails[h][i] = seals[h][i + 1]
      BY <1>1, <2>2
    <3>3. QED
      BY <3>1, <3>2 DEF Alike
  <2>4. DOMAIN tails[f] = 1 .. Len(tails[f])
    BY <1>1
  <2>5. QED
    BY <2>2, <2>3, <2>4
<1>3. Alike(tails, raced)
  BY <1>2 DEF Alike
<1>4. QED
  BY <1>1, <1>3 DEF SealsType

LEMMA AlikeWithTop ==
    ASSUME NEW seals \in SealsType, NEW raced, NEW label,
           \A f \in SensitiveFields : /\ seals[f] # <<>>
                                      /\ Head(seals[f]).label = label
                                      /\ raced \/ Head(seals[f]).key = label,
           NEW tails, tails = [f \in SensitiveFields |-> Tail(seals[f])], Alike(tails, raced)
    PROVE  Alike(seals, raced)
<1>1. \A f \in SensitiveFields :
         /\ tails[f] = Tail(seals[f]) /\ tails[f] \in Seq(Seal) /\ seals[f] \in Seq(Seal)
         /\ Len(tails[f]) \in Nat /\ Len(seals[f]) = Len(tails[f]) + 1
         /\ Head(seals[f]) = seals[f][1]
         /\ \A i \in 1 .. Len(tails[f]) : tails[f][i] = seals[f][i + 1]
  BY SealsOfField DEF SealsType
<1>2. ASSUME NEW f \in SensitiveFields, NEW h \in SensitiveFields
      PROVE  /\ Len(seals[f]) = Len(seals[h])
             /\ \A i \in DOMAIN seals[f] :
                   /\ seals[f][i].label = seals[h][i].label
                   /\ raced \/ seals[f][i].key = seals[f][i].label
  <2>1. Len(tails[f]) = Len(tails[h]) /\ DOMAIN tails[f] = 1 .. Len(tails[f])
    BY <1>1 DEF Alike
  <2>2. Len(seals[f]) = Len(seals[h]) /\ DOMAIN seals[f] = 1 .. Len(tails[f]) + 1
    BY <1>1, <2>1
  <2>3. ASSUME NEW i \in 1 .. Len(tails[f]) + 1
        PROVE  /\ seals[f][i].label = seals[h][i].label
               /\ raced \/ seals[f][i].key = seals[f][i].label
    <3>1. CASE i = 1
      BY <3>1, <1>1
    <3>2. CASE i # 1
      <4>1. i - 1 \in 1 .. Len(tails[f]) /\ (i - 1) + 1 = i
        BY <3>2, <1>1
      <4>2. tails[f][i - 1] = seals[f][i] /\ tails[h][i - 1] = seals[h][i]
        BY <4>1, <2>1, <1>1
      <4>3. QED
        BY <4>1, <4>2, <2>1 DEF Alike
    <3>3. QED
      BY <3>1, <3>2
  <2>4. QED
    BY <2>2, <2>3
<1>3. QED
  BY <1>2 DEF Alike

\* Either all fields are sealed, or none.
LEMMA AllOrNothing ==
    ASSUME NEW seals \in SealsType, NEW raced, Alike(seals, raced),
           NEW f \in SensitiveFields, seals[f] # <<>>
    PROVE  \A h \in SensitiveFields : seals[h] # <<>>
<1>1. ASSUME NEW h \in SensitiveFields PROVE seals[h] # <<>>
  <2>1. seals[f] \in Seq(Seal) /\ seals[h] \in Seq(Seal) /\ Len(seals[f]) = Len(seals[h])
    BY DEF Alike, SealsType
  <2>2. QED
    BY <2>1
<1>2. QED
  BY <1>1

LEMMA NothingIsAlike ==
    ASSUME NEW seals, NEW raced, \A f \in SensitiveFields : seals[f] = <<>>
    PROVE  Alike(seals, raced) /\ Longest(seals, 0) /\ Longest(seals, 1)
BY DEF Alike, Longest

LEMMA NoneIsNothing ==
    ASSUME NEW seals \in SealsType, Longest(seals, 0)
    PROVE  \A f \in SensitiveFields : seals[f] = <<>>
<1>1. ASSUME NEW f \in SensitiveFields PROVE seals[f] = <<>>
  <2>1. seals[f] \in Seq(Seal) /\ Len(seals[f]) <= 0 /\ Len(seals[f]) \in Nat
    BY DEF SealsType, Longest
  <2>2. Len(seals[f]) = 0
    BY <2>1
  <2>3. QED
    BY <2>1, <2>2
<1>2. QED
  BY <1>1

-----------------------------------------------------------------------------
(***************************************************************************)
(* Calls.                                                                  *)
(***************************************************************************)
LEMMA NothingIsNoCall == Idle \notin Call /\ NoDocument \notin Document
BY EncryptionAssumption DEF EncryptionAssumption

LEMMA PlainType ==
    /\ Plain \in Document /\ Plain # NoDocument /\ MarksFit(Plain) /\ StoredOK(Plain)
    /\ \A f \in SensitiveFields : Plain.seals[f] = <<>>
<1>1. [f \in SensitiveFields |-> <<>>] \in [SensitiveFields -> Seq(Seal)]
  OBVIOUS
<1>2. Plain \in Document
  BY <1>1 DEF Plain, Document
<1>3. /\ \A f \in SensitiveFields : Plain.seals[f] = <<>>
      /\ ~ Plain.marked
  BY DEF Plain
<1>4. Alike(Plain.seals, Plain.raced) /\ Longest(Plain.seals, 1)
  BY <1>3, NothingIsAlike
<1>5. QED
  BY <1>2, <1>3, <1>4, NothingIsNoCall DEF MarksFit, StoredOK

LEMMA CallStaysOK ==
    ASSUME UNCHANGED <<masterKey, keyCache, expired, disk>>, NEW c, CallOK(c)
    PROVE  CallOK(c)'
<1>1. CallFits(c)'
  BY DEF CallOK, CallFits
<1>2. \A seal : Opens(seal)' <=> Opens(seal)
  BY DEF Opens, IsActive
<1>3. IsExact(c)'
  BY <1>2 DEF CallOK, IsExact
<1>4. Seals(c) => Seals(c)'
  BY DEF Seals
<1>5. OpensStored(c) => OpensStored(c)'
  BY <1>2 DEF OpensStored
<1>6. IsOpening(c) => IsOpening(c)'
  BY <1>5 DEF IsOpening
<1>7. QED
  BY <1>1, <1>3, <1>4, <1>6 DEF CallOK

\* One call goes on or comes to its end; the rest stays as it is.
LEMMA OneCallKeepsInv ==
    ASSUME Inv, NEW g \in Goroutines, NEW new \in Call \cup {Idle},
           new # Idle => CallOK(new),
           calls' = [calls EXCEPT ![g] = new],
           UNCHANGED <<masterKey, keyCache, expired, disk>>
    PROVE  Inv'
<1>1. /\ calls' \in [Goroutines -> Call \cup {Idle}]
      /\ \A h \in Goroutines : calls'[h] = IF h = g THEN new ELSE calls[h]
  BY DEF Inv, TypeOK
<1>2. TypeOK'
  BY <1>1 DEF Inv, TypeOK
<1>3. ASSUME NEW h \in Goroutines, calls'[h] # Idle PROVE CallOK(calls[h])'
  <2>1. PICK c \in Call \cup {Idle} : c = calls'[h]
    BY <1>1
  <2>2. CallOK(c)
    BY <1>1, <1>3, <2>1 DEF Inv
  <2>3. CallOK(c)'
    BY <2>2, CallStaysOK
  <2>4. QED
    BY <2>1, <2>3
<1>4. ASSUME NEW id \in IDs, disk'[id] # NoDocument PROVE StoredOK(disk[id])'
  BY <1>4 DEF Inv
<1>5. QED
  BY <1>2, <1>3, <1>4 DEF Inv

\* A call that is disturbed, and the document that it seals raced if the master
\* key is another one.
SameButDisturbed(c, d) ==
    /\ d.type = c.type /\ d.id = c.id /\ d.step = c.step /\ d.todo = c.todo
    /\ d.looked = c.looked /\ d.cached = c.cached /\ d.label = c.label
    /\ d.disturbed
    /\ \/ d.doc = c.doc
       \/ /\ c.step \in {"seal", "write"} /\ d.doc \in Document /\ d.doc.raced
          /\ d.doc.seals = c.doc.seals /\ d.doc.encrypted = c.doc.encrypted
          /\ d.doc.marked = c.doc.marked /\ d.doc.crossed = c.doc.crossed

LEMMA DisturbType ==
    ASSUME NEW c \in Call
    PROVE  Disturb(c) \in Call /\ Disturb(c) # Idle /\ SameButDisturbed(c, Disturb(c))
<1> DEFINE d == [c EXCEPT !.disturbed = TRUE]
<1>1. Disturb(c) = d
  BY NothingIsNoCall DEF Disturb
<1>2. d \in Call
  BY DEF Call
<1>3. /\ d.type = c.type /\ d.id = c.id /\ d.step = c.step /\ d.todo = c.todo
      /\ d.looked = c.looked /\ d.label = c.label /\ d.doc = c.doc
      /\ d.cached = c.cached /\ d.disturbed
  BY DEF Call
<1> HIDE DEF d
<1>4. QED
  BY <1>1, <1>2, <1>3, NothingIsNoCall DEF SameButDisturbed

LEMMA AlikeWhenRaced == ASSUME NEW seals, NEW raced, Alike(seals, raced) PROVE Alike(seals, TRUE)
BY DEF Alike

\* Whatever becomes of the keys and of the files, a call that knows that it is
\* disturbed relies on none of them.
LEMMA DisturbedFits ==
    ASSUME NEW c \in Call, NEW d \in Call, CallOK(c), SameButDisturbed(c, d),
           c.label # NoKey => masterKey' # NoKey,
           c.step = "seal" => d.doc.raced \/ masterKey' = masterKey
    PROVE  CallOK(d)'
<1>1. CASE d.doc = c.doc
  <2>1. CallFits(d)' /\ IsExact(d)'
    BY <1>1 DEF CallOK, CallFits, IsExact, SameButDisturbed
  <2>2. Before(d) = Before(c) /\ After(d) = After(c)
    BY <1>1 DEF Before, After, SameButDisturbed
  <2>3. d.step = "seal" => Seals(d)'
    BY <1>1, <2>2 DEF CallOK, Seals, SameButDisturbed
  <2>4. d.step = "open" => IsOpening(d)'
    BY <1>1, <2>2 DEF CallOK, IsOpening, OpensStored, SameButDisturbed
  <2>5. d.step = "found" => Found(d)'
    BY <1>1 DEF CallOK, Found, SameButDisturbed
  <2>6. QED
    BY <1>1, <2>1, <2>3, <2>4, <2>5 DEF CallOK, SameButDisturbed
<1>2. CASE d.doc # c.doc
  <2>1. /\ c.step \in {"seal", "write"} /\ d.doc \in Document /\ d.doc.raced
        /\ d.doc.seals = c.doc.seals /\ d.doc.encrypted = c.doc.encrypted
        /\ d.doc.marked = c.doc.marked /\ d.doc.crossed = c.doc.crossed
        /\ d.doc.raced = TRUE
    BY <1>2 DEF SameButDisturbed, Document
  <2>2. CallFits(d)' /\ IsExact(d)'
    BY <2>1, NothingIsNoCall DEF CallOK, CallFits, IsExact, SameButDisturbed
  <2>3. Before(d) = Before(c)
    BY <2>1 DEF Before, SameButDisturbed
  <2>4. d.step = "seal" => Seals(d)'
    BY <2>1, <2>3, AlikeWhenRaced DEF CallOK, Seals, SameButDisturbed
  <2>5. d.step = "write" => /\ StoredOK(d.doc)
                            /\ d.label # NoKey => \A f \in SensitiveFields : d.doc.seals[f] # <<>>
    BY <2>1, AlikeWhenRaced DEF CallOK, StoredOK, MarksFit, SameButDisturbed
  <2>6. QED
    BY <2>1, <2>2, <2>4, <2>5 DEF CallOK, SameButDisturbed
<1>3. QED
  BY <1>1, <1>2

LEMMA RaceType ==
    ASSUME NEW c \in Call, c.doc \in Document, c.step \in {"seal", "write"}
    PROVE  LET d == [c EXCEPT !.doc.raced = TRUE, !.disturbed = TRUE]
           IN  d \in Call /\ d # Idle /\ SameButDisturbed(c, d) /\ d.doc.raced
<1> DEFINE doc == [c.doc EXCEPT !.raced = TRUE]
           d   == [c EXCEPT !.doc.raced = TRUE, !.disturbed = TRUE]
<1>1. doc \in Document
  BY DEF Document
<1>2. /\ doc.seals = c.doc.seals /\ doc.encrypted = c.doc.encrypted
      /\ doc.marked = c.doc.marked /\ doc.crossed = c.doc.crossed /\ doc.raced
  BY DEF Document
<1>3. d = [c EXCEPT !.doc = doc, !.disturbed = TRUE]
  BY DEF Call
<1> HIDE DEF doc
<1>4. d \in Call
  BY <1>1, <1>3 DEF Call
<1>5. /\ d.type = c.type /\ d.id = c.id /\ d.step = c.step /\ d.todo = c.todo
      /\ d.looked = c.looked /\ d.label = c.label /\ d.doc = doc
      /\ d.cached = c.cached /\ d.disturbed
  BY <1>3 DEF Call
<1> HIDE DEF d
<1>6. SameButDisturbed(c, d)
  BY <1>1, <1>2, <1>5 DEF SameButDisturbed
<1>7. d.doc.raced
  BY <1>2, <1>5
<1>8. QED
  BY <1>4, <1>6, <1>7, NothingIsNoCall DEF d

\* All calls are disturbed, or over.
LEMMA DisturbedCallsFit ==
    ASSUME Inv, calls' \in [Goroutines -> Call \cup {Idle}],
           masterKey # NoKey => masterKey' # NoKey,
           \A h \in Goroutines : calls'[h] # Idle =>
              /\ calls[h] # Idle /\ SameButDisturbed(calls[h], calls'[h])
              /\ calls[h].step = "seal" => calls'[h].doc.raced \/ masterKey' = masterKey
    PROVE  \A h \in Goroutines : calls'[h] # Idle => CallOK(calls[h])'
<1>1. ASSUME NEW h \in Goroutines, calls'[h] # Idle PROVE CallOK(calls[h])'
  <2>1. PICK c \in Call : c = calls[h] /\ CallOK(c)
    BY <1>1 DEF Inv, TypeOK
  <2>2. PICK d \in Call : d = calls'[h]
    BY <1>1
  <2>3. SameButDisturbed(c, d) /\ (c.step = "seal" => d.doc.raced \/ masterKey' = masterKey)
    BY <1>1, <2>1, <2>2
  <2>4. c.label # NoKey => masterKey' # NoKey
    BY <2>1 DEF CallOK, CallFits
  <2>5. CallOK(d)'
    BY <2>1, <2>3, <2>4, DisturbedFits
  <2>6. QED
    BY <2>2, <2>5
<1>2. QED
  BY <1>1

\* A document is written or deleted, or a key comes, goes or expires.
LEMMA ChangeKeepsInv ==
    ASSUME Inv,
           calls' = [h \in Goroutines |-> calls'[h]],
           \A h \in Goroutines : calls'[h] \in {Idle, Disturb(calls[h])},
           UNCHANGED masterKey, keyCache' \subseteq Cachers, expired' \subseteq Expiring,
           disk' \in [IDs -> Document \cup {NoDocument}],
           \A id \in IDs : disk'[id] # NoDocument => StoredOK(disk'[id])
    PROVE  Inv'
<1>1. ASSUME NEW h \in Goroutines
      PROVE  /\ calls'[h] \in Call \cup {Idle}
             /\ calls'[h] # Idle => calls[h] # Idle /\ SameButDisturbed(calls[h], calls'[h])
  <2>1. calls'[h] = Idle \/ calls'[h] = Disturb(calls[h])
    OBVIOUS
  <2>2. CASE calls[h] = Idle
    BY <2>1, <2>2 DEF Disturb
  <2>3. CASE calls[h] # Idle
    BY <2>1, <2>3, DisturbType DEF Inv, TypeOK
  <2>4. QED
    BY <2>2, <2>3
<1>2. calls' \in [Goroutines -> Call \cup {Idle}]
  BY <1>1
<1>3. \A h \in Goroutines : calls'[h] # Idle => CallOK(calls[h])'
  BY <1>1, <1>2, DisturbedCallsFit
<1>4. TypeOK'
  BY <1>2 DEF Inv, TypeOK
<1>5. QED
  BY <1>3, <1>4 DEF Inv, StoredOK

LEMMA SetMasterKeyKeepsInv ==
    ASSUME Inv, NEW k \in Keys, SetMasterKey(k)
    PROVE  Inv'
<1>1. masterKey' = k /\ k # NoKey
  BY EncryptionAssumption DEF SetMasterKey, EncryptionAssumption
<1>2. ASSUME NEW h \in Goroutines
      PROVE  /\ calls'[h] \in Call \cup {Idle}
             /\ calls'[h] # Idle =>
                   /\ calls[h] # Idle /\ SameButDisturbed(calls[h], calls'[h])
                   /\ calls[h].step = "seal" => calls'[h].doc.raced
  <2>1. calls'[h] = IF Writing(h) THEN [calls[h] EXCEPT !.doc.raced = TRUE, !.disturbed = TRUE]
                    ELSE Disturb(calls[h])
    BY DEF SetMasterKey
  <2>2. CASE Writing(h)
    <3>1. calls[h] \in Call /\ calls[h].step \in {"seal", "write"} /\ CallFits(calls[h])
      BY <2>2 DEF Inv, TypeOK, Writing, Busy, CallOK
    <3>2. calls[h].doc \in Document /\ calls[h] # Idle
      BY <3>1, <2>2 DEF CallFits, Call, Writing, Busy
    <3>3. QED
      BY <2>1, <2>2, <3>1, <3>2, RaceType
  <2>3. CASE ~ Writing(h) /\ calls[h] = Idle
    BY <2>1, <2>3 DEF Disturb
  <2>4. CASE ~ Writing(h) /\ calls[h] # Idle
    BY <2>1, <2>4, DisturbType DEF Inv, TypeOK, Writing, Busy
  <2>5. QED
    BY <2>2, <2>3, <2>4
<1>3. calls' \in [Goroutines -> Call \cup {Idle}]
  BY <1>2 DEF SetMasterKey
<1>4. \A h \in Goroutines : calls'[h] # Idle => CallOK(calls[h])'
  BY <1>1, <1>2, <1>3, DisturbedCallsFit
<1>5. TypeOK'
  BY <1>1, <1>3 DEF Inv, TypeOK, SetMasterKey
<1>6. ASSUME NEW id \in IDs, disk'[id] # NoDocument PROVE StoredOK(disk[id])'
  BY <1>6 DEF Inv, SetMasterKey
<1>7. QED
  BY <1>4, <1>5, <1>6 DEF Inv

LEMMA OtherKeysKeepInv ==
    ASSUME Inv, NEW k \in Keys, CacheKey(k) \/ RemoveKey(k) \/ Expire(k)
    PROVE  Inv'
<1>1. /\ calls' = [h \in Goroutines |-> calls'[h]]
      /\ \A h \in Goroutines : calls'[h] \in {Idle, Disturb(calls[h])}
  BY DEF CacheKey, RemoveKey, Expire
<1>2. /\ UNCHANGED <<masterKey, disk>>
      /\ keyCache' \subseteq Cachers /\ expired' \subseteq Expiring
  BY DEF CacheKey, RemoveKey, Expire, Inv, TypeOK
<1>3. /\ disk' \in [IDs -> Document \cup {NoDocument}]
      /\ \A id \in IDs : disk'[id] # NoDocument => StoredOK(disk'[id])
  BY <1>2 DEF Inv, TypeOK
<1>4. QED
  BY <1>1, <1>2, <1>3, ChangeKeepsInv

LEMMA RestartKeepsInv == ASSUME Inv, Restart PROVE Inv'
<1>1. /\ \A h \in Goroutines : calls'[h] = Idle
      /\ UNCHANGED <<expired, disk>> /\ masterKey' = NoKey /\ keyCache' = {}
      /\ calls' \in [Goroutines -> Call \cup {Idle}]
  BY DEF Restart
<1>2. TypeOK'
  BY <1>1 DEF Inv, TypeOK
<1>3. ASSUME NEW id \in IDs, disk'[id] # NoDocument PROVE StoredOK(disk[id])'
  BY <1>1, <1>3 DEF Inv
<1>4. QED
  BY <1>1, <1>2, <1>3 DEF Inv

LEMMA DeleteKeepsInv ==
    ASSUME Inv, NEW g \in Goroutines, NEW id \in IDs, Delete(g, id)
    PROVE  Inv'
<1>1. /\ calls' = [h \in Goroutines |-> calls'[h]]
      /\ \A h \in Goroutines : calls'[h] \in {Idle, Disturb(calls[h])}
  BY DEF Delete
<1>2. UNCHANGED <<masterKey, keyCache, expired>> /\ disk' = [disk EXCEPT ![id] = NoDocument]
  BY DEF Delete
<1>3. /\ disk' \in [IDs -> Document \cup {NoDocument}]
      /\ \A i \in IDs : disk'[i] # NoDocument => StoredOK(disk'[i])
  BY <1>2 DEF Inv, TypeOK
<1>4. QED
  BY <1>1, <1>2, <1>3, ChangeKeepsInv DEF Inv, TypeOK

LEMMA WriteFileKeepsInv ==
    ASSUME Inv, NEW g \in Goroutines, WriteFile(g)
    PROVE  Inv'
<1>1. /\ calls' = [h \in Goroutines |-> calls'[h]]
      /\ \A h \in Goroutines : calls'[h] \in {Idle, Disturb(calls[h])}
  BY DEF WriteFile
<1>2. PICK c \in Call : c = calls[g] /\ CallOK(c) /\ c.step = "write"
  BY DEF Inv, TypeOK, WriteFile, Busy
<1>3. UNCHANGED <<masterKey, keyCache, expired>> /\ disk' = [disk EXCEPT ![c.id] = c.doc]
  BY <1>2 DEF WriteFile
<1>4. c.id \in IDs /\ c.doc \in Document \cup {NoDocument} /\ StoredOK(c.doc)
  BY <1>2 DEF CallOK, Call
<1>5. /\ disk' \in [IDs -> Document \cup {NoDocument}]
      /\ \A i \in IDs : disk'[i] # NoDocument => StoredOK(disk'[i])
  BY <1>3, <1>4 DEF Inv, TypeOK
<1>6. QED
  BY <1>1, <1>3, <1>5, ChangeKeepsInv DEF Inv, TypeOK

-----------------------------------------------------------------------------
(***************************************************************************)
(* Insert.                                                                 *)
(***************************************************************************)
\* A document that is written as it is, or all of whose fields are to be sealed.
LEMMA WriterFits ==
    ASSUME Inv, NEW id \in IDs, NEW doc \in Document, Alike(doc.seals, doc.raced),
           masterKey # NoKey => (~ doc.crossed => Longest(doc.seals, 0)),
           masterKey = NoKey => StoredOK(doc)
    PROVE  Writer(id, doc) \in Call /\ CallOK(Writer(id, doc))
<1> DEFINE marked == [doc EXCEPT !.encrypted = TRUE, !.marked = TRUE]
           w      == Writer(id, doc)
<1>1. masterKey \in Keys \cup {NoKey} /\ doc # NoDocument
  BY NothingIsNoCall DEF Inv, TypeOK
<1>2. CASE masterKey # NoKey
  <2>1. marked \in Document /\ marked # NoDocument
    BY NothingIsNoCall DEF Document
  <2>2. /\ marked.seals = doc.seals /\ marked.crossed = doc.crossed
        /\ marked.raced = doc.raced /\ marked.encrypted /\ marked.marked
    BY DEF Document
  <2>3. doc.seals = [f \in SensitiveFields |-> doc.seals[f]]
    BY DEF Document
  <2> HIDE DEF marked
  <2>4. w = [type |-> "insert", id |-> id, step |-> "seal", doc |-> marked,
             todo |-> SensitiveFields, looked |-> {}, cached |-> FALSE,
             label |-> masterKey, disturbed |-> FALSE]
    BY <1>2 DEF Writer, marked
  <2>5. w \in Call
    BY <1>1, <2>1, <2>4 DEF Call
  <2>6. /\ w.type = "insert" /\ w.step = "seal" /\ w.doc = marked /\ w.looked = {}
        /\ w.todo = SensitiveFields /\ w.label = masterKey
    BY <2>4
  <2> HIDE DEF w
  <2>7. Before(w) = doc.seals
    BY <2>2, <2>3, <2>6 DEF Before
  <2>8. Seals(w)
    BY <1>2, <2>2, <2>6, <2>7 DEF Seals
  <2>9. CallFits(w) /\ IsExact(w)
    BY <1>2, <2>1, <2>6 DEF CallFits, IsExact
  <2>10. QED
    BY <2>5, <2>6, <2>8, <2>9 DEF CallOK, w
<1>3. CASE masterKey = NoKey
  <2>1. w = [type |-> "insert", id |-> id, step |-> "write", doc |-> doc,
             todo |-> {}, looked |-> {}, cached |-> FALSE,
             label |-> masterKey, disturbed |-> FALSE]
    BY <1>3 DEF Writer
  <2>2. w \in Call
    BY <1>1, <2>1 DEF Call
  <2>3. /\ w.type = "insert" /\ w.step = "write" /\ w.doc = doc /\ w.looked = {}
        /\ w.todo = {} /\ w.label = NoKey
    BY <1>3, <2>1
  <2> HIDE DEF w
  <2>4. CallFits(w) /\ IsExact(w)
    BY <1>1, <2>3 DEF CallFits, IsExact
  <2>5. QED
    BY <1>3, <2>2, <2>3, <2>4 DEF CallOK, w
<1>4. QED
  BY <1>2, <1>3

LEMMA InsertKeepsInv ==
    ASSUME Inv, NEW g \in Goroutines, NEW id \in IDs, Insert(g, id)
    PROVE  Inv'
<1>1. Writer(id, Plain) \in Call /\ CallOK(Writer(id, Plain))
  <2>1. Alike(Plain.seals, Plain.raced) /\ Longest(Plain.seals, 0)
    BY PlainType, NothingIsAlike
  <2>2. QED
    BY <2>1, PlainType, WriterFits
<1>2. /\ calls' = [calls EXCEPT ![g] = Writer(id, Plain)]
      /\ UNCHANGED <<masterKey, keyCache, expired, disk>>
  BY DEF Insert
<1>3. QED
  BY <1>1, <1>2, OneCallKeepsInv

\* A call that fails, with good reason.
LEMMA FailedFits ==
    ASSUME Inv, NEW c \in Call, CallOK(c), c.step \in {"seal", "open"},
           c.step = "open" /\ ~ c.disturbed =>
               \E f \in SensitiveFields : ~ Opens(Head(disk[c.id].seals[f]))
    PROVE  Failed(c) \in Call /\ CallOK(Failed(c))
<1> DEFINE d == Failed(c)
<1>1. d \in Call
  BY DEF Failed, Call
<1>2. /\ d.type = c.type /\ d.id = c.id /\ d.step = "failed" /\ d.looked = {}
      /\ d.todo = {} /\ d.label = c.label /\ d.disturbed = c.disturbed
  BY DEF Failed, Call
<1> HIDE DEF d
<1>3. CallFits(d)
  BY <1>2 DEF CallOK, CallFits
<1>4. ASSUME d.type # "insert", ~ d.disturbed
      PROVE  /\ masterKey # NoKey /\ Sealed(disk[d.id])
             /\ \E f \in SensitiveFields : ~ Opens(Head(disk[d.id].seals[f]))
  <2>1. c.type # "insert" /\ c.step = "open" /\ ~ c.disturbed /\ d.id = c.id /\ c.id \in IDs
    BY <1>2, <1>4 DEF CallOK, CallFits, Call
  <2>2. PICK f \in SensitiveFields : ~ Opens(Head(disk[c.id].seals[f]))
    BY <2>1
  <2>3. IsOpening(c) /\ OpensStored(c)
    BY <2>1 DEF CallOK, IsOpening
  <2>4. masterKey # NoKey /\ disk[c.id] # NoDocument /\ disk[c.id].marked
    BY <2>1, <2>3 DEF IsOpening, OpensStored
  <2>5. disk[c.id].seals[f] # <<>>
    BY <2>1, <2>4 DEF Inv, StoredOK, MarksFit
  <2>6. QED
    BY <2>1, <2>2, <2>4, <2>5 DEF Sealed
<1>5. IsExact(d)
  BY <1>2, <1>4 DEF IsExact
<1>6. QED
  BY <1>1, <1>2, <1>3, <1>5 DEF CallOK, d

\* A field has been looked up.
LEMMA LookedFits ==
    ASSUME Inv, NEW c \in Call, CallOK(c), c.step \in {"seal", "open"},
           NEW f \in c.todo, NEW label,
           label \in keyCache \cup {masterKey},
           c.step = "open" /\ ~ c.disturbed => label = Head(disk[c.id].seals[f]).label
    PROVE  LET d == [c EXCEPT !.looked = {f}, !.cached = label \in keyCache]
           IN  d \in Call /\ CallOK(d)
<1> DEFINE d == [c EXCEPT !.looked = {f}, !.cached = label \in keyCache]
<1>1. f \in SensitiveFields
  BY DEF Call
<1>2. d \in Call
  <2>1. \A cached \in BOOLEAN : [c EXCEPT !.looked = {f}, !.cached = cached] \in Call
    BY <1>1 DEF Call
  <2>2. (label \in keyCache) \in BOOLEAN
    OBVIOUS
  <2>3. QED
    BY <2>1, <2>2, Zenon
<1>3. /\ d.type = c.type /\ d.id = c.id /\ d.step = c.step /\ d.looked = {f}
      /\ d.todo = c.todo /\ d.label = c.label /\ d.doc = c.doc
  BY DEF Call
<1>4. (d.cached <=> label \in keyCache) /\ (d.disturbed <=> c.disturbed)
  BY DEF Call
<1> HIDE DEF d
<1>5. Before(d) = Before(c) /\ After(d) = After(c)
  BY <1>3 DEF Before, After
<1>6. CallFits(d) /\ IsExact(d)
  BY <1>3 DEF CallOK, CallFits, IsExact
<1>7. d.step = "seal" => Seals(d)
  BY <1>3, <1>5 DEF CallOK, Seals
<1>8. ASSUME d.step = "open" PROVE IsOpening(d)
  <2>1. IsOpening(c) /\ c.step = "open"
    BY <1>3, <1>8 DEF CallOK
  <2>2. OpensStored(d)
    BY <1>3, <1>4, <2>1 DEF IsOpening, OpensStored
  <2>3. QED
    BY <1>3, <1>5, <2>1, <2>2 DEF IsOpening
<1>9. QED
  BY <1>2, <1>3, <1>6, <1>7, <1>8 DEF CallOK, d

LEMMA LookupToSealKeepsInv ==
    ASSUME Inv, NEW g \in Goroutines, NEW f \in SensitiveFields, LookupToSeal(g, f)
    PROVE  Inv'
<1>1. PICK c \in Call : c = calls[g] /\ CallOK(c) /\ c.step = "seal" /\ f \in c.todo
  BY DEF Inv, TypeOK, LookupToSeal, Lookup, Busy
<1>2. /\ calls' = [calls EXCEPT ![g] =
             IF c.label \in keyCache \/ masterKey = c.label
             THEN [c EXCEPT !.looked = {f}, !.cached = c.label \in keyCache]
             ELSE Failed(c)]
      /\ UNCHANGED <<masterKey, keyCache, expired, disk>>
  BY <1>1 DEF LookupToSeal, Lookup, Inv, TypeOK
<1>3. Failed(c) \in Call /\ CallOK(Failed(c))
  BY <1>1, FailedFits
<1>4. CASE c.label \in keyCache \/ masterKey = c.label
  <2> DEFINE d == [c EXCEPT !.looked = {f}, !.cached = c.label \in keyCache]
  <2>1. c.label \in keyCache \cup {masterKey}
    BY <1>4
  <2>2. d \in Call /\ CallOK(d)
    BY <1>1, <2>1, LookedFits
  <2> HIDE DEF d
  <2>3. calls' = [calls EXCEPT ![g] = d]
    BY <1>2, <1>4 DEF d
  <2>4. QED
    BY <1>2, <2>2, <2>3, OneCallKeepsInv
<1>5. CASE ~ (c.label \in keyCache \/ masterKey = c.label)
  BY <1>2, <1>3, <1>5, OneCallKeepsInv
<1>6. QED
  BY <1>4, <1>5

LEMMA LookupToOpenKeepsInv ==
    ASSUME Inv, NEW g \in Goroutines, NEW f \in SensitiveFields, LookupToOpen(g, f)
    PROVE  Inv'
<1>1. PICK c \in Call : c = calls[g] /\ CallOK(c) /\ c.step = "open" /\ f \in c.todo
  BY DEF Inv, TypeOK, LookupToOpen, Lookup, Busy
<1>2. PICK label : label = Head(c.doc.seals[f]).label
  OBVIOUS
<1>3. /\ calls' = [calls EXCEPT ![g] =
             IF label \in keyCache \/ masterKey = label
             THEN [c EXCEPT !.looked = {f}, !.cached = label \in keyCache]
             ELSE Failed(c)]
      /\ UNCHANGED <<masterKey, keyCache, expired, disk>>
  BY <1>1, <1>2 DEF LookupToOpen, Lookup, Inv, TypeOK
<1>4. ~ c.disturbed => label = Head(disk[c.id].seals[f]).label
  BY <1>1, <1>2 DEF CallOK, IsOpening, OpensStored
<1>5. CASE label \in keyCache \/ masterKey = label
  <2> DEFINE d == [c EXCEPT !.looked = {f}, !.cached = label \in keyCache]
  <2>1. label \in keyCache \cup {masterKey}
    BY <1>5
  <2>2. d \in Call /\ CallOK(d)
    BY <1>1, <1>4, <2>1, LookedFits
  <2> HIDE DEF d
  <2>3. calls' = [calls EXCEPT ![g] = d]
    BY <1>3, <1>5 DEF d
  <2>4. QED
    BY <1>3, <2>2, <2>3, OneCallKeepsInv
<1>6. CASE ~ (label \in keyCache \/ masterKey = label)
  <2>1. ~ c.disturbed => ~ Opens(Head(disk[c.id].seals[f]))
    BY <1>4, <1>6 DEF Opens
  <2>2. Failed(c) \in Call /\ CallOK(Failed(c))
    BY <1>1, <2>1, FailedFits
  <2>3. QED
    BY <1>3, <1>6, <2>2, OneCallKeepsInv
<1>7. QED
  BY <1>5, <1>6

\* The key pair that a call uses is one, and has the name that was looked up,
\* unless another master key has been set.
LEMMA KeyPairUsed ==
    ASSUME Inv, NEW g \in Goroutines, calls[g] # Idle, NEW label \in Keys, masterKey \in Keys
    PROVE  /\ KeyPair(g, label) \in Keys
           /\ calls[g].cached \/ masterKey = label => KeyPair(g, label) = label
BY DEF KeyPair

LEMMA DoneType ==
    ASSUME NEW c \in Call, NEW f, NEW step \in {"found", "write"}
    PROVE  Done(c, f, step) \in Call
<1>1. PICK next : next = (IF c.todo = {f} THEN step ELSE c.step)
  OBVIOUS
<1>2. next \in {"open", "found", "failed", "seal", "write"}
  BY <1>1 DEF Call
<1>3. PICK left : left = c.todo \ {f}
  OBVIOUS
<1>4. left \in SUBSET SensitiveFields /\ {} \in SUBSET SensitiveFields
  BY <1>3 DEF Call
<1>5. Done(c, f, step) = [c EXCEPT !.step = next, !.todo = left, !.looked = {}, !.cached = FALSE]
  BY <1>1, <1>3 DEF Done, Call
<1>6. QED
  BY <1>2, <1>4, <1>5 DEF Call

\* A field has been sealed.
LEMMA SealedFits ==
    ASSUME Inv, NEW c \in Call, CallOK(c), c.step = "seal", NEW f \in c.looked,
           NEW key \in Keys, c.doc.raced \/ key = c.label
    PROVE  LET d == [Done(c, f, "write") EXCEPT
                        !.doc.seals[f] = <<[label |-> c.label, key |-> key]>> \o @]
           IN  d \in Call /\ CallOK(d)
<1> DEFINE x    == [label |-> c.label, key |-> key]
           done == Done(c, f, "write")
           on   == <<x>> \o c.doc.seals[f]
           doc  == [c.doc EXCEPT !.seals[f] = on]
           d    == [done EXCEPT !.doc.seals[f] = <<x>> \o @]
<1>1. /\ CallFits(c) /\ Seals(c) /\ c.doc \in Document /\ f \in c.todo /\ f \in SensitiveFields
      /\ c.label \in Keys /\ c.id \in IDs /\ c.type = "insert"
  BY DEF CallOK, CallFits, Seals, Call
<1>2. x \in Seal /\ c.doc.seals \in SealsType /\ c.doc.seals[f] \in Seq(Seal)
      /\ x.label = c.label /\ x.key = key
  BY <1>1 DEF Seal, Document, SealsType
<1>3. on \in Seq(Seal) /\ on # <<>> /\ Head(on) = x /\ Tail(on) = c.doc.seals[f]
  BY <1>2, SealOnTop
<1> HIDE DEF x
<1>4. done = [c EXCEPT !.step = IF c.todo = {f} THEN "write" ELSE @,
                       !.todo = @ \ {f}, !.looked = {}, !.cached = FALSE]
  BY DEF Done
<1>5. done.doc = c.doc
  BY <1>4 DEF Call
<1>6. d = [done EXCEPT !.doc = doc]
  BY <1>4, <1>5 DEF Call, Document
<1> HIDE DEF on
<1>7. doc \in Document /\ doc # NoDocument
  <2>1. [c.doc.seals EXCEPT ![f] = on] \in [SensitiveFields -> Seq(Seal)]
    BY <1>2, <1>3 DEF SealsType
  <2>2. doc = [c.doc EXCEPT !.seals = [c.doc.seals EXCEPT ![f] = on]]
    BY <1>1 DEF Document
  <2>3. doc \in Document
    BY <1>1, <2>1, <2>2 DEF Document
  <2>4. QED
    BY <2>3, NothingIsNoCall
<1>8. /\ \A h \in SensitiveFields : doc.seals[h] = IF h = f THEN on ELSE c.doc.seals[h]
      /\ doc.seals \in SealsType
      /\ doc.encrypted = c.doc.encrypted /\ doc.marked = c.doc.marked
      /\ doc.raced = c.doc.raced /\ doc.crossed = c.doc.crossed
  BY <1>1, <1>7 DEF Document, SealsType
<1> HIDE DEF doc
<1>9. d \in Call
  <2>1. done \in Call
    BY DoneType DEF done
  <2>2. QED
    BY <1>6, <1>7, <2>1 DEF Call
<1>10. /\ d.type = "insert" /\ d.id = c.id /\ d.step = (IF c.todo = {f} THEN "write" ELSE "seal")
       /\ d.doc = doc /\ d.todo = c.todo \ {f} /\ d.looked = {} /\ d.label = c.label
  BY <1>1, <1>4, <1>6 DEF Call
<1> HIDE DEF d, done
<1>11. Before(d) = Before(c)
  <2>1. \A h \in SensitiveFields : (IF h \in d.todo THEN d.doc.seals[h] ELSE Tail(d.doc.seals[h]))
                                 = (IF h \in c.todo THEN c.doc.seals[h] ELSE Tail(c.doc.seals[h]))
    BY <1>1, <1>3, <1>8, <1>10
  <2>2. QED
    BY <2>1 DEF Before
<1>12. \A h \in SensitiveFields \ d.todo :
          /\ doc.seals[h] # <<>>
          /\ Head(doc.seals[h]).label = c.label
          /\ doc.raced \/ Head(doc.seals[h]).key = c.label
  BY <1>1, <1>2, <1>3, <1>8, <1>10 DEF Seals
<1>13. Alike(Before(d), doc.raced) /\ (~ doc.crossed => Longest(Before(d), 0))
  BY <1>1, <1>8, <1>11 DEF Seals
<1>14. Seals(d)
  BY <1>1, <1>8, <1>10, <1>12, <1>13 DEF Seals
<1>15. CallFits(d) /\ IsExact(d)
  BY <1>1, <1>7, <1>10 DEF CallFits, IsExact
<1>16. ASSUME d.step = "write"
       PROVE  StoredOK(doc) /\ \A h \in SensitiveFields : doc.seals[h] # <<>>
  <2>1. d.todo = {}
    BY <1>10, <1>16
  <2>2. \A h \in SensitiveFields :
           /\ doc.seals[h] # <<>> /\ Head(doc.seals[h]).label = c.label
           /\ doc.raced \/ Head(doc.seals[h]).key = c.label
    BY <1>12, <2>1
  <2>3. Before(d) = [h \in SensitiveFields |-> Tail(doc.seals[h])]
    BY <1>10, <2>1 DEF Before
  <2>4. Alike(doc.seals, doc.raced)
    <3>1. PICK tails : /\ tails = [h \in SensitiveFields |-> Tail(doc.seals[h])]
                       /\ Alike(tails, doc.raced)
      BY <1>13, <2>3
    <3>2. doc.seals \in SealsType
      BY <1>8
    <3>3. QED
      BY <2>2, <3>1, <3>2, AlikeWithTop
  <2>5. ASSUME ~ doc.crossed PROVE Longest(doc.seals, 1)
    <3>1. ASSUME NEW h \in SensitiveFields PROVE Len(doc.seals[h]) <= 1
      <4>1. Len(Tail(doc.seals[h])) <= 0
        BY <1>13, <2>3, <2>5 DEF Longest
      <4>2. /\ Len(doc.seals[h]) = Len(Tail(doc.seals[h])) + 1
            /\ Len(Tail(doc.seals[h])) \in Nat
        BY <1>8, <2>2, SealsOfField DEF SealsType
      <4>3. QED
        BY <4>1, <4>2
    <3>2. QED
      BY <3>1 DEF Longest
  <2>6. MarksFit(doc)
    BY <1>1, <1>8, <2>2 DEF MarksFit, Seals
  <2>7. QED
    BY <2>2, <2>4, <2>5, <2>6 DEF StoredOK
<1>17. CallOK(d)
  BY <1>10, <1>14, <1>15, <1>16 DEF CallOK
<1>18. QED
  BY <1>9, <1>17 DEF d, done, x

LEMMA EncryptDataKeepsInv ==
    ASSUME Inv, NEW g \in Goroutines, NEW f \in SensitiveFields, EncryptData(g, f)
    PROVE  Inv'
<1>1. PICK c \in Call : c = calls[g] /\ CallOK(c) /\ c.step = "seal" /\ f \in c.looked
  BY DEF Inv, TypeOK, EncryptData, Busy
<1>2. PICK key : key = KeyPair(g, c.label)
  OBVIOUS
<1> DEFINE d == [Done(c, f, "write") EXCEPT
                    !.doc.seals[f] = <<[label |-> c.label, key |-> key]>> \o @]
<1>3. /\ calls' = [calls EXCEPT ![g] = IF ~ IsActive(key) THEN Failed(c) ELSE d]
      /\ UNCHANGED <<masterKey, keyCache, expired, disk>>
  BY <1>1, <1>2 DEF EncryptData, Inv, TypeOK
<1>4. /\ c.label \in Keys /\ masterKey \in Keys /\ calls[g] # Idle
      /\ c.doc.raced \/ masterKey = c.label
  BY <1>1, NothingIsNoCall DEF Inv, TypeOK, CallOK, CallFits, Seals, Call
<1>5. key \in Keys /\ (c.doc.raced \/ key = c.label)
  BY <1>1, <1>2, <1>4, KeyPairUsed
<1>6. d \in Call /\ CallOK(d)
  BY <1>1, <1>5, SealedFits
<1> HIDE DEF d
<1>7. Failed(c) \in Call /\ CallOK(Failed(c))
  BY <1>1, FailedFits
<1>8. CASE IsActive(key)
  BY <1>3, <1>6, <1>8, OneCallKeepsInv
<1>9. CASE ~ IsActive(key)
  BY <1>3, <1>7, <1>9, OneCallKeepsInv
<1>10. QED
  BY <1>8, <1>9

-----------------------------------------------------------------------------
(***************************************************************************)
(* Find.                                                                   *)
(***************************************************************************)
LEMMA OpenedType ==
    ASSUME NEW doc \in Document
    PROVE  /\ Opened(doc) \in Document /\ Opened(doc) # NoDocument
           /\ Opened(doc).seals = doc.seals /\ Opened(doc).raced = doc.raced
           /\ Opened(doc).crossed = doc.crossed
<1>1. Opened(doc) \in Document
  BY DEF Opened, Document
<1>2. /\ Opened(doc).seals = doc.seals /\ Opened(doc).raced = doc.raced
      /\ Opened(doc).crossed = doc.crossed
  BY DEF Opened, Document
<1>3. QED
  BY <1>1, <1>2, NothingIsNoCall

\* Of a document that is stored, all fields are sealed, or none; and without its top
\* seals one that was not crossed has none.
LEMMA StoredSeals ==
    ASSUME NEW doc \in Document, StoredOK(doc)
    PROVE  /\ doc.marked <=> Sealed(doc)
           /\ ~ doc.marked => Longest(doc.seals, 0)
           /\ doc.marked /\ ~ doc.crossed =>
                 \A f \in SensitiveFields : Len(Tail(doc.seals[f])) <= 0
<1>1. doc.marked <=> Sealed(doc)
  BY EncryptionAssumption DEF StoredOK, MarksFit, Sealed, EncryptionAssumption
<1>2. ~ doc.marked => Longest(doc.seals, 0)
  BY NothingIsAlike DEF StoredOK, MarksFit
<1>3. ASSUME doc.marked, ~ doc.crossed, NEW f \in SensitiveFields
      PROVE  Len(Tail(doc.seals[f])) <= 0
  <2>1. doc.seals[f] # <<>> /\ Len(doc.seals[f]) <= 1 /\ doc.seals[f] \in Seq(Seal)
    BY <1>3 DEF StoredOK, MarksFit, Longest, Document
  <2>2. /\ Len(doc.seals[f]) = Len(Tail(doc.seals[f])) + 1
        /\ Len(Tail(doc.seals[f])) \in Nat
    BY <2>1, SealsOfField
  <2>3. QED
    BY <2>1, <2>2
<1>4. QED
  BY <1>1, <1>2, <1>3

LEMMA FindKeepsInv ==
    ASSUME Inv, NEW g \in Goroutines, NEW type \in {"find", "handle"}, NEW id \in IDs,
           Find(g, type, id)
    PROVE  Inv'
<1>1. PICK doc \in Document \cup {NoDocument} : doc = disk[id]
  BY DEF Inv, TypeOK
<1> DEFINE open == doc # NoDocument /\ doc.encrypted /\ masterKey # NoKey
           d    == [type   |-> type,
                    id     |-> id,
                    step   |-> IF open /\ doc.marked THEN "open" ELSE "found",
                    doc    |-> IF open THEN Opened(doc) ELSE doc,
                    todo   |-> IF open /\ doc.marked THEN SensitiveFields ELSE {},
                    looked |-> {}, cached |-> FALSE,
                    label  |-> masterKey, disturbed |-> FALSE]
<1>2. calls' = [calls EXCEPT ![g] = d] /\ UNCHANGED <<masterKey, keyCache, expired, disk>>
  BY <1>1 DEF Find
<1>3. /\ d.type = type /\ d.id = id /\ d.step = (IF open /\ doc.marked THEN "open" ELSE "found")
      /\ d.doc = (IF open THEN Opened(doc) ELSE doc)
      /\ d.todo = (IF open /\ doc.marked THEN SensitiveFields ELSE {})
      /\ d.looked = {} /\ d.label = masterKey
  OBVIOUS
<1>4. masterKey \in Keys \cup {NoKey}
  BY DEF Inv, TypeOK
<1>5. doc # NoDocument => doc \in Document /\ StoredOK(doc)
  BY <1>1 DEF Inv
<1>6. d \in Call
  <2>1. d.doc \in Document \cup {NoDocument}
    BY <1>1, <1>3, OpenedType
  <2>2. d.step \in {"open", "found"} /\ d.todo \in SUBSET SensitiveFields
    BY <1>3
  <2>3. QED
    BY <1>4, <2>1, <2>2 DEF Call
<1> HIDE DEF d
<1>7. CallFits(d)
  BY <1>3, <1>5, OpenedType DEF CallFits
<1>8. CASE open /\ doc.marked
  <2>1. /\ doc \in Document /\ StoredOK(doc) /\ d.step = "open" /\ d.doc.seals = doc.seals
        /\ d.todo = SensitiveFields /\ d.doc.raced = doc.raced /\ d.doc.crossed = doc.crossed
    BY <1>3, <1>5, <1>8, OpenedType
  <2>2. \A f \in SensitiveFields : doc.seals[f] # <<>>
    BY <1>8, <2>1 DEF StoredOK, MarksFit
  <2>3. After(d) = [f \in SensitiveFields |-> Tail(doc.seals[f])]
    BY <2>1 DEF After
  <2>4. doc.seals \in SealsType /\ Alike(doc.seals, doc.raced)
    BY <2>1 DEF Document, SealsType, StoredOK
  <2>5. Alike(After(d), doc.raced)
    BY <2>2, <2>3, <2>4, AlikeWithoutTop
  <2>6. ~ doc.crossed => Longest(After(d), 0)
    BY <1>8, <2>1, <2>3, StoredSeals DEF Longest
  <2>7. OpensStored(d)
    BY <1>1, <1>3, <1>8, <2>1 DEF OpensStored
  <2>8. IsOpening(d)
    BY <1>3, <1>8, <2>1, <2>2, <2>5, <2>6, <2>7 DEF IsOpening
  <2>9. IsExact(d) /\ CallOK(d)
    BY <1>7, <2>1, <2>8 DEF IsExact, CallOK
  <2>10. QED
    BY <1>2, <1>6, <2>9, OneCallKeepsInv
<1>9. CASE ~ (open /\ doc.marked)
  <2>1. d.step = "found" /\ (doc = NoDocument <=> d.doc = NoDocument)
    BY <1>3, <1>5, <1>9, OpenedType
  <2>2. doc # NoDocument => /\ d.doc.seals = doc.seals /\ d.doc.raced = doc.raced
                            /\ d.doc.crossed = doc.crossed
                            /\ masterKey = NoKey => d.doc = doc
    BY <1>3, <1>5, OpenedType
  <2>3. doc # NoDocument /\ masterKey # NoKey => ~ doc.marked
    BY <1>5, <1>9 DEF StoredOK, MarksFit
  <2>4. doc # NoDocument /\ masterKey # NoKey => ~ Sealed(doc) /\ Longest(doc.seals, 0)
    BY <1>5, <2>3, StoredSeals
  <2>5. Found(d)
    BY <1>3, <1>5, <2>1, <2>2, <2>4 DEF Found, StoredOK
  <2>6. IsExact(d)
    BY <1>1, <1>3, <2>1, <2>2, <2>4 DEF IsExact
  <2>7. CallOK(d)
    BY <1>7, <2>1, <2>5, <2>6 DEF CallOK
  <2>8. QED
    BY <1>2, <1>6, <2>7, OneCallKeepsInv
<1>10. QED
  BY <1>8, <1>9

\* A field has been opened.
LEMMA OpenedFits ==
    ASSUME Inv, NEW c \in Call, CallOK(c), c.step = "open", NEW f \in c.looked,
           ~ c.disturbed => Opens(Head(disk[c.id].seals[f]))
    PROVE  LET d == [Done(c, f, "found") EXCEPT !.doc.seals[f] = Tail(@)]
           IN  d \in Call /\ CallOK(d)
<1> DEFINE done == Done(c, f, "found")
           off  == Tail(c.doc.seals[f])
           doc  == [c.doc EXCEPT !.seals[f] = off]
           d    == [done EXCEPT !.doc.seals[f] = Tail(@)]
<1>1. /\ CallFits(c) /\ IsOpening(c) /\ c.doc \in Document /\ f \in c.todo /\ f \in SensitiveFields
      /\ c.label \in Keys /\ c.id \in IDs /\ c.type # "insert"
  BY DEF CallOK, CallFits, IsOpening, Call
<1>2. c.doc.seals \in SealsType /\ c.doc.seals[f] \in Seq(Seal) /\ c.doc.seals[f] # <<>>
  BY <1>1 DEF Document, SealsType, IsOpening
<1>3. off \in Seq(Seal)
  BY <1>2, SealsOfField
<1>4. done = [c EXCEPT !.step = IF c.todo = {f} THEN "found" ELSE @,
                       !.todo = @ \ {f}, !.looked = {}, !.cached = FALSE]
  BY DEF Done
<1>5. done.doc = c.doc
  BY <1>4 DEF Call
<1>6. d = [done EXCEPT !.doc = doc]
  BY <1>4, <1>5 DEF Call, Document
<1> HIDE DEF off
<1>7. doc \in Document /\ doc # NoDocument
  <2>1. [c.doc.seals EXCEPT ![f] = off] \in [SensitiveFields -> Seq(Seal)]
    BY <1>2, <1>3 DEF SealsType
  <2>2. doc = [c.doc EXCEPT !.seals = [c.doc.seals EXCEPT ![f] = off]]
    BY <1>1 DEF Document
  <2>3. doc \in Document
    BY <1>1, <2>1, <2>2 DEF Document
  <2>4. QED
    BY <2>3, NothingIsNoCall
<1>8. /\ \A h \in SensitiveFields : doc.seals[h] = IF h = f THEN off ELSE c.doc.seals[h]
      /\ doc.seals \in SealsType
      /\ doc.raced = c.doc.raced /\ doc.crossed = c.doc.crossed
  BY <1>1, <1>7 DEF Document, SealsType
<1> HIDE DEF doc
<1>9. d \in Call
  <2>1. done \in Call
    BY DoneType DEF done
  <2>2. QED
    BY <1>6, <1>7, <2>1 DEF Call
<1>10. /\ d.type = c.type /\ d.id = c.id /\ d.step = (IF c.todo = {f} THEN "found" ELSE "open")
       /\ d.doc = doc /\ d.todo = c.todo \ {f} /\ d.looked = {} /\ d.label = c.label
  BY <1>1, <1>4, <1>6 DEF Call
<1>11. d.disturbed <=> c.disturbed
  BY <1>1, <1>4, <1>6 DEF Call
<1> HIDE DEF d, done
<1>12. After(d) = After(c)
  <2>1. \A h \in SensitiveFields : (IF h \in d.todo THEN Tail(d.doc.seals[h]) ELSE d.doc.seals[h])
                                 = (IF h \in c.todo THEN Tail(c.doc.seals[h]) ELSE c.doc.seals[h])
    BY <1>1, <1>8, <1>10 DEF off
  <2>2. QED
    BY <2>1 DEF After
<1>13. Alike(After(d), doc.raced) /\ (~ doc.crossed => Longest(After(d), 0))
  BY <1>1, <1>8, <1>12 DEF IsOpening
<1>14. \A h \in d.todo : doc.seals[h] # <<>>
  BY <1>1, <1>8, <1>10 DEF IsOpening, Call
<1>15. OpensStored(d)
  <2> SUFFICES ASSUME ~ d.disturbed PROVE OpensStored(d)
    BY DEF OpensStored
  <2>1. PICK stored : stored = disk[c.id]
    OBVIOUS
  <2>2. /\ c.label = masterKey /\ stored # NoDocument /\ stored.marked
        /\ \A h \in SensitiveFields :
              /\ c.doc.seals[h] = IF h \in c.todo THEN stored.seals[h] ELSE Tail(stored.seals[h])
              /\ h \notin c.todo => Opens(Head(stored.seals[h]))
    BY <1>1, <1>11, <2>1 DEF IsOpening, OpensStored
  <2>3. ASSUME NEW h \in SensitiveFields
        PROVE  /\ d.doc.seals[h] = IF h \in d.todo THEN stored.seals[h] ELSE Tail(stored.seals[h])
               /\ h \notin d.todo => Opens(Head(stored.seals[h]))
    BY <1>1, <1>8, <1>10, <1>11, <2>1, <2>2 DEF off
  <2>4. QED
    BY <1>10, <2>1, <2>2, <2>3 DEF OpensStored
<1>16. CallFits(d)
  BY <1>1, <1>7, <1>10 DEF CallFits
<1>17. CASE c.todo # {f}
  <2>1. IsOpening(d)
    BY <1>1, <1>10, <1>13, <1>14, <1>15 DEF IsOpening
  <2>2. IsExact(d)
    BY <1>10, <1>17 DEF IsExact
  <2>3. QED
    BY <1>9, <1>10, <1>16, <1>17, <2>1, <2>2 DEF CallOK, d, done
<1>18. CASE c.todo = {f}
  <2>1. d.todo = {} /\ d.step = "found"
    BY <1>10, <1>18
  <2>2. doc.seals = [h \in SensitiveFields |-> doc.seals[h]]
    BY <1>8 DEF SealsType
  <2>3. After(d) = doc.seals
    BY <1>10, <2>1, <2>2 DEF After
  <2>4. Found(d)
    BY <1>1, <1>10, <1>13, <2>3 DEF Found, IsOpening
  <2>5. IsExact(d)
    <3> SUFFICES ASSUME ~ d.disturbed PROVE IsExact(d)
      BY DEF IsExact
    <3>1. /\ d.label = masterKey /\ disk[d.id] # NoDocument /\ disk[d.id].marked
          /\ \A h \in SensitiveFields : /\ d.doc.seals[h] = Tail(disk[d.id].seals[h])
                                        /\ Opens(Head(disk[d.id].seals[h]))
      BY <1>15, <2>1 DEF OpensStored
    <3>2. disk[d.id] \in Document /\ StoredOK(disk[d.id])
      BY <1>1, <1>10, <3>1 DEF Inv, TypeOK
    <3>3. Sealed(disk[d.id]) /\ masterKey # NoKey
      BY <1>1, <1>10, <3>1, <3>2, StoredSeals DEF IsOpening
    <3>4. QED
      BY <2>1, <3>1, <3>3 DEF IsExact
  <2>6. QED
    BY <1>9, <1>16, <2>1, <2>4, <2>5 DEF CallOK, d, done
<1>19. QED
  BY <1>17, <1>18

LEMMA DecryptDataKeepsInv ==
    ASSUME Inv, NEW g \in Goroutines, NEW f \in SensitiveFields, DecryptData(g, f)
    PROVE  Inv'
<1>1. PICK c \in Call : c = calls[g] /\ CallOK(c) /\ c.step = "open" /\ f \in c.looked
  BY DEF Inv, TypeOK, DecryptData, Busy
<1>2. PICK seal : seal = Head(c.doc.seals[f])
  OBVIOUS
<1>3. PICK key : key = KeyPair(g, seal.label)
  OBVIOUS
<1> DEFINE d == [Done(c, f, "found") EXCEPT !.doc.seals[f] = Tail(@)]
<1>4. /\ calls' = [calls EXCEPT ![g] = IF ~ IsActive(key) \/ key # seal.key THEN Failed(c) ELSE d]
      /\ UNCHANGED <<masterKey, keyCache, expired, disk>>
  BY <1>1, <1>2, <1>3 DEF DecryptData, Inv, TypeOK
<1>5. ASSUME ~ c.disturbed
      PROVE  /\ seal = Head(disk[c.id].seals[f])
             /\ Opens(seal) <=> IsActive(key) /\ key = seal.key
  <2>1. OpensStored(c) /\ f \in c.todo
    BY <1>1 DEF CallOK, CallFits, IsOpening
  <2>2. /\ seal = Head(disk[c.id].seals[f])
        /\ seal.label \in keyCache \cup {masterKey}
        /\ c.cached <=> seal.label \in keyCache
    BY <1>1, <1>2, <1>5, <2>1 DEF OpensStored
  <2>3. key = seal.label
    BY <1>1, <1>3, <2>2 DEF KeyPair
  <2>4. QED
    BY <2>2, <2>3 DEF Opens
<1>6. CASE ~ IsActive(key) \/ key # seal.key
  <2>1. ~ c.disturbed => ~ Opens(Head(disk[c.id].seals[f]))
    BY <1>5, <1>6
  <2>2. Failed(c) \in Call /\ CallOK(Failed(c))
    BY <1>1, <2>1, FailedFits
  <2>3. calls' = [calls EXCEPT ![g] = Failed(c)]
    BY <1>4, <1>6
  <2>4. QED
    BY <1>4, <2>2, <2>3, OneCallKeepsInv
<1>7. CASE ~ (~ IsActive(key) \/ key # seal.key)
  <2>1. ~ c.disturbed => Opens(Head(disk[c.id].seals[f]))
    BY <1>5, <1>7
  <2>2. d \in Call /\ CallOK(d)
    BY <1>1, <2>1, OpenedFits
  <2> HIDE DEF d
  <2>3. calls' = [calls EXCEPT ![g] = d]
    BY <1>4, <1>7
  <2>4. QED
    BY <1>4, <2>2, <2>3, OneCallKeepsInv
<1>8. QED
  BY <1>6, <1>7

LEMMA ReturnKeepsInv ==
    ASSUME Inv, NEW g \in Goroutines, Return(g)
    PROVE  Inv'
BY OneCallKeepsInv DEF Return

-----------------------------------------------------------------------------
(***************************************************************************)
(* The rest of the handler.                                                *)
(***************************************************************************)
\* What a handler is to write is sealed alike; not at all if there is a master key,
\* unless it crossed.
LEMMA MergedFits ==
    ASSUME Inv, NEW c \in Call, CallOK(c), c.step \in {"found", "failed"}, NEW wins \in BOOLEAN
    PROVE  LET doc == Merged(c, wins)
           IN  /\ doc \in Document /\ Alike(doc.seals, doc.raced)
               /\ masterKey # NoKey => (~ doc.crossed => Longest(doc.seals, 0))
               /\ masterKey = NoKey => StoredOK(doc)
<1> DEFINE doc == Merged(c, wins)
<1>1. CASE c.step = "failed" \/ c.doc = NoDocument
  <2>1. doc = Plain
    BY <1>1 DEF Merged
  <2>2. Alike(Plain.seals, Plain.raced) /\ Longest(Plain.seals, 0)
    BY PlainType, NothingIsAlike
  <2> HIDE DEF doc
  <2>3. QED
    BY <2>1, <2>2, PlainType DEF doc
<1>2. CASE ~ (c.step = "failed" \/ c.doc = NoDocument) /\ wins
  <2>1. doc = [Plain EXCEPT !.encrypted = c.doc.encrypted] /\ c.doc \in Document
    BY <1>2 DEF Merged, Call
  <2>2. doc \in Document /\ doc.seals = Plain.seals /\ ~ doc.marked
    BY <2>1, PlainType DEF Document, Plain
  <2> HIDE DEF doc
  <2>3. /\ \A f \in SensitiveFields : doc.seals[f] = <<>>
        /\ Alike(doc.seals, doc.raced) /\ Longest(doc.seals, 0) /\ Longest(doc.seals, 1)
    BY <2>2, PlainType, NothingIsAlike
  <2>4. QED
    BY <2>2, <2>3 DEF StoredOK, MarksFit, doc
<1>3. CASE ~ (c.step = "failed" \/ c.doc = NoDocument) /\ ~ wins
  <2> DEFINE crosses == Sealed(c.doc) /\ (c.doc.crossed \/ (c.label = NoKey /\ masterKey # NoKey))
  <2>1. c.step = "found" /\ c.doc \in Document /\ Found(c) /\ CallFits(c)
    BY <1>3 DEF CallOK, Call
  <2>2. doc = [c.doc EXCEPT !.crossed = crosses]
    <3>1. doc = [c.doc EXCEPT !.crossed =
                    Sealed(c.doc) /\ (@ \/ (c.label = NoKey /\ masterKey # NoKey))]
      BY <1>3 DEF Merged
    <3>2. QED
      BY <3>1
  <2>3. crosses \in BOOLEAN
    OBVIOUS
  <2> HIDE DEF crosses, doc
  <2>4. doc \in Document
    BY <2>1, <2>2, <2>3 DEF Document
  <2>5. /\ doc.seals = c.doc.seals /\ doc.raced = c.doc.raced
        /\ doc.marked = c.doc.marked /\ doc.encrypted = c.doc.encrypted
        /\ doc.crossed = crosses
    BY <2>1, <2>2 DEF Document
  <2>6. Alike(doc.seals, doc.raced)
    BY <1>3, <2>1, <2>5 DEF Found
  <2>7. ~ Sealed(c.doc) => Longest(doc.seals, 0) /\ Longest(doc.seals, 1)
    BY <2>5, NothingIsAlike DEF Sealed
  <2>8. masterKey # NoKey => (~ doc.crossed => Longest(doc.seals, 0))
    BY <1>3, <2>1, <2>5, <2>7 DEF Found, crosses
  <2>9. masterKey = NoKey => StoredOK(doc)
    <3> SUFFICES ASSUME masterKey = NoKey PROVE StoredOK(doc)
      OBVIOUS
    <3>1. c.label = NoKey
      BY <2>1 DEF CallFits
    <3>2. MarksFit(c.doc) /\ (~ c.doc.crossed => Longest(c.doc.seals, 1))
      BY <1>3, <2>1, <3>1 DEF Found
    <3>3. MarksFit(doc)
      BY <2>5, <3>2 DEF MarksFit
    <3>4. ~ doc.crossed => Longest(doc.seals, 1)
      BY <2>5, <2>7, <3>2 DEF crosses
    <3>5. QED
      BY <2>6, <3>3, <3>4 DEF StoredOK
  <2>10. QED
    BY <2>4, <2>6, <2>8, <2>9 DEF doc
<1>4. QED
  BY <1>1, <1>2, <1>3

LEMMA RewriteKeepsInv ==
    ASSUME Inv, NEW g \in Goroutines, NEW wins \in BOOLEAN, Rewrite(g, wins)
    PROVE  Inv'
<1>1. PICK c \in Call : c = calls[g] /\ CallOK(c) /\ c.step \in {"found", "failed"}
  BY DEF Inv, TypeOK, Rewrite, Busy
<1>2. PICK doc : doc = Merged(c, wins)
  OBVIOUS
<1>3. /\ calls' = [calls EXCEPT ![g] = Writer(c.id, doc)]
      /\ UNCHANGED <<masterKey, keyCache, expired, disk>>
  BY <1>1, <1>2 DEF Rewrite
<1>4. /\ doc \in Document /\ Alike(doc.seals, doc.raced)
      /\ masterKey # NoKey => (~ doc.crossed => Longest(doc.seals, 0))
      /\ masterKey = NoKey => StoredOK(doc)
  BY <1>1, <1>2, MergedFits
<1>5. Writer(c.id, doc) \in Call /\ CallOK(Writer(c.id, doc))
  BY <1>4, WriterFits DEF Call
<1>6. QED
  BY <1>3, <1>5, OneCallKeepsInv

-----------------------------------------------------------------------------
(***************************************************************************)
(* The theorems.                                                           *)
(***************************************************************************)
LEMMA InvInit == Init => Inv
<1> SUFFICES ASSUME Init PROVE Inv
  OBVIOUS
<1>1. TypeOK
  BY DEF Init, TypeOK
<1>2. QED
  BY <1>1 DEF Init, Inv

LEMMA InvStep == Inv /\ [Next]_vars => Inv'
<1> SUFFICES ASSUME Inv, [Next]_vars PROVE Inv'
  OBVIOUS
<1>1. ASSUME NEW k \in Keys, SetMasterKey(k) \/ CacheKey(k) \/ RemoveKey(k) \/ Expire(k)
      PROVE  Inv'
  BY <1>1, SetMasterKeyKeepsInv, OtherKeysKeepInv
<1>2. CASE Restart
  BY <1>2, RestartKeepsInv
<1>3. ASSUME NEW g \in Goroutines, NEW id \in IDs, Insert(g, id) \/ Delete(g, id)
      PROVE  Inv'
  BY <1>3, InsertKeepsInv, DeleteKeepsInv
<1>4. ASSUME NEW g \in Goroutines, NEW id \in IDs, NEW type \in {"find", "handle"},
             Find(g, type, id)
      PROVE  Inv'
  BY <1>4, FindKeepsInv
<1>5. ASSUME NEW g \in Goroutines, NEW f \in SensitiveFields,
             LookupToSeal(g, f) \/ EncryptData(g, f)
      PROVE  Inv'
  BY <1>5, LookupToSealKeepsInv, EncryptDataKeepsInv
<1>6. ASSUME NEW g \in Goroutines, NEW f \in SensitiveFields,
             LookupToOpen(g, f) \/ DecryptData(g, f)
      PROVE  Inv'
  BY <1>6, LookupToOpenKeepsInv, DecryptDataKeepsInv
<1>7. ASSUME NEW g \in Goroutines, WriteFile(g) \/ Return(g) PROVE Inv'
  BY <1>7, WriteFileKeepsInv, ReturnKeepsInv
<1>8. ASSUME NEW g \in Goroutines, NEW wins \in BOOLEAN, Rewrite(g, wins) PROVE Inv'
  BY <1>8, RewriteKeepsInv
<1>9. CASE UNCHANGED vars
  <2>1. TypeOK'
    BY <1>9 DEF Inv, TypeOK, vars
  <2>2. ASSUME NEW h \in Goroutines, calls'[h] # Idle PROVE CallOK(calls[h])'
    <3>1. PICK c : c = calls'[h] /\ CallOK(c)
      BY <1>9, <2>2 DEF Inv, vars
    <3>2. CallOK(c)'
      BY <1>9, <3>1, CallStaysOK DEF vars
    <3>3. QED
      BY <3>1, <3>2
  <2>3. ASSUME NEW id \in IDs, disk'[id] # NoDocument PROVE StoredOK(disk[id])'
    BY <1>9, <2>3 DEF Inv, vars, StoredOK
  <2>4. QED
    BY <2>1, <2>2, <2>3 DEF Inv
<1>10. QED
  BY <1>1, <1>2, <1>3, <1>4, <1>5, <1>6, <1>7, <1>8, <1>9 DEF Next

(***************************************************************************)
(* What seals, markers, flags and calls have to do with each other, in     *)
(* every state that the manager, the storage and the handler can reach:    *)
(* Insert, Find and handleRemoteOperation, with the master key set, keys   *)
(* cached, removed or expired, or the process restarted between any two    *)
(* steps of theirs.                                                        *)
(***************************************************************************)
THEOREM Invariant == Spec => []Inv
BY InvInit, InvStep, PTL DEF Spec

(***************************************************************************)
(* Every call of the storage is where its lock and its last lookup put it: *)
(* a key it seals with is a key, whenever the master key is set.           *)
(***************************************************************************)
THEOREM StorageTypeInvariant == Spec => []TypeOK
<1>1. Inv => TypeOK
  BY DEF Inv
<1>2. QED
  BY <1>1, Invariant, PTL

(***************************************************************************)
(* encryptDocument seals all sensitive fields of what Insert writes alike, *)
(* by the keys that it names, unless SetMasterKey comes in between.        *)
(***************************************************************************)
THEOREM StoredAreSealedAlike == Spec => []SealedAlike
<1>1. ASSUME Inv PROVE SealedAlike
  <2> SUFFICES ASSUME NEW doc \in Stored PROVE Alike(doc.seals, doc.raced)
    BY DEF SealedAlike, Alike
  <2>1. StoredOK(doc)
    BY <1>1 DEF Inv, Stored
  <2>2. QED
    BY <2>1 DEF StoredOK
<1>2. QED
  BY <1>1, Invariant, PTL

(***************************************************************************)
(* Once SetMasterKey has been called Insert, for a client or a handler,    *)
(* writes no sensitive field in the clear.                                 *)
(***************************************************************************)
THEOREM NothingInTheClear == Spec => []KeySetMeansSealed
<1>1. Inv => KeySetMeansSealed
  BY DEF Inv, CallOK, KeySetMeansSealed, Busy
<1>2. QED
  BY <1>1, Invariant, PTL

(***************************************************************************)
(* Only a document that handleRemoteOperation read before SetMasterKey and *)
(* wrote back after it is sealed twice.                                    *)
(***************************************************************************)
THEOREM StoredAreSealedOnce == Spec => []SealedOnce
<1>1. Inv => SealedOnce
  BY DEF Inv, StoredOK, Longest, SealedOnce, Stored
<1>2. QED
  BY <1>1, Invariant, PTL

(***************************************************************************)
(* decryptDocument fails, or gives back what is stored without the top     *)
(* seals, just as the keys of the moment have it, in a Find that runs      *)
(* undisturbed.                                                            *)
(***************************************************************************)
THEOREM FindsAreExact == Spec => []FindIsExact
<1>1. ASSUME Inv PROVE FindIsExact
  <2>1. ASSUME NEW g \in Goroutines, Busy(g) PROVE IsExact(calls[g])
    BY <1>1, <2>1 DEF Inv, CallOK, Busy
  <2>2. QED
    BY <2>1 DEF IsExact, FindIsExact
<1>2. QED
  BY <1>1, Invariant, PTL
=============================================================================
