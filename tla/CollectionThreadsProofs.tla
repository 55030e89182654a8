---------------------- MODULE CollectionThreadsProofs ----------------------
(***************************************************************************)
(* Proofs about CollectionThreads, for any goroutines (of which one may    *)
(* write, sync and handle operations in turn), any operations that arrive, *)
(* any payloads and any bounds.                                            *)
(***************************************************************************)
EXTENDS CollectionThreads, CRDTResolverProofs, SequenceTheorems, TLAPS

ControlSteps == {"add", "set_id", "new_state", "drop", "clear_id"}

Doing(g, steps) == calls[g] # Idle /\ calls[g].step \in steps

InControl == Doing(Controller, ControlSteps)

-----------------------------------------------------------------------------
(***************************************************************************)
(* The inductive invariant.  What a call c of goroutine g has read, and    *)
(* what it may rely on at each of its steps.                               *)
(***************************************************************************)
CallFits(g, c) ==
    /\ c.step \in {"stamp", "lock", "count", "assign"} => g \in Writers
    /\ c.step \in {"count", "assign"} => mu = g
    /\ c.step \in ControlSteps => g = Controller
    /\ c.step \in {"apply", "check_merge", "read", "merge"} => c.op \in Incoming
    /\ c.step \in {"assign", "merge"} => c.state # 0
    /\ c.state <= states

\* A call that the controller did not overlap finds the network and the sync
\* state it looked for.
Undisturbed(g, c) ==
    Running /\ (g = Controller \/ ~ c.overlapped) =>
        /\ g # Controller => ~ InControl
        /\ c.step \in {"lock", "count", "read", "clear", "check_progress"} => networkID
        /\ c.step # "panicked"

\* The clock that a call has read, or is to merge, is on the disk.
IsOnDisk(c) ==
    \A q \in Peers :
        /\ q # Me => c.vector[q] <= history.applied[q]
        /\ c.step \in {"check_merge", "read", "merge"} => c.op.vector[q] <= history.applied[q]

\* The clock that a call is about to replace is the one that it has read, unless
\* something crossed it.
ReadsCurrent(c) ==
    c.state = syncState =>
        /\ c.step = "assign" /\ "merge" \notin c.crossed => c.vector = localVector
        /\ c.step = "merge" /\ c.crossed = {} => c.vector = localVector
        /\ c.step = "merge" /\ "increment" \notin c.crossed \cup history.crossed =>
              history.done <= c.vector[Me]
        /\ c.step = "lock" /\ syncState # 0 /\ history.crossed = {} =>
              c.vector[Me] <= localVector[Me]

FoundCurrent(c) == c.step = "apply" /\ ~ c.stale => c.found = document

CallOK(g, c) ==
    /\ CallFits(g, c) /\ Undisturbed(g, c) /\ IsOnDisk(c) /\ ReadsCurrent(c)
    /\ FoundCurrent(c)
    /\ c.step = "panicked" => c.overlapped

\* The operations of g in the log, while g is at c, or idle: they are older than
\* its clock, but for the one it is about to count.
IssuedBefore(g, c, op) ==
    /\ c # Idle /\ c.step = "assign" => op.state <= c.state
    /\ Running /\ history.crossed = {} /\ op.state = syncState /\ syncState # 0 =>
          /\ ~ (c # Idle /\ c.step \in {"count", "assign", "panicked"}) =>
                op.vector[Me] < localVector[Me]
          /\ c # Idle /\ c.step = "lock" /\ c.state = syncState => op.vector[Me] < c.vector[Me]

LogFits(g, c) == \A i \in DOMAIN operationLog :
                    operationLog[i].by = g => IssuedBefore(g, c, operationLog[i])

LogIsOld ==
    \A i \in DOMAIN operationLog :
        /\ operationLog[i].state <= states
        /\ history.crossed = {} /\ operationLog[i].state = syncState /\ syncState # 0 =>
              operationLog[i].vector[Me] <= localVector[Me]

\* Where the controller is, and what is set by then.
Attached ==
    /\ syncState \in {0, states}
    /\ Doing(Controller, {"add", "set_id", "new_state"}) => states < MaxStates
    /\ Running =>
          /\ Doing(Controller, {"add", "set_id"}) => ~ networkID /\ syncState = 0
          /\ Doing(Controller, {"new_state", "clear_id"}) => networkID /\ syncState = 0
          /\ Doing(Controller, {"drop"}) => networkID /\ syncState # 0
          /\ ~ InControl => (networkID <=> syncState # 0)

Listed ==
    /\ ~ network.there => network = NoNetwork
    /\ Running /\ ~ history.left =>
          /\ Doing(Controller, {"add"}) => network.there /\ ~ calls[Controller].stale
          /\ Doing(Controller, {"set_id", "new_state"}) => network.listed /\ network.shared = 1
          /\ Doing(Controller, {"drop", "clear_id"}) => ~ network.listed /\ network.shared = 0
          /\ ~ InControl => /\ network.listed = networkID
                            /\ network.shared = IF network.listed THEN 1 ELSE 0

LockIsHeld ==
    Running /\ mu # Idle => \/ Doing(mu, {"count", "assign"})
                            \/ Doing(mu, {"panicked"}) /\ calls[mu].overlapped

Whole == /\ Attached /\ Listed /\ LockIsHeld /\ LogIsOld
         /\ IncrementsAreKept /\ WriterStampsIncrease /\ ClockFollowsDisk
         /\ OwnWriteStays /\ MarkHasTimer

Each == \A g \in Goroutines : /\ calls[g] # Idle => CallOK(g, calls[g])
                              /\ LogFits(g, calls[g])

Inv == TypeOK /\ Whole /\ Each

-----------------------------------------------------------------------------
(***************************************************************************)
(* Calls.                                                                  *)
(***************************************************************************)
Steps == {"stamp", "lock", "count", "assign", "panicked",
          "apply", "check_merge", "read", "merge", "check_clear", "clear",
          "check_sync", "check_progress", "set_progress", "start_timer",
          "add", "set_id", "new_state", "drop", "clear_id"}

LEMMA CallsAreNotIdle == Idle \notin Call /\ Idle \notin Goroutines
BY ThreadsAssumption

LEMMA UnderWay ==
    ASSUME TypeOK, NEW g \in Goroutines
    PROVE  /\ calls[g] \in Call \cup {Idle}
           /\ calls[g] # Idle => calls[g] \in Call
BY DEF TypeOK

LEMMA BeginType ==
    ASSUME NEW step \in Steps
    PROVE  /\ Begin(step) \in Call /\ Begin(step) # Idle
           /\ Begin(step).step = step /\ Begin(step).state = 0 /\ Begin(step).op = Idle
           /\ Begin(step).vector = NewVectorClock /\ ~ Begin(step).stale
           /\ Begin(step).crossed = {} /\ Begin(step).found = NoDocument
           /\ Begin(step).overlapped = (calls[Controller] # Idle)
<1>1. Begin(step) \in Call
  BY NewVectorClockType DEF Begin, Call, Steps
<1>2. QED
  BY <1>1, CallsAreNotIdle DEF Begin

\* A call that goes on as it is.
LEMMA ContinueType ==
    ASSUME NEW c \in Call, NEW step \in Steps
    PROVE  LET d == [c EXCEPT !.step = step]
           IN  /\ d \in Call /\ d # Idle /\ d.step = step
               /\ d.op = c.op /\ d.found = c.found /\ d.vector = c.vector /\ d.state = c.state
               /\ d.stale = c.stale /\ d.crossed = c.crossed /\ d.overlapped = c.overlapped
<1> DEFINE d == [c EXCEPT !.step = step]
<1>1. d \in Call
  BY DEF Call, Steps
<1>2. QED
  BY <1>1, CallsAreNotIdle DEF Call

LEMMA ContinueIs ==
    ASSUME TypeOK, NEW g \in Goroutines, calls[g] # Idle, NEW step, Continue(g, step)
    PROVE  calls' = [calls EXCEPT ![g] = [calls[g] EXCEPT !.step = step]]
BY UnderWay DEF Continue

LEMMA PeersOfClocks == ASSUME NEW c \in Clock, NEW q \in Peers PROVE c[q] \in Nat
BY DEF Clock

-----------------------------------------------------------------------------
(***************************************************************************)
(* A goroutine that looks around, and moves on or comes to its end.        *)
(***************************************************************************)
LEMMA MovesKeepInv ==
    ASSUME Inv, NEW g \in Goroutines, NEW new \in Call \cup {Idle},
           ~ (g = Controller /\ InControl),
           new # Idle => CallOK(g, new) /\ new.step \notin ControlSteps,
           LogFits(g, new),
           mu = g => /\ new # Idle
                     /\ \/ new.step \in {"count", "assign"}
                        \/ new.step = "panicked" /\ new.overlapped,
           calls' = [calls EXCEPT ![g] = new],
           UNCHANGED <<ended, document, networkID, syncState, localVector, operationLog, mu,
                       network, states, history>>,
           inProgress' \in BOOLEAN, timers' \in 0 .. MaxTimers, MarkHasTimer'
    PROVE  Inv'
<1>1. /\ calls' \in [Goroutines -> Call \cup {Idle}]
      /\ \A h \in Goroutines : calls'[h] = IF h = g THEN new ELSE calls[h]
  BY DEF Inv, TypeOK
<1>2. InControl' <=> InControl
  BY <1>1 DEF InControl, Doing, Goroutines
<1>3. TypeOK'
  BY <1>1 DEF Inv, TypeOK
<1>4. \A steps \in SUBSET ControlSteps : Doing(Controller, steps)' <=> Doing(Controller, steps)
  BY <1>1 DEF InControl, Doing, Goroutines
<1>5. calls'[Controller] = calls[Controller] \/ ~ InControl
  BY <1>1 DEF Goroutines
<1>6. Attached'
  BY <1>2, <1>4 DEF Inv, Whole, Attached, Running, ControlSteps
<1>7. Listed'
  <2>1. Doing(Controller, {"add"}) => calls'[Controller] = calls[Controller]
    BY <1>5 DEF InControl, Doing, ControlSteps
  <2>2. QED
    BY <2>1, <1>2, <1>4 DEF Inv, Whole, Listed, Running, ControlSteps
<1>8. LockIsHeld'
  <2>1. CASE mu = g
    BY <2>1, <1>1 DEF LockIsHeld, Doing
  <2>2. CASE mu # g
    <3>1. mu # Idle => mu \in Goroutines
      BY DEF Inv, TypeOK, Goroutines
    <3>2. QED
      BY <2>2, <3>1, <1>1 DEF Inv, Whole, LockIsHeld, Doing, Running
  <2>3. QED
    BY <2>1, <2>2
<1>9. LogIsOld' /\ IncrementsAreKept' /\ WriterStampsIncrease' /\ ClockFollowsDisk' /\ OwnWriteStays'
  BY DEF Inv, Whole, LogIsOld, IncrementsAreKept, WriterStampsIncrease, ClockFollowsDisk,
         OwnWriteStays
<1>10. ASSUME NEW h \in Goroutines
       PROVE  (calls'[h] # Idle => CallOK(h, calls[h])') /\ LogFits(h, calls[h])'
  <2>1. ASSUME NEW c, CallOK(h, c) PROVE CallOK(h, c)'
    BY <2>1, <1>2 DEF CallOK, CallFits, Undisturbed, IsOnDisk, ReadsCurrent, FoundCurrent, Running
  <2>2. ASSUME NEW c, LogFits(h, c) PROVE LogFits(h, c)'
    BY <2>2 DEF LogFits, IssuedBefore, Running
  <2>3. QED
    BY <2>1, <2>2, <1>1 DEF Inv, Each
<1>11. QED
  BY <1>3, <1>6, <1>7, <1>8, <1>9, <1>10 DEF Inv, Whole, Each

\* A goroutine that looks around is not the one that holds dc.mu, nor starts a timer.
LEMMA LookingKeepsInv ==
    ASSUME Inv, Running, NEW g \in Goroutines, NEW new \in Call \cup {Idle},
           calls[g] # Idle => calls[g].step \notin ControlSteps \cup {"count", "assign", "panicked",
                                                                     "start_timer"},
           new # Idle => CallOK(g, new) /\ new.step \notin ControlSteps \cup {"lock", "assign"},
           calls' = [calls EXCEPT ![g] = new],
           UNCHANGED <<ended, document, networkID, state, operationLog, mu,
                       network, states, history>>
    PROVE  Inv'
<1>1. /\ calls' \in [Goroutines -> Call \cup {Idle}]
      /\ \A h \in Goroutines : calls'[h] = IF h = g THEN new ELSE calls[h]
  BY DEF Inv, TypeOK
<1>2. LogFits(g, new)
  BY DEF Inv, Each, LogFits, IssuedBefore
<1>3. mu # g
  BY CallsAreNotIdle DEF Inv, Whole, LockIsHeld, Doing
<1>4. MarkHasTimer'
  BY <1>1 DEF Inv, Whole, MarkHasTimer, At, Running, state
<1>5. ~ (g = Controller /\ InControl)
  BY DEF InControl, Doing
<1>6. inProgress' \in BOOLEAN /\ timers' \in 0 .. MaxTimers
  BY DEF Inv, TypeOK, state
<1>7. QED
  BY <1>1, <1>2, <1>3, <1>4, <1>5, <1>6, MovesKeepInv DEF state

\* What an undisturbed call relies on.
LEMMA HasStateWhileUndisturbed ==
    ASSUME Inv, Running, NEW g \in Goroutines, calls[g] # Idle,
           calls[g].step \in {"lock", "count", "read", "clear", "check_progress"},
           g = Controller \/ ~ calls[g].overlapped
    PROVE  HasState
<1>1. ~ InControl /\ networkID
  BY DEF Inv, Each, CallOK, Undisturbed, InControl, Doing, ControlSteps
<1>2. QED
  BY <1>1 DEF Inv, Whole, Attached, HasState

LEMMA BeginFits ==
    ASSUME Inv, NEW g \in Goroutines,
           NEW step \in {"check_sync", "check_clear", "stamp"},
           step = "stamp" => g \in Writers
    PROVE  CallOK(g, Begin(step))
<1>1. \A q \in Peers : NewVectorClock[q] = 0 /\ history.applied[q] \in Nat /\ history.applied[q] >= 0
  BY PeersOfClocks DEF NewVectorClock, Inv, TypeOK, History
<1>2. Begin(step).step = step /\ Begin(step).state = 0 /\ Begin(step).vector = NewVectorClock
      /\ Begin(step).overlapped = (calls[Controller] # Idle)
  BY BeginType DEF Steps
<1>3. CallFits(g, Begin(step))
  BY <1>2 DEF CallFits, ControlSteps, Inv, TypeOK
<1>4. Undisturbed(g, Begin(step))
  BY <1>2 DEF Undisturbed, InControl, Doing
<1>5. IsOnDisk(Begin(step))
  BY <1>1, <1>2 DEF IsOnDisk
<1>6. QED
  BY <1>2, <1>3, <1>4, <1>5 DEF CallOK, ReadsCurrent, FoundCurrent

LEMMA CallIsOK ==
    ASSUME Inv, NEW g \in Goroutines, NEW step, At(g, step)
    PROVE  /\ CallOK(g, calls[g]) /\ calls[g] \in Call /\ calls[g] # Idle
           /\ calls[g].step = step /\ Running /\ LogFits(g, calls[g])
BY UnderWay DEF At, Inv, Each

\* A call that goes on, having read nothing but networkID.
LEMMA GoesOn ==
    ASSUME Inv, NEW g \in Goroutines, NEW from, At(g, from), NEW to \in Steps,
           \/ from = "check_merge" /\ to = "read"
           \/ from = "check_clear" /\ to = "clear"
           \/ from = "check_sync" /\ to = "check_progress",
           networkID,
           calls' = [calls EXCEPT ![g] = [calls[g] EXCEPT !.step = to]],
           UNCHANGED <<ended, document, networkID, state, operationLog, mu, network, states, history>>
    PROVE  Inv'
<1> DEFINE new == [calls[g] EXCEPT !.step = to]
<1>1. /\ CallOK(g, calls[g]) /\ calls[g] \in Call /\ calls[g] # Idle
      /\ calls[g].step = from /\ Running
  BY CallIsOK
<1>2. /\ new \in Call /\ new # Idle /\ new.step = to
      /\ new.op = calls[g].op /\ new.vector = calls[g].vector /\ new.state = calls[g].state
      /\ new.stale = calls[g].stale /\ new.overlapped = calls[g].overlapped
  BY <1>1, ContinueType
<1> HIDE DEF new
<1>3. CallOK(g, new)
  BY <1>1, <1>2 DEF CallOK, CallFits, Undisturbed, IsOnDisk, ReadsCurrent, FoundCurrent, ControlSteps
<1>4. calls' = [calls EXCEPT ![g] = new]
  BY DEF new
<1>5. QED
  BY <1>1, <1>2, <1>3, <1>4, LookingKeepsInv DEF ControlSteps

LEMMA EndsKeepsInv ==
    ASSUME Inv, Running, NEW g \in Goroutines,
           calls[g] # Idle => calls[g].step \notin ControlSteps \cup {"count", "assign", "panicked",
                                                                     "start_timer"},
           calls' = [calls EXCEPT ![g] = Idle],
           UNCHANGED <<ended, document, networkID, state, operationLog, mu, network, states, history>>
    PROVE  Inv'
BY LookingKeepsInv

LEMMA CheckKeepsInv ==
    ASSUME Inv, NEW g \in Goroutines, NEW from, NEW to \in Steps, CheckNetworkID(g, from, to),
           \/ from = "check_clear" /\ to = "clear"
           \/ from = "check_sync" /\ to = "check_progress"
    PROVE  Inv'
<1>1. /\ At(g, from)
      /\ calls[g] # Idle /\ calls[g].step = from /\ Running
      /\ UNCHANGED <<ended, document, networkID, state, operationLog, mu, network, states, history>>
  BY DEF CheckNetworkID, At
<1>2. CASE networkID
  <2>1. calls' = [calls EXCEPT ![g] = [calls[g] EXCEPT !.step = to]]
    BY <1>1, <1>2, ContinueIs DEF CheckNetworkID, Inv
  <2>2. QED
    BY <1>1, <1>2, <2>1, GoesOn
<1>3. CASE ~ networkID
  BY <1>1, <1>3, EndsKeepsInv DEF CheckNetworkID, Finish, ControlSteps
<1>4. QED
  BY <1>2, <1>3

\* What is left of a call once its last operation is through.
LEMMA AfterFits ==
    ASSUME Inv, NEW g \in Goroutines, CallOK(g, calls[g]), calls[g] \in Call,
           NEW new \in Call, new = AfterOperation(calls[g], TRUE)
    PROVE  /\ new # Idle /\ new.step = "check_clear" /\ new.state = 0
           /\ new.vector = NewVectorClock /\ CallOK(g, new)
<1>1. new = [Begin("check_clear") EXCEPT !.overlapped = calls[g].overlapped]
  BY DEF AfterOperation
<1>2. /\ new # Idle /\ new.step = "check_clear" /\ new.state = 0
      /\ new.vector = NewVectorClock /\ new.overlapped = calls[g].overlapped
  <2>1. calls[g].overlapped \in BOOLEAN
    BY DEF Call
  <2>2. /\ Begin("check_clear") \in Call /\ Begin("check_clear").step = "check_clear"
        /\ Begin("check_clear").state = 0 /\ Begin("check_clear").vector = NewVectorClock
    BY BeginType DEF Steps
  <2> DEFINE b == Begin("check_clear")
             o == calls[g].overlapped
  <2>3. new = [b EXCEPT !.overlapped = o] /\ b \in Call /\ o \in BOOLEAN
    BY <1>1, <2>1, <2>2
  <2> HIDE DEF b, o
  <2>4. /\ new # Idle /\ new.step = b.step /\ new.vector = b.vector /\ new.state = b.state
        /\ new.overlapped = o
    BY <2>3, CallsAreNotIdle DEF Call
  <2>5. QED
    BY <2>2, <2>4 DEF b, o
<1>3. CallOK(g, Begin("check_clear"))
  BY BeginFits
<1>4. /\ Begin("check_clear").step = "check_clear" /\ Begin("check_clear").state = 0
      /\ Begin("check_clear").vector = NewVectorClock
  BY BeginType DEF Steps
<1>5. CallOK(g, new)
  BY <1>2, <1>3, <1>4 DEF CallOK, CallFits, Undisturbed, IsOnDisk, ReadsCurrent, FoundCurrent,
                          ControlSteps
<1>6. QED
  BY <1>2, <1>5

LEMMA AfterType ==
    ASSUME NEW c \in Call, NEW last \in BOOLEAN
    PROVE  AfterOperation(c, last) \in Call \cup {Idle} /\ (~ last => AfterOperation(c, last) = Idle)
<1>1. Begin("check_clear") \in Call
  BY BeginType DEF Steps
<1>2. QED
  BY <1>1 DEF AfterOperation, Call

LEMMA CheckBeforeMergeKeepsInv ==
    ASSUME Inv, NEW g \in Goroutines, NEW last \in BOOLEAN, CheckBeforeMerge(g, last)
    PROVE  Inv'
<1>1. /\ At(g, "check_merge")
      /\ calls[g] # Idle /\ calls[g].step = "check_merge" /\ Running
      /\ UNCHANGED <<ended, document, networkID, state, operationLog, mu, network, states, history>>
      /\ calls' = [calls EXCEPT ![g] = IF networkID THEN [@ EXCEPT !.step = "read"]
                                       ELSE AfterOperation(@, last)]
  BY DEF CheckBeforeMerge, At
<1>2. CASE networkID
  <2>1. calls' = [calls EXCEPT ![g] = [calls[g] EXCEPT !.step = "read"]]
    BY <1>1, <1>2, UnderWay DEF Inv
  <2>2. QED
    BY <1>1, <1>2, <2>1, GoesOn DEF Steps
<1>3. CASE ~ networkID /\ ~ last
  <2>1. calls' = [calls EXCEPT ![g] = Idle]
    BY <1>1, <1>3 DEF AfterOperation
  <2>2. QED
    BY <1>1, <2>1, EndsKeepsInv DEF ControlSteps
<1>4. CASE ~ networkID /\ last
  <2> DEFINE new == AfterOperation(calls[g], TRUE)
  <2>1. calls' = [calls EXCEPT ![g] = new]
    BY <1>1, <1>4, UnderWay DEF Inv
  <2>2. new \in Call
    BY <1>1, BeginType, CallIsOK DEF Steps, AfterOperation, Call
  <2>3. new # Idle /\ new.step = "check_clear" /\ CallOK(g, new)
    <3>1. CallOK(g, calls[g]) /\ calls[g] \in Call
      BY <1>1, CallIsOK
    <3> HIDE DEF new
    <3>2. new = AfterOperation(calls[g], TRUE)
      BY DEF new
    <3>3. QED
      BY <2>2, <3>1, <3>2, AfterFits
  <2> HIDE DEF new
  <2>4. QED
    BY <2>1, <2>2, <2>3, <1>1, LookingKeepsInv DEF ControlSteps
<1>5. QED
  BY <1>2, <1>3, <1>4

LEMMA StampKeepsInv == ASSUME Inv, NEW g \in Goroutines, Stamp(g) PROVE Inv'
<1>1. /\ At(g, "stamp")
      /\ UNCHANGED <<ended, document, networkID, state, operationLog, mu, network, states, history>>
  BY DEF Stamp
<1>2. /\ CallOK(g, calls[g]) /\ calls[g] \in Call /\ calls[g] # Idle
      /\ calls[g].step = "stamp" /\ Running /\ LogFits(g, calls[g])
  BY <1>1, CallIsOK
<1>3. CASE ~ networkID
  <2>1. calls' = [calls EXCEPT ![g] = Idle]
    BY <1>3 DEF Stamp
  <2>2. QED
    BY <1>1, <1>2, <2>1, EndsKeepsInv DEF ControlSteps
<1>4. CASE networkID
  <2> DEFINE clock == IF HasState THEN localVector ELSE NewVectorClock
             new == [calls[g] EXCEPT !.step = "lock", !.state = syncState, !.vector = clock]
  <2>1. /\ clock \in Clock
        /\ HasState => clock = localVector
        /\ \A q \in Peers : q # Me => clock[q] <= history.applied[q]
    <3>1. \A q \in Peers : NewVectorClock[q] = 0 /\ history.applied[q] \in Nat
      BY PeersOfClocks DEF NewVectorClock, Inv, TypeOK, History
    <3>2. QED
      BY <3>1, NewVectorClockType DEF Inv, TypeOK, Whole, ClockFollowsDisk
  <2>2. calls' = [calls EXCEPT ![g] = new]
    BY <1>4, <1>2 DEF Stamp
  <2> HIDE DEF clock
  <2>3. /\ new \in Call /\ new # Idle /\ new.step = "lock" /\ new.state = syncState
        /\ new.vector = clock /\ new.stale = calls[g].stale
        /\ new.overlapped = calls[g].overlapped
    <3>1. syncState \in Nat
      BY DEF Inv, TypeOK
    <3>2. new \in Call
      BY <1>2, <2>1, <3>1 DEF Call
    <3>3. QED
      BY <1>2, <3>2, CallsAreNotIdle DEF Call
  <2> HIDE DEF new
  <2>4. syncState <= states /\ (syncState # 0 => HasState)
    BY <1>4 DEF Inv, TypeOK, Whole, Attached, HasState
  <2>5. CallOK(g, new)
    <3>1. CallFits(g, new)
      BY <1>2, <2>3, <2>4 DEF CallOK, CallFits, ControlSteps
    <3>2. Undisturbed(g, new)
      BY <1>2, <1>4, <2>3 DEF CallOK, Undisturbed
    <3>3. IsOnDisk(new)
      BY <2>1, <2>3 DEF IsOnDisk
    <3>4. ReadsCurrent(new)
      <4>1. ThreadsAssumption /\ localVector \in Clock
        BY ThreadsAssumption DEF Inv, TypeOK
      <4>2. localVector[Me] <= localVector[Me]
        BY <4>1, PeersOfClocks DEF ThreadsAssumption
      <4>3. QED
        BY <2>1, <2>3, <2>4, <4>2 DEF ReadsCurrent
    <3>5. QED
      BY <2>3, <3>1, <3>2, <3>3, <3>4 DEF CallOK, FoundCurrent
  <2>6. LogFits(g, new)
    BY <1>2, <2>1, <2>3, <2>4 DEF LogFits, IssuedBefore
  <2>7. ~ (g = Controller /\ InControl) /\ new.step \notin ControlSteps
    BY <1>2, <2>3 DEF InControl, Doing, ControlSteps
  <2>8. mu # g
    BY <1>2, CallsAreNotIdle DEF Inv, Whole, LockIsHeld, Doing
  <2>9. MarkHasTimer'
    BY <1>1, <1>2, <2>2, <2>3 DEF Inv, TypeOK, Whole, MarkHasTimer, At, Running, state
  <2>10. inProgress' \in BOOLEAN /\ timers' \in 0 .. MaxTimers
    BY <1>1 DEF Inv, TypeOK, state
  <2>11. QED
    BY <1>1, <1>2, <2>2, <2>3, <2>5, <2>6, <2>7, <2>8, <2>9, <2>10, MovesKeepInv DEF state
<1>5. QED
  BY <1>3, <1>4

LEMMA ReadClockKeepsInv ==
    ASSUME Inv, NEW g \in Goroutines, NEW from, NEW to, ReadClock(g, from, to),
           \/ from = "count" /\ to = "assign"
           \/ from = "read" /\ to = "merge"
    PROVE  Inv'
<1>1. /\ At(g, from) /\ HasState
      /\ UNCHANGED <<ended, document, networkID, state, operationLog, mu, network, states, history>>
  BY DEF ReadClock
<1>2. /\ CallOK(g, calls[g]) /\ calls[g] \in Call /\ calls[g] # Idle
      /\ calls[g].step = from /\ Running /\ LogFits(g, calls[g])
  BY <1>1, CallIsOK
<1> DEFINE new == [calls[g] EXCEPT !.step = to, !.state = syncState,
                                   !.vector = localVector, !.crossed = {}]
<1>3. calls' = [calls EXCEPT ![g] = new]
  BY <1>2, UnderWay DEF ReadClock, Inv
<1>4. /\ new \in Call /\ new # Idle /\ new.step = to /\ new.state = syncState
      /\ new.vector = localVector /\ new.stale = calls[g].stale /\ new.op = calls[g].op
      /\ new.overlapped = calls[g].overlapped /\ new.crossed = {}
  <2>1. syncState \in Nat /\ localVector \in Clock
    BY DEF Inv, TypeOK
  <2>2. to \in {"assign", "merge"} /\ {} \in SUBSET {"increment", "merge"}
    OBVIOUS
  <2>3. new \in Call
    BY <1>2, <2>1, <2>2 DEF Call
  <2>4. QED
    BY <1>2, <2>3, CallsAreNotIdle DEF Call
<1> HIDE DEF new
<1>5. syncState <= states /\ syncState # 0 /\ states \in Nat /\ syncState = states
  BY <1>1 DEF Inv, TypeOK, Whole, Attached, HasState
<1>6. CallOK(g, new)
  <2>1. CallFits(g, new)
    BY <1>2, <1>4, <1>5 DEF CallOK, CallFits, ControlSteps
  <2>2. Undisturbed(g, new)
    BY <1>2, <1>4 DEF CallOK, Undisturbed
  <2>3. IsOnDisk(new)
    BY <1>2, <1>4 DEF CallOK, IsOnDisk, Inv, Whole, ClockFollowsDisk
  <2>4. ReadsCurrent(new)
    BY <1>4, <1>5 DEF ReadsCurrent, Inv, Whole, IncrementsAreKept
  <2>5. QED
    BY <1>4, <2>1, <2>2, <2>3, <2>4 DEF CallOK, FoundCurrent
<1>7. LogFits(g, new)
  BY <1>2, <1>4, <1>5 DEF LogFits, IssuedBefore, Inv, Whole, LogIsOld
<1>8. ~ (g = Controller /\ InControl) /\ new.step \notin ControlSteps
  BY <1>2, <1>4 DEF InControl, Doing, ControlSteps
<1>9. mu = g => new.step \in {"count", "assign"}
  BY <1>2, <1>4, CallsAreNotIdle DEF Inv, Whole, LockIsHeld, Doing
<1>10. MarkHasTimer'
  BY <1>1, <1>2, <1>3, <1>4 DEF Inv, TypeOK, Whole, MarkHasTimer, At, Running, state
<1>11. inProgress' \in BOOLEAN /\ timers' \in 0 .. MaxTimers
  BY <1>1 DEF Inv, TypeOK, state
<1>12. QED
  BY <1>1, <1>2, <1>3, <1>4, <1>6, <1>7, <1>8, <1>9, <1>10, <1>11, MovesKeepInv DEF state

LEMMA RecoverKeepsInv == ASSUME Inv, NEW g \in Goroutines, RecoverInLock(g) PROVE Inv'
<1>1. /\ At(g, "count") /\ ~ HasState
      /\ UNCHANGED <<ended, document, networkID, state, operationLog, mu, network, states, history>>
      /\ Continue(g, "panicked")
  BY DEF RecoverInLock
<1>2. /\ CallOK(g, calls[g]) /\ calls[g] \in Call /\ calls[g] # Idle
      /\ calls[g].step = "count" /\ Running /\ LogFits(g, calls[g])
  BY <1>1, CallIsOK
<1> DEFINE new == [calls[g] EXCEPT !.step = "panicked"]
<1>3. calls' = [calls EXCEPT ![g] = new]
  BY <1>1, <1>2, ContinueIs DEF Inv
<1>4. /\ new \in Call /\ new # Idle /\ new.step = "panicked"
      /\ new.op = calls[g].op /\ new.vector = calls[g].vector /\ new.state = calls[g].state
      /\ new.stale = calls[g].stale /\ new.overlapped = calls[g].overlapped
  <2>1. "panicked" \in Steps
    BY DEF Steps
  <2>2. QED
    BY <1>2, <2>1, ContinueType
<1> HIDE DEF new
<1>5. calls[g].overlapped /\ g # Controller
  BY <1>1, <1>2, HasStateWhileUndisturbed
<1>6. CallOK(g, new)
  BY <1>2, <1>4, <1>5 DEF CallOK, CallFits, Undisturbed, IsOnDisk, ReadsCurrent, FoundCurrent,
                          ControlSteps
<1>7. LogFits(g, new)
  BY <1>2, <1>4 DEF LogFits, IssuedBefore
<1>8. ~ (g = Controller /\ InControl) /\ new.step \notin ControlSteps
  BY <1>4, <1>5 DEF ControlSteps
<1>9. MarkHasTimer'
  BY <1>1, <1>2, <1>3, <1>4 DEF Inv, TypeOK, Whole, MarkHasTimer, At, Running, state
<1>10. inProgress' \in BOOLEAN /\ timers' \in 0 .. MaxTimers
  BY <1>1 DEF Inv, TypeOK, state
<1>11. QED
  BY <1>1, <1>2, <1>3, <1>4, <1>5, <1>6, <1>7, <1>8, <1>9, <1>10, MovesKeepInv DEF state

-----------------------------------------------------------------------------
(***************************************************************************)
(* requestSync, and the end of handleSyncResponse.                         *)
(***************************************************************************)
LEMMA ForceSyncKeepsInv == ASSUME Inv, NEW g \in Goroutines, ForceSync(g) PROVE Inv'
<1>1. /\ Begin("check_sync") \in Call /\ Begin("check_sync").step = "check_sync"
      /\ CallOK(g, Begin("check_sync"))
  BY BeginType, BeginFits DEF Steps
<1>2. /\ calls[g] = Idle /\ Running
      /\ calls' = [calls EXCEPT ![g] = Begin("check_sync")]
      /\ UNCHANGED <<ended, document, networkID, state, operationLog, mu, network, states, history>>
  BY DEF ForceSync, Free
<1>3. QED
  BY <1>1, <1>2, LookingKeepsInv DEF ControlSteps

LEMMA CheckProgressKeepsInv == ASSUME Inv, NEW g \in Goroutines, CheckProgress(g) PROVE Inv'
<1>1. /\ At(g, "check_progress") /\ HasState
      /\ UNCHANGED <<ended, document, networkID, state, operationLog, mu, network, states, history>>
  BY DEF CheckProgress
<1>2. /\ CallOK(g, calls[g]) /\ calls[g] \in Call /\ calls[g] # Idle
      /\ calls[g].step = "check_progress" /\ Running
  BY <1>1, CallIsOK
<1>3. CASE inProgress
  <2>1. calls' = [calls EXCEPT ![g] = Idle]
    BY <1>3 DEF CheckProgress
  <2>2. QED
    BY <1>1, <1>2, <2>1, EndsKeepsInv DEF ControlSteps
<1>4. CASE ~ inProgress
  <2> DEFINE new == [calls[g] EXCEPT !.step = "set_progress", !.state = syncState]
  <2>1. calls' = [calls EXCEPT ![g] = new]
    BY <1>4, <1>2, UnderWay DEF CheckProgress, Inv
  <2>2. /\ new \in Call /\ new # Idle /\ new.step = "set_progress" /\ new.state = syncState
        /\ new.vector = calls[g].vector /\ new.overlapped = calls[g].overlapped
    <3>1. syncState \in Nat
      BY DEF Inv, TypeOK
    <3>2. new \in Call
      BY <1>2, <3>1 DEF Call
    <3>3. QED
      BY <1>2, <3>2, CallsAreNotIdle DEF Call
  <2> HIDE DEF new
  <2>3. syncState <= states
    BY DEF Inv, TypeOK, Whole, Attached
  <2>4. CallOK(g, new)
    BY <1>2, <2>2, <2>3 DEF CallOK, CallFits, Undisturbed, IsOnDisk, ReadsCurrent, FoundCurrent,
                            ControlSteps
  <2>5. QED
    BY <1>1, <1>2, <2>1, <2>2, <2>4, LookingKeepsInv DEF ControlSteps
<1>5. QED
  BY <1>3, <1>4

LEMMA SetProgressKeepsInv == ASSUME Inv, NEW g \in Goroutines, SetProgress(g) PROVE Inv'
<1>1. /\ At(g, "set_progress") /\ Continue(g, "start_timer")
      /\ inProgress' = (inProgress \/ calls[g].state = syncState)
      /\ UNCHANGED <<ended, document, networkID, syncState, localVector, timers, operationLog,
                     mu, network, states, history>>
  BY DEF SetProgress
<1>2. /\ CallOK(g, calls[g]) /\ calls[g] \in Call /\ calls[g] # Idle
      /\ calls[g].step = "set_progress" /\ Running /\ LogFits(g, calls[g])
  BY <1>1, CallIsOK
<1> DEFINE new == [calls[g] EXCEPT !.step = "start_timer"]
<1>3. calls' = [calls EXCEPT ![g] = new]
  BY <1>1, <1>2, ContinueIs DEF Inv
<1>4. /\ new \in Call /\ new # Idle /\ new.step = "start_timer"
      /\ new.op = calls[g].op /\ new.vector = calls[g].vector /\ new.state = calls[g].state
      /\ new.stale = calls[g].stale /\ new.overlapped = calls[g].overlapped
  <2>1. "start_timer" \in Steps
    BY DEF Steps
  <2>2. QED
    BY <1>2, <2>1, ContinueType
<1> HIDE DEF new
<1>5. CallOK(g, new)
  BY <1>2, <1>4 DEF CallOK, CallFits, Undisturbed, IsOnDisk, ReadsCurrent, FoundCurrent,
                    ControlSteps
<1>6. LogFits(g, new)
  BY <1>2, <1>4 DEF LogFits, IssuedBefore
<1>7. ~ (g = Controller /\ InControl) /\ new.step \notin ControlSteps
  BY <1>2, <1>4 DEF InControl, Doing, ControlSteps
<1>8. mu # g
  BY <1>2, CallsAreNotIdle DEF Inv, Whole, LockIsHeld, Doing
\* The mark is set by the goroutine that goes on to start the timer.
<1>9. MarkHasTimer'
  <2>1. /\ calls'[g] = new
        /\ \A h \in Goroutines : h # g => calls'[h] = calls[h]
    BY <1>3, <1>4 DEF Inv, TypeOK
  <2>2. CASE calls[g].state = syncState
    BY <2>1, <2>2, <1>1, <1>2, <1>4 DEF MarkHasTimer, At, Running
  <2>3. CASE calls[g].state # syncState
    BY <2>1, <2>3, <1>1, <1>2, <1>4 DEF Inv, Whole, MarkHasTimer, At, Running
  <2>4. QED
    BY <2>2, <2>3
<1>10. inProgress' \in BOOLEAN /\ timers' \in 0 .. MaxTimers
  BY <1>1 DEF Inv, TypeOK
<1>11. QED
  BY <1>1, <1>2, <1>3, <1>4, <1>5, <1>6, <1>7, <1>8, <1>9, <1>10, MovesKeepInv

LEMMA StartTimerKeepsInv == ASSUME Inv, NEW g \in Goroutines, StartTimer(g) PROVE Inv'
<1>1. /\ At(g, "start_timer") /\ timers < MaxTimers
      /\ timers' = IF calls[g].state = syncState THEN timers + 1 ELSE timers
      /\ calls' = [calls EXCEPT ![g] = Idle]
      /\ UNCHANGED <<ended, document, networkID, syncState, localVector, inProgress, operationLog,
                     mu, network, states, history>>
  BY DEF StartTimer, Finish
<1>2. /\ calls[g] # Idle /\ calls[g].step = "start_timer" /\ Running /\ LogFits(g, calls[g])
  BY <1>1, CallIsOK
<1>3. LogFits(g, Idle)
  BY <1>2 DEF LogFits, IssuedBefore
<1>4. ~ (g = Controller /\ InControl)
  BY <1>2 DEF InControl, Doing, ControlSteps
<1>5. mu # g
  BY <1>2, CallsAreNotIdle DEF Inv, Whole, LockIsHeld, Doing
<1>6. inProgress' \in BOOLEAN /\ timers' \in 0 .. MaxTimers /\ timers \in Nat
  BY <1>1, ThreadsAssumption DEF Inv, TypeOK
<1>7. MarkHasTimer'
  <2>1. \A h \in Goroutines : h # g => calls'[h] = calls[h]
    BY <1>1 DEF Inv, TypeOK
  <2>2. CASE calls[g].state = syncState
    BY <2>2, <1>1, <1>6 DEF MarkHasTimer
  <2>3. CASE calls[g].state # syncState
    BY <2>1, <2>3, <1>1 DEF Inv, Whole, MarkHasTimer, At, Running
  <2>4. QED
    BY <2>2, <2>3
<1>8. QED
  BY <1>1, <1>2, <1>3, <1>4, <1>5, <1>6, <1>7, MovesKeepInv

LEMMA ClearProgressKeepsInv == ASSUME Inv, NEW g \in Goroutines, ClearProgress(g) PROVE Inv'
<1>1. /\ At(g, "clear") /\ inProgress' = FALSE
      /\ calls' = [calls EXCEPT ![g] = Idle]
      /\ UNCHANGED <<ended, document, networkID, syncState, localVector, timers, operationLog,
                     mu, network, states, history>>
  BY DEF ClearProgress, Finish
<1>2. /\ calls[g] # Idle /\ calls[g].step = "clear" /\ Running /\ LogFits(g, calls[g])
  BY <1>1, CallIsOK
<1>3. LogFits(g, Idle)
  BY <1>2 DEF LogFits, IssuedBefore
<1>4. ~ (g = Controller /\ InControl)
  BY <1>2 DEF InControl, Doing, ControlSteps
<1>5. mu # g
  BY <1>2, CallsAreNotIdle DEF Inv, Whole, LockIsHeld, Doing
<1>6. inProgress' \in BOOLEAN /\ timers' \in 0 .. MaxTimers /\ MarkHasTimer'
  BY <1>1 DEF Inv, TypeOK, MarkHasTimer
<1>7. QED
  BY <1>1, <1>2, <1>3, <1>4, <1>5, <1>6, MovesKeepInv

LEMMA TimeoutKeepsInv == ASSUME Inv, ClearFlagAfterTimeout PROVE Inv'
<1>1. /\ timers > 0 /\ timers' = timers - 1 /\ inProgress' = FALSE
      /\ UNCHANGED <<ended, document, networkID, syncState, localVector, operationLog, mu,
                     network, calls, states, history>>
  BY DEF ClearFlagAfterTimeout
<1>2. TypeOK'
  <2>1. timers \in Nat /\ timers <= MaxTimers /\ MaxTimers \in Nat
    BY ThreadsAssumption DEF Inv, TypeOK
  <2>2. timers' \in 0 .. MaxTimers
    BY <2>1, <1>1
  <2>3. QED
    BY <2>2, <1>1 DEF Inv, TypeOK
<1>3. InControl' <=> InControl
  BY <1>1 DEF InControl, Doing
<1>4. Whole'
  BY <1>1, <1>3 DEF Inv, Whole, Attached, Listed, LockIsHeld, LogIsOld, IncrementsAreKept,
     WriterStampsIncrease, ClockFollowsDisk, OwnWriteStays, MarkHasTimer, Running, Doing
<1>5. Each'
  BY <1>1, <1>3 DEF Inv, Each, CallOK, CallFits, Undisturbed, IsOnDisk, ReadsCurrent,
     FoundCurrent, LogFits, IssuedBefore, Running
<1>6. QED
  BY <1>2, <1>4, <1>5 DEF Inv

-----------------------------------------------------------------------------
(***************************************************************************)
(* Handling an operation, and writing the document.                        *)
(***************************************************************************)
LEMMA FindExistingKeepsInv ==
    ASSUME Inv, NEW g \in Goroutines, NEW op \in Incoming, FindExisting(g, op)
    PROVE  Inv'
<1> DEFINE b   == Begin("apply")
           new == [b EXCEPT !.op = op, !.found = document]
<1>1. /\ Running /\ calls[g] = Idle
      /\ calls' = [calls EXCEPT ![g] = new]
      /\ UNCHANGED <<ended, document, networkID, state, operationLog, mu, network, states, history>>
  BY DEF FindExisting, Free
<1>2. /\ b \in Call /\ b.step = "apply" /\ b.vector = NewVectorClock /\ b.state = 0
      /\ b.overlapped = (calls[Controller] # Idle)
  BY BeginType DEF Steps
<1> HIDE DEF b
<1>3. /\ new \in Call /\ new # Idle /\ new.step = "apply" /\ new.op = op
      /\ new.found = document /\ new.vector = NewVectorClock /\ new.state = 0
      /\ new.overlapped = (calls[Controller] # Idle)
  <2>1. document \in Payload \cup {NoDocument}
    BY DEF Inv, TypeOK
  <2>2. /\ new \in Call /\ new.step = b.step /\ new.op = op /\ new.found = document
        /\ new.vector = b.vector /\ new.state = b.state /\ new.overlapped = b.overlapped
    BY <1>2, <2>1 DEF Call
  <2>3. QED
    BY <1>2, <2>2, CallsAreNotIdle
<1> HIDE DEF new
<1>4. \A q \in Peers : NewVectorClock[q] = 0 /\ history.applied[q] \in Nat /\ history.applied[q] >= 0
  BY PeersOfClocks DEF NewVectorClock, Inv, TypeOK, History
<1>5. CallOK(g, new)
  <2>1. CallFits(g, new)
    BY <1>3 DEF CallFits, ControlSteps, Inv, TypeOK
  <2>2. Undisturbed(g, new)
    BY <1>3 DEF Undisturbed, InControl, Doing
  <2>3. IsOnDisk(new)
    BY <1>3, <1>4 DEF IsOnDisk
  <2>4. QED
    BY <1>3, <2>1, <2>2, <2>3 DEF CallOK, ReadsCurrent, FoundCurrent
<1>6. QED
  BY <1>1, <1>3, <1>5, LookingKeepsInv DEF ControlSteps

\* Those that found the document before it is written know that it is stale.
LEMMA OvertakenType ==
    ASSUME NEW g \in Goroutines, NEW c \in [Goroutines -> Call \cup {Idle}]
    PROVE  /\ Overtaken(g, c) \in [Goroutines -> Call \cup {Idle}]
           /\ Overtaken(g, c)[g] = c[g]
           /\ \A h \in Goroutines :
                 LET d == Overtaken(g, c)[h]
                 IN  /\ d = Idle <=> c[h] = Idle
                     /\ h # g /\ c[h] # Idle /\ c[h].step = "apply" => d.stale
                     /\ ~ (c[h] # Idle /\ c[h].step = "apply") => d = c[h]
                     /\ c[h] # Idle =>
                          /\ d.step = c[h].step /\ d.op = c[h].op /\ d.found = c[h].found
                          /\ d.vector = c[h].vector /\ d.state = c[h].state
                          /\ d.crossed = c[h].crossed /\ d.overlapped = c[h].overlapped
<1>1. ASSUME NEW d \in Call
      PROVE  LET s == [d EXCEPT !.stale = TRUE]
             IN  /\ s \in Call /\ s # Idle /\ s.stale
                 /\ s.step = d.step /\ s.op = d.op /\ s.found = d.found
                 /\ s.vector = d.vector /\ s.state = d.state
                 /\ s.crossed = d.crossed /\ s.overlapped = d.overlapped
  <2>1. [d EXCEPT !.stale = TRUE] \in Call
    BY DEF Call
  <2>2. QED
    BY <2>1, CallsAreNotIdle DEF Call
<1>2. \A h \in Goroutines : c[h] # Idle => c[h] \in Call
  OBVIOUS
<1>3. \A h \in Goroutines : Overtaken(g, c)[h] =
         IF h # g /\ c[h] # Idle /\ c[h].step = "apply" THEN [c[h] EXCEPT !.stale = TRUE] ELSE c[h]
  BY DEF Overtaken
<1>4. ASSUME NEW h \in Goroutines
      PROVE  LET d == Overtaken(g, c)[h]
             IN  /\ d \in Call \cup {Idle}
                 /\ d = Idle <=> c[h] = Idle
                 /\ h # g /\ c[h] # Idle /\ c[h].step = "apply" => d.stale
                 /\ ~ (c[h] # Idle /\ c[h].step = "apply") => d = c[h]
                 /\ c[h] # Idle =>
                      /\ d.step = c[h].step /\ d.op = c[h].op /\ d.found = c[h].found
                      /\ d.vector = c[h].vector /\ d.state = c[h].state
                      /\ d.crossed = c[h].crossed /\ d.overlapped = c[h].overlapped
  <2>1. CASE h # g /\ c[h] # Idle /\ c[h].step = "apply"
    <3>1. c[h] \in Call /\ Overtaken(g, c)[h] = [c[h] EXCEPT !.stale = TRUE]
      BY <2>1, <1>2, <1>3
    <3>2. QED
      BY <2>1, <3>1, <1>1
  <2>2. CASE ~ (h # g /\ c[h] # Idle /\ c[h].step = "apply")
    BY <2>2, <1>3
  <2>3. QED
    BY <2>1, <2>2
<1>5. Overtaken(g, c) \in [Goroutines -> Call \cup {Idle}]
  BY <1>4 DEF Overtaken
<1>6. Overtaken(g, c)[g] = c[g]
  BY <1>3
<1>7. QED
  BY <1>4, <1>5, <1>6

\* g writes the document, at the start of a call or at the end of handling an
\* operation.
LEMMA WritingKeepsInv ==
    ASSUME Inv, Running, NEW g \in Goroutines, NEW new \in Call,
           ~ (g = Controller /\ InControl), mu # g,
           calls[g] # Idle => calls[g].step # "start_timer",
           new.step \in {"stamp", "check_merge"},
           CallFits(g, new), Undisturbed(g, new),
           \A q \in Peers : /\ q # Me => new.vector[q] <= history.applied[q]
                            /\ new.step = "check_merge" => new.op.vector[q] <= history'.applied[q]
                            /\ history.applied[q] <= history'.applied[q],
           LogFits(g, new),
           calls' = Overtaken(g, [calls EXCEPT ![g] = new]),
           document' \in Payload \cup {NoDocument}, history' \in History, OwnWriteStays',
           history'.done = history.done, history'.crossed = history.crossed,
           history'.left = history.left,
           UNCHANGED <<ended, networkID, state, operationLog, mu, network, states>>
    PROVE  Inv'
<1> DEFINE c == [calls EXCEPT ![g] = new]
<1>1. /\ c \in [Goroutines -> Call \cup {Idle}]
      /\ c[g] = new /\ new # Idle
      /\ \A h \in Goroutines : h # g => c[h] = calls[h]
  BY CallsAreNotIdle DEF Inv, TypeOK
<1>2. calls' = Overtaken(g, c)
  OBVIOUS
<1> HIDE DEF c
<1>3. /\ calls' \in [Goroutines -> Call \cup {Idle}] /\ calls'[g] = new
      /\ \A h \in Goroutines : h # g =>
            /\ calls'[h] = Idle <=> calls[h] = Idle
            /\ calls[h] # Idle /\ calls[h].step = "apply" => calls'[h].stale
            /\ calls[h] # Idle /\ calls[h].step # "apply" => calls'[h] = calls[h]
            /\ calls[h] # Idle =>
                 /\ calls'[h].step = calls[h].step /\ calls'[h].op = calls[h].op
                 /\ calls'[h].vector = calls[h].vector /\ calls'[h].state = calls[h].state
                 /\ calls'[h].crossed = calls[h].crossed
                 /\ calls'[h].overlapped = calls[h].overlapped
  <2>1. calls' \in [Goroutines -> Call \cup {Idle}] /\ calls'[g] = new
    <3>1. /\ Overtaken(g, c) \in [Goroutines -> Call \cup {Idle}]
          /\ Overtaken(g, c)[g] = c[g]
      BY <1>1, OvertakenType
    <3>2. QED
      BY <3>1, <1>1, <1>2
  <2>2. \A h \in Goroutines :
           LET d == calls'[h]
           IN  /\ d = Idle <=> c[h] = Idle
               /\ h # g /\ c[h] # Idle /\ c[h].step = "apply" => d.stale
               /\ ~ (c[h] # Idle /\ c[h].step = "apply") => d = c[h]
               /\ c[h] # Idle =>
                    /\ d.step = c[h].step /\ d.op = c[h].op /\ d.found = c[h].found
                    /\ d.vector = c[h].vector /\ d.state = c[h].state
                    /\ d.crossed = c[h].crossed /\ d.overlapped = c[h].overlapped
    BY <1>1, <1>2, OvertakenType
  <2>3. ASSUME NEW h \in Goroutines, h # g
        PROVE  /\ calls'[h] = Idle <=> calls[h] = Idle
               /\ calls[h] # Idle /\ calls[h].step = "apply" => calls'[h].stale
               /\ calls[h] # Idle /\ calls[h].step # "apply" => calls'[h] = calls[h]
               /\ calls[h] # Idle =>
                    /\ calls'[h].step = calls[h].step /\ calls'[h].op = calls[h].op
                    /\ calls'[h].vector = calls[h].vector /\ calls'[h].state = calls[h].state
                    /\ calls'[h].crossed = calls[h].crossed
                    /\ calls'[h].overlapped = calls[h].overlapped
    <3>1. c[h] = calls[h]
      BY <1>1, <2>3
    <3>2. /\ calls'[h] = Idle <=> c[h] = Idle
          /\ c[h] # Idle /\ c[h].step = "apply" => calls'[h].stale
          /\ c[h] # Idle /\ c[h].step # "apply" => calls'[h] = c[h]
      BY <2>2, <2>3
    <3>3. c[h] # Idle =>
            /\ calls'[h].step = c[h].step /\ calls'[h].op = c[h].op
            /\ calls'[h].vector = c[h].vector /\ calls'[h].state = c[h].state
            /\ calls'[h].crossed = c[h].crossed /\ calls'[h].overlapped = c[h].overlapped
      BY <2>2, <2>3
    <3>4. QED
      BY <3>1, <3>2, <3>3
  <2>4. QED
    BY <2>1, <2>3
<1>4. /\ InControl' <=> InControl
      /\ \A steps \in SUBSET ControlSteps : Doing(Controller, steps)' <=> Doing(Controller, steps)
  <2>1. Controller \in Goroutines
    BY DEF Goroutines
  <2>2. \A steps \in SUBSET ControlSteps : Doing(Controller, steps)' <=> Doing(Controller, steps)
    <3>1. CASE g = Controller
      BY <3>1, <2>1, <1>1, <1>3 DEF InControl, Doing, ControlSteps
    <3>2. CASE g # Controller
      BY <3>2, <2>1, <1>3 DEF Doing
    <3>3. QED
      BY <3>1, <3>2
  <2>3. QED
    BY <2>2 DEF InControl
<1>5. TypeOK'
  BY <1>3 DEF Inv, TypeOK, state
<1>6. Attached'
  BY <1>4 DEF Inv, Whole, Attached, Running, ControlSteps, state
<1>7. Listed'
  <2>1. Doing(Controller, {"add"}) => g # Controller /\ calls'[Controller] = calls[Controller]
    BY <1>3 DEF InControl, Doing, ControlSteps, Goroutines
  <2>2. QED
    BY <2>1, <1>4 DEF Inv, Whole, Listed, Running, ControlSteps
<1>8. LockIsHeld'
  <2>1. mu # Idle => mu \in Goroutines
    BY DEF Inv, TypeOK, Goroutines
  <2>2. QED
    BY <2>1, <1>3 DEF Inv, Whole, LockIsHeld, Doing, Running
<1>9. LogIsOld' /\ IncrementsAreKept' /\ WriterStampsIncrease'
  BY DEF Inv, Whole, LogIsOld, IncrementsAreKept, WriterStampsIncrease, state
<1>10. ClockFollowsDisk'
  <2>1. \A q \in Peers : /\ localVector[q] \in Nat
                         /\ history.applied[q] \in Nat /\ history'.applied[q] \in Nat
    BY PeersOfClocks DEF Inv, TypeOK, History
  <2>2. QED
    BY <2>1 DEF Inv, Whole, ClockFollowsDisk, state
<1>11. MarkHasTimer'
  <2>1. ASSUME NEW h \in Goroutines, At(h, "start_timer")
        PROVE  At(h, "start_timer")' /\ calls'[h] = calls[h]
    BY <2>1, <1>3 DEF At, Running
  <2>2. QED
    BY <2>1 DEF Inv, Whole, MarkHasTimer, Running, state
<1>12. ASSUME NEW h \in Goroutines
       PROVE  (calls'[h] # Idle => CallOK(h, calls[h])') /\ LogFits(h, calls[h])'
  <2>1. ASSUME NEW d, NEW e \in Call,
               e.step = d.step, e.op = d.op, e.vector = d.vector, e.state = d.state,
               e.crossed = d.crossed, e.overlapped = d.overlapped,
               e.step = "apply" => e.stale,
               CallFits(h, d), Undisturbed(h, d), IsOnDisk(d)', ReadsCurrent(d),
               d.step = "panicked" => d.overlapped
        PROVE  CallOK(h, e)'
    BY <2>1, <1>4 DEF CallOK, CallFits, Undisturbed, IsOnDisk, ReadsCurrent, FoundCurrent,
                      Running, state
  <2>2. ASSUME NEW d \in Call, IsOnDisk(d), d.step \in {"check_merge", "read", "merge"} => d.op \in Incoming
        PROVE  IsOnDisk(d)'
    <3>1. \A q \in Peers : /\ d.vector[q] \in Nat
                           /\ history.applied[q] \in Nat /\ history'.applied[q] \in Nat
      BY PeersOfClocks DEF Inv, TypeOK, History, Call
    <3>2. d.step \in {"check_merge", "read", "merge"} => \A q \in Peers : d.op.vector[q] \in Nat
      BY <2>2, ThreadsAssumption, PeersOfClocks DEF ThreadsAssumption
    <3>3. QED
      BY <2>2, <3>1, <3>2 DEF IsOnDisk
  <2>3. ASSUME NEW d, NEW e, LogFits(h, d), d = Idle <=> e = Idle,
               d # Idle => e.step = d.step /\ e.state = d.state /\ e.vector = d.vector
        PROVE  LogFits(h, e)'
    BY <2>3 DEF LogFits, IssuedBefore, Running, state
  <2>4. CASE h = g
    <3>1. IsOnDisk(new)'
      <4>1. \A q \in Peers : /\ new.vector[q] \in Nat
                             /\ history.applied[q] \in Nat /\ history'.applied[q] \in Nat
        BY PeersOfClocks DEF Inv, TypeOK, History, Call
      <4>2. QED
        BY <4>1 DEF IsOnDisk
    <3>2. CallOK(h, new)'
      BY <2>4, <3>1, <1>4 DEF CallOK, CallFits, Undisturbed, ReadsCurrent, FoundCurrent,
                              Running, state
    <3>3. LogFits(h, new)'
      BY <2>4, <2>3
    <3>4. QED
      BY <2>4, <3>2, <3>3, <1>3
  <2>5. CASE h # g
    <3>1. calls[h] # Idle => calls[h] \in Call /\ CallOK(h, calls[h])
      BY UnderWay DEF Inv, Each
    <3>2. LogFits(h, calls[h])
      BY DEF Inv, Each
    <3>3. LogFits(h, calls[h])'
      BY <3>2, <2>3, <2>5, <1>3
    <3>4. ASSUME calls[h] # Idle PROVE CallOK(h, calls[h])'
      <4>1. PICK d \in Call : d = calls[h]
        BY <3>1, <3>4
      <4>2. PICK e \in Call : e = calls'[h]
        <5>1. calls'[h] \in Call \cup {Idle} /\ calls'[h] # Idle
          BY <3>4, <1>3, <2>5
        <5>2. QED
          BY <5>1
      <4>3. CallOK(h, d)
        BY <3>1, <3>4, <4>1
      <4>4. IsOnDisk(d)'
        BY <4>3, <2>2 DEF CallOK, CallFits
      <4>5. /\ e.step = d.step /\ e.op = d.op /\ e.vector = d.vector /\ e.state = d.state
            /\ e.crossed = d.crossed /\ e.overlapped = d.overlapped
            /\ e.step = "apply" => e.stale
        BY <3>4, <4>1, <4>2, <1>3, <2>5
      <4>6. CallOK(h, e)'
        BY <4>3, <4>4, <4>5, <2>1 DEF CallOK
      <4>7. QED
        BY <4>2, <4>6
    <3>5. QED
      BY <3>3, <3>4, <2>5, <1>3
  <2>6. QED
    BY <2>4, <2>5
<1>13. QED
  BY <1>5, <1>6, <1>7, <1>8, <1>9, <1>10, <1>11, <1>12 DEF Inv, Whole, Each

LEMMA ResultType ==
    ASSUME NEW found \in Payload \cup {NoDocument}, NEW op \in Incoming
    PROVE  /\ Result(found, op) \in Payload \cup {NoDocument}
           /\ ~ HasItsWay(found, op) => Result(found, op) = found
<1> DEFINE existing == Existing(found, op)
           result   == ApplyOperation(existing, op)
<1>1. /\ op.type \in {"insert", "update", "delete"} /\ op.peer \in Peers
      /\ op.vector \in Clock /\ op.timestamp \in Nat
      /\ op.type # "delete" => op.data \in Document
  BY ThreadsAssumption DEF ThreadsAssumption
<1>2. /\ found = NoDocument => existing = NoDocument
      /\ found # NoDocument => existing \in Document /\ existing = ToDistributed(found, op.peer, Now)
  BY <1>1, ToDistributedType DEF Existing, Now
<1>3. result \in Document \cup {NoDocument}
  BY <1>1, <1>2, ApplyOperationType
<1>4. Result(found, op) \in Payload \cup {NoDocument}
  BY <1>3 DEF Result, ToRegular, Document
<1>5. ASSUME ~ HasItsWay(found, op) PROVE Result(found, op) = found
  <2>1. CASE found = NoDocument
    <3>1. result = NoDocument
      BY <2>1, <1>1, <1>2, <1>5 DEF HasItsWay, ApplyOperation
    <3>2. QED
      BY <2>1, <3>1 DEF Result
  <2>2. CASE found # NoDocument
    <3>1. ~ Applies(existing, op) /\ existing # NoDocument
      BY <2>2, <1>2, <1>5, ResolverAssumption DEF HasItsWay, ResolverAssumption
    <3>2. result = existing
      BY <3>1 DEF ApplyOperation
    <3>3. existing.payload = found /\ existing.deleted = FALSE
      BY <2>2, <1>2 DEF ToDistributed
    <3>4. QED
      BY <3>1, <3>2, <3>3 DEF Result, ToRegular
  <2>3. QED
    BY <2>1, <2>2
<1>6. QED
  BY <1>4, <1>5

LEMMA WriteLocalKeepsInv ==
    ASSUME Inv, NEW g \in Goroutines, NEW what \in Docs \cup {NoDocument}, WriteLocal(g, what)
    PROVE  Inv'
<1> DEFINE new == Begin("stamp")
<1>1. /\ g \in Writers /\ calls[g] = Idle /\ Running
      /\ document' = what
      /\ calls'    = Overtaken(g, [calls EXCEPT ![g] = new])
      /\ history'  = [history EXCEPT !.mine = what, !.writes = @ + 1]
      /\ UNCHANGED <<ended, networkID, state, operationLog, mu, network, states>>
  BY DEF WriteLocal, Free
<1>2. /\ new \in Call /\ new.step = "stamp" /\ new.vector = NewVectorClock /\ new.state = 0
  BY BeginType DEF Steps
<1>3. CallOK(g, new)
  BY <1>1, BeginFits
<1> HIDE DEF new
<1>4. what \in Payload \cup {NoDocument}
  BY ThreadsAssumption DEF ThreadsAssumption
<1>5. /\ history' \in History
      /\ history'.mine = what /\ history'.done = history.done
      /\ history'.crossed = history.crossed /\ history'.left = history.left
      /\ history'.applied = history.applied
  <2>1. history \in History /\ history.writes + 1 \in Nat
    BY DEF Inv, TypeOK, History
  <2> DEFINE w == history.writes + 1
  <2>2. history' = [history EXCEPT !.mine = what, !.writes = w]
    BY <1>1
  <2> HIDE DEF w
  <2>3. QED
    BY <2>1, <2>2, <1>4 DEF w, History
<1>6. OwnWriteStays'
  BY <1>1, <1>5 DEF OwnWriteStays
<1>7. \A q \in Peers : history.applied[q] \in Nat /\ history.applied[q] <= history.applied[q]
  BY PeersOfClocks DEF Inv, TypeOK, History
<1>8. \A q \in Peers : /\ q # Me => new.vector[q] <= history.applied[q]
                       /\ new.step = "check_merge" => new.op.vector[q] <= history'.applied[q]
                       /\ history.applied[q] <= history'.applied[q]
  BY <1>2, <1>3, <1>5, <1>7 DEF CallOK, IsOnDisk
<1>9. mu # g
  BY <1>1, CallsAreNotIdle DEF Inv, Whole, LockIsHeld, Doing
<1>10. ~ (g = Controller /\ InControl)
  BY <1>1 DEF InControl, Doing
<1>11. LogFits(g, new)
  BY <1>1, <1>2 DEF Inv, Each, LogFits, IssuedBefore
<1>12. QED
  BY <1>1, <1>2, <1>3, <1>4, <1>5, <1>6, <1>8, <1>9, <1>10, <1>11, WritingKeepsInv DEF CallOK

LEMMA WriteResultKeepsInv == ASSUME Inv, NEW g \in Goroutines, WriteResult(g) PROVE Inv'
<1> DEFINE c   == calls[g]
           new == [c EXCEPT !.step = "check_merge", !.found = NoDocument, !.stale = FALSE]
<1>1. /\ At(g, "apply")
      /\ document' = Result(c.found, c.op)
      /\ history'  = [history EXCEPT
            !.applied = Merge(@, c.op.vector),
            !.mine    = IF c.stale \/ HasItsWay(c.found, c.op) THEN Idle ELSE @]
      /\ UNCHANGED <<ended, networkID, state, operationLog, mu, network, states>>
  BY DEF WriteResult
<1>2. /\ CallOK(g, c) /\ c \in Call /\ c # Idle
      /\ c.step = "apply" /\ Running /\ LogFits(g, c)
  BY <1>1, CallIsOK
<1>3. calls' = Overtaken(g, [calls EXCEPT ![g] = new])
  <2>1. [calls EXCEPT ![g].step = "check_merge", ![g].found = NoDocument, ![g].stale = FALSE]
          = [calls EXCEPT ![g] = new]
    BY <1>2, UnderWay DEF Inv, TypeOK
  <2>2. QED
    BY <2>1 DEF WriteResult
<1>4. /\ new \in Call /\ new # Idle /\ new.step = "check_merge" /\ new.op = c.op
      /\ new.vector = c.vector /\ new.state = c.state /\ new.overlapped = c.overlapped
  <2> HIDE DEF c
  <2>1. new \in Call
    BY <1>2 DEF Call
  <2>2. /\ new.step = "check_merge" /\ new.op = c.op
        /\ new.vector = c.vector /\ new.state = c.state /\ new.overlapped = c.overlapped
    BY <1>2 DEF Call
  <2>3. QED
    BY <2>1, <2>2, CallsAreNotIdle
<1>5. c.op \in Incoming /\ c.op.vector \in Clock /\ c.found \in Payload \cup {NoDocument}
  BY <1>2, ThreadsAssumption DEF CallOK, CallFits, ThreadsAssumption, Call
<1>6. (~ c.stale => c.found = document) /\ IsOnDisk(c) /\ CallFits(g, c) /\ Undisturbed(g, c)
  BY <1>2 DEF CallOK, FoundCurrent
<1>7. /\ document' \in Payload \cup {NoDocument}
      /\ ~ HasItsWay(c.found, c.op) => document' = c.found
  BY <1>1, <1>5, ResultType
<1> HIDE DEF c, new
<1>8. /\ history' \in History /\ history'.done = history.done
      /\ history'.crossed = history.crossed /\ history'.left = history.left
      /\ history'.applied = Merge(history.applied, c.op.vector)
      /\ history'.mine = IF c.stale \/ HasItsWay(c.found, c.op) THEN Idle ELSE history.mine
  <2>1. Merge(history.applied, c.op.vector) \in Clock
    BY <1>5, MergeType DEF Inv, TypeOK, History
  <2>2. QED
    BY <2>1, <1>1 DEF Inv, TypeOK, History
<1>9. OwnWriteStays'
  BY <1>6, <1>7, <1>8 DEF Inv, Whole, OwnWriteStays
<1>10. \A q \in Peers : /\ history.applied[q] <= history'.applied[q]
                        /\ c.op.vector[q] <= history'.applied[q]
  BY <1>5, <1>8, MergeIsUpperBound DEF Inv, TypeOK, History, \preceq
<1>11. CallFits(g, new) /\ Undisturbed(g, new) /\ LogFits(g, new)
  BY <1>2, <1>4, <1>5, <1>6 DEF CallFits, Undisturbed, LogFits, IssuedBefore, ControlSteps
<1>12. mu # g /\ ~ (g = Controller /\ InControl)
  BY <1>2, CallsAreNotIdle DEF c, Inv, Whole, LockIsHeld, Doing, InControl, ControlSteps
<1>13. \A q \in Peers : /\ q # Me => new.vector[q] <= history.applied[q]
                        /\ new.step = "check_merge" => new.op.vector[q] <= history'.applied[q]
                        /\ history.applied[q] <= history'.applied[q]
  BY <1>4, <1>6, <1>10 DEF IsOnDisk
<1>14. calls[g].step # "start_timer"
  BY <1>2 DEF c
<1>15. QED
  BY <1>1, <1>2, <1>3, <1>4, <1>7, <1>8, <1>9, <1>11, <1>12, <1>13, <1>14, WritingKeepsInv

-----------------------------------------------------------------------------
(***************************************************************************)
(* The log.  It grows at its end and is cut at its beginning: the          *)
(* operations in it keep their order.                                      *)
(***************************************************************************)
LEMMA PruneKeepsTheEnd ==
    ASSUME NEW log \in Seq(Logged)
    PROVE  \E k \in Nat :
              /\ pruneOperationLog(log) \in Seq(Logged)
              /\ Len(pruneOperationLog(log)) <= MaxLogSize
              /\ \A i \in DOMAIN pruneOperationLog(log) :
                    i + k \in DOMAIN log /\ pruneOperationLog(log)[i] = log[i + k]
<1>1. Len(log) \in Nat /\ MaxLogSize \in Nat /\ MaxLogSize > 0 /\ DOMAIN log = 1 .. Len(log)
  BY ThreadsAssumption DEF ThreadsAssumption
<1>2. CASE Len(log) <= MaxLogSize
  <2>1. pruneOperationLog(log) = log
    BY <1>1, <1>2 DEF pruneOperationLog
  <2>2. \A i \in DOMAIN log : i + 0 \in DOMAIN log /\ log[i] = log[i + 0]
    BY <1>1
  <2>3. QED
    BY <2>1, <2>2, <1>2
<1>3. CASE Len(log) > MaxLogSize
  <2> DEFINE k     == Len(log) - MaxLogSize
             first == k + 1
             short == SubSeq(log, first, Len(log))
  <2>1. pruneOperationLog(log) = short
    BY <1>3 DEF pruneOperationLog
  <2>2. /\ k \in Nat /\ first \in 1 .. Len(log) + 1 /\ Len(log) \in first - 1 .. Len(log)
        /\ Len(log) - first + 1 = MaxLogSize
    BY <1>1, <1>3
  <2>3. /\ short \in Seq(Logged) /\ Len(short) = Len(log) - first + 1
        /\ \A i \in 1 .. Len(log) - first + 1 : short[i] = log[first + i - 1]
    <3> HIDE DEF first
    <3>1. QED
      BY <2>2, <1>1, SubSeqProperties
  <2>4. Len(short) = MaxLogSize /\ DOMAIN short = 1 .. MaxLogSize
    BY <2>2, <2>3
  <2>5. ASSUME NEW i \in DOMAIN short
        PROVE  i + k \in DOMAIN log /\ short[i] = log[i + k]
    <3>1. i \in 1 .. MaxLogSize
      BY <2>4
    <3>2. i + k \in DOMAIN log /\ first + i - 1 = i + k
      BY <3>1, <1>1, <1>3
    <3>3. short[i] = log[first + i - 1]
      BY <3>1, <2>2, <2>3
    <3>4. QED
      BY <3>2, <3>3
  <2> HIDE DEF k, short
  <2>6. QED
    BY <1>1, <2>1, <2>2, <2>3, <2>4, <2>5
<1>4. QED
  BY <1>1, <1>2, <1>3

\* The log after an operation: the last of it, or an older one that stands where
\* it stood before the others.
LEMMA LogAfter ==
    ASSUME NEW log \in Seq(Logged), NEW e \in Logged
    PROVE  LET new == pruneOperationLog(Append(log, e))
           IN  \E k \in Nat :
                  /\ new \in Seq(Logged) /\ Len(new) <= MaxLogSize
                  /\ \A i \in DOMAIN new :
                        \/ i + k \in DOMAIN log /\ new[i] = log[i + k]
                        \/ i + k = Len(log) + 1 /\ new[i] = e
<1> DEFINE long == Append(log, e)
           new  == pruneOperationLog(long)
<1>1. /\ long \in Seq(Logged) /\ Len(log) \in Nat /\ DOMAIN log = 1 .. Len(log)
      /\ DOMAIN long = 1 .. Len(log) + 1 /\ long[Len(log) + 1] = e
      /\ \A i \in 1 .. Len(log) : long[i] = log[i]
  OBVIOUS
<1> HIDE DEF long, new
<1>2. PICK k \in Nat : /\ pruneOperationLog(long) \in Seq(Logged)
                       /\ Len(pruneOperationLog(long)) <= MaxLogSize
                       /\ \A i \in DOMAIN pruneOperationLog(long) :
                             /\ i + k \in DOMAIN long
                             /\ pruneOperationLog(long)[i] = long[i + k]
  BY <1>1, PruneKeepsTheEnd
<1>3. new = pruneOperationLog(long)
  BY DEF new
<1>4. ASSUME NEW i \in DOMAIN new
      PROVE  \/ i + k \in DOMAIN log /\ new[i] = log[i + k]
             \/ i + k = Len(log) + 1 /\ new[i] = e
  <2>1. i + k \in 1 .. Len(log) + 1 /\ new[i] = long[i + k]
    BY <1>1, <1>2, <1>3
  <2>2. CASE i + k = Len(log) + 1
    BY <2>1, <2>2, <1>1
  <2>3. CASE i + k # Len(log) + 1
    <3>1. i + k \in 1 .. Len(log)
      BY <2>1, <2>3, <1>1
    <3>2. QED
      BY <3>1, <2>1, <1>1
  <2>4. QED
    BY <2>2, <2>3
<1>5. QED
  BY <1>2, <1>3, <1>4 DEF new, long

LEMMA LockAndLogKeepsInv == ASSUME Inv, NEW g \in Goroutines, LockAndLog(g) PROVE Inv'
<1> DEFINE c == calls[g]
           b == Begin("count")
<1>1. /\ At(g, "lock") /\ mu = Idle /\ mu' = g
      /\ operationLog' = pruneOperationLog(Append(operationLog,
            [vector |-> c.vector, by |-> g, state |-> c.state]))
      /\ calls' = [calls EXCEPT ![g] = [b EXCEPT !.overlapped = c.overlapped]]
      /\ UNCHANGED <<ended, document, networkID, state, network, states, history>>
  BY DEF LockAndLog
<1>2. /\ CallOK(g, c) /\ c \in Call /\ c # Idle
      /\ c.step = "lock" /\ Running /\ LogFits(g, c)
  BY <1>1, CallIsOK
<1>3. /\ b \in Call /\ b.step = "count" /\ b.vector = NewVectorClock /\ b.state = 0
  BY BeginType DEF Steps
<1> HIDE DEF b, c
<1>4. PICK new \in Call :
         /\ new = [b EXCEPT !.overlapped = c.overlapped]
         /\ new # Idle /\ new.step = "count" /\ new.vector = NewVectorClock
         /\ new.state = 0 /\ new.overlapped = c.overlapped
  <2> DEFINE new == [b EXCEPT !.overlapped = c.overlapped]
  <2>1. c.overlapped \in BOOLEAN
    BY <1>2 DEF Call
  <2>2. new \in Call
    BY <1>3, <2>1 DEF Call
  <2>3. new.step = b.step /\ new.vector = b.vector /\ new.state = b.state
        /\ new.overlapped = c.overlapped
    BY <1>3, <2>1 DEF Call
  <2>4. QED
    BY <1>3, <2>2, <2>3, CallsAreNotIdle
<1>5. g \in Writers
  BY <1>2 DEF CallOK, CallFits
<1>6. PICK e \in Logged : /\ e = [vector |-> c.vector, by |-> g, state |-> c.state]
                          /\ e.vector = c.vector /\ e.by = g /\ e.state = c.state
  <2>1. c.vector \in Clock /\ c.state \in Nat
    BY <1>2 DEF Call
  <2>2. [vector |-> c.vector, by |-> g, state |-> c.state] \in Logged
    BY <2>1, <1>5 DEF Logged
  <2>3. QED
    BY <2>2
<1>7. PICK k \in Nat :
         /\ operationLog' \in Seq(Logged) /\ Len(operationLog') <= MaxLogSize
         /\ \A i \in DOMAIN operationLog' :
               \/ i + k \in DOMAIN operationLog /\ operationLog'[i] = operationLog[i + k]
               \/ i + k = Len(operationLog) + 1 /\ operationLog'[i] = e
  <2>1. operationLog \in Seq(Logged) /\ operationLog' = pruneOperationLog(Append(operationLog, e))
    BY <1>1, <1>6 DEF Inv, TypeOK
  <2> DEFINE after == pruneOperationLog(Append(operationLog, e))
  <2>2. \E k \in Nat :
           /\ after \in Seq(Logged) /\ Len(after) <= MaxLogSize
           /\ \A i \in DOMAIN after :
                 \/ i + k \in DOMAIN operationLog /\ after[i] = operationLog[i + k]
                 \/ i + k = Len(operationLog) + 1 /\ after[i] = e
    BY <2>1, LogAfter
  <2>3. operationLog' = after
    BY <2>1
  <2> HIDE DEF after
  <2>4. QED
    BY <2>2, <2>3
<1>8. /\ calls' \in [Goroutines -> Call \cup {Idle}]
      /\ \A h \in Goroutines : calls'[h] = IF h = g THEN new ELSE calls[h]
  BY <1>1, <1>4 DEF Inv, TypeOK
<1>9. TypeOK'
  BY <1>1, <1>5, <1>7, <1>8 DEF Inv, TypeOK, state
<1>10. /\ ~ (g = Controller /\ InControl)
       /\ calls'[Controller] = calls[Controller] \/ ~ InControl
       /\ InControl' <=> InControl
       /\ \A steps \in SUBSET ControlSteps : Doing(Controller, steps)' <=> Doing(Controller, steps)
  BY <1>2, <1>4, <1>8 DEF c, InControl, Doing, ControlSteps, Goroutines
<1>11. Attached'
  BY <1>1, <1>10 DEF Inv, Whole, Attached, Running, ControlSteps, state
<1>12. Listed'
  <2>1. Doing(Controller, {"add"}) => calls'[Controller] = calls[Controller]
    BY <1>10 DEF InControl, Doing, ControlSteps
  <2>2. QED
    BY <2>1, <1>1, <1>10 DEF Inv, Whole, Listed, Running, ControlSteps
<1>13. LockIsHeld'
  BY <1>1, <1>4, <1>8 DEF LockIsHeld, Doing
\* The new operation is not newer than the clock, and newer than the goroutine's
\* other ones.
<1>14. LogIsOld'
  <2>1. ASSUME NEW i \in DOMAIN operationLog'
        PROVE  /\ operationLog'[i].state <= states
               /\ history.crossed = {} /\ operationLog'[i].state = syncState /\ syncState # 0 =>
                     operationLog'[i].vector[Me] <= localVector[Me]
    <3>1. CASE i + k \in DOMAIN operationLog /\ operationLog'[i] = operationLog[i + k]
      BY <3>1 DEF Inv, Whole, LogIsOld
    <3>2. CASE operationLog'[i] = e
      BY <3>2, <1>2, <1>6 DEF CallOK, CallFits, ReadsCurrent
    <3>3. QED
      BY <1>7, <3>1, <3>2
  <2>2. QED
    BY <2>1, <1>1 DEF LogIsOld, state
<1>15. WriterStampsIncrease'
  <2> SUFFICES ASSUME NEW i \in DOMAIN operationLog', NEW j \in DOMAIN operationLog', i < j,
                      history.crossed = {}, operationLog'[i].by = operationLog'[j].by,
                      operationLog'[i].state = operationLog'[j].state,
                      operationLog'[i].state = syncState, syncState # 0
               PROVE  operationLog'[i].vector[Me] < operationLog'[j].vector[Me]
    BY <1>1 DEF WriterStampsIncrease, state
  <2>1. /\ DOMAIN operationLog = 1 .. Len(operationLog) /\ Len(operationLog) \in Nat
        /\ i \in Nat /\ j \in Nat
    BY <1>7 DEF Inv, TypeOK
  <2>2. i + k \in DOMAIN operationLog /\ operationLog'[i] = operationLog[i + k] /\ i + k < j + k
    <3>1. i + k < j + k
      BY <2>1
    <3>2. j + k \in 1 .. Len(operationLog) \/ j + k = Len(operationLog) + 1
      BY <1>7, <2>1
    <3>3. i + k # Len(operationLog) + 1
      BY <3>1, <3>2, <2>1
    <3>4. QED
      BY <1>7, <3>1, <3>3
  <2>3. CASE j + k \in DOMAIN operationLog /\ operationLog'[j] = operationLog[j + k]
    BY <2>2, <2>3 DEF Inv, Whole, WriterStampsIncrease
  <2>4. CASE operationLog'[j] = e
    BY <2>2, <2>4, <1>2, <1>6 DEF LogFits, IssuedBefore
  <2>5. QED
    BY <1>7, <2>3, <2>4
<1>16. IncrementsAreKept' /\ ClockFollowsDisk' /\ OwnWriteStays'
  BY <1>1 DEF Inv, Whole, IncrementsAreKept, ClockFollowsDisk, OwnWriteStays, state
<1>17. MarkHasTimer'
  BY <1>1, <1>2, <1>8 DEF c, Inv, Whole, MarkHasTimer, At, Running, state
<1>18. CallOK(g, new)'
  <2>1. CallFits(g, new)'
    BY <1>1, <1>2, <1>4, <1>5 DEF CallFits, ControlSteps, Inv, TypeOK
  <2>2. Undisturbed(g, new)'
    BY <1>1, <1>2, <1>4, <1>10 DEF CallOK, Undisturbed, Running
  <2>3. \A q \in Peers : NewVectorClock[q] = 0 /\ history.applied[q] \in Nat /\ history.applied[q] >= 0
    BY PeersOfClocks DEF NewVectorClock, Inv, TypeOK, History
  <2>4. IsOnDisk(new)'
    BY <1>1, <1>4, <2>3 DEF IsOnDisk
  <2>5. QED
    BY <1>4, <2>1, <2>2, <2>4 DEF CallOK, ReadsCurrent, FoundCurrent
<1>19. LogFits(g, new)'
  BY <1>4 DEF LogFits, IssuedBefore
<1>20. ASSUME NEW h \in Goroutines, h # g
       PROVE  (calls'[h] # Idle => CallOK(h, calls[h])') /\ LogFits(h, calls[h])'
  <2>1. calls'[h] = calls[h]
    BY <1>8, <1>20
  <2>2. ASSUME NEW d, CallOK(h, d) PROVE CallOK(h, d)'
    <3>1. mu # h
      BY <1>1, CallsAreNotIdle
    <3>2. QED
      BY <2>2, <3>1, <1>1, <1>10 DEF CallOK, CallFits, Undisturbed, IsOnDisk, ReadsCurrent,
                                   FoundCurrent, Running, state
  <2>3. ASSUME NEW d, LogFits(h, d) PROVE LogFits(h, d)'
    <3>1. ASSUME NEW i \in DOMAIN operationLog', operationLog'[i].by = h
          PROVE  IssuedBefore(h, d, operationLog[i])'
      <4>1. i + k \in DOMAIN operationLog /\ operationLog'[i] = operationLog[i + k]
        BY <1>6, <1>7, <1>20, <3>1
      <4>2. IssuedBefore(h, d, operationLog[i + k])
        BY <2>3, <3>1, <4>1 DEF LogFits
      <4>3. QED
        BY <4>1, <4>2, <1>1 DEF IssuedBefore, Running, state
    <3>2. QED
      BY <3>1 DEF LogFits
  <2>4. QED
    BY <2>1, <2>2, <2>3 DEF Inv, Each
<1>21. Each'
  BY <1>8, <1>18, <1>19, <1>20 DEF Each
<1>22. QED
  BY <1>9, <1>11, <1>12, <1>13, <1>14, <1>15, <1>16, <1>17, <1>21 DEF Inv, Whole

-----------------------------------------------------------------------------
(***************************************************************************)
(* Replacing the clock.                                                    *)
(***************************************************************************)
SameButCrossed(c, d) ==
    /\ c = Idle <=> d = Idle
    /\ c # Idle => /\ d.step = c.step /\ d.op = c.op /\ d.found = c.found
                   /\ d.vector = c.vector /\ d.state = c.state
                   /\ d.stale = c.stale /\ d.overlapped = c.overlapped

LEMMA CrossedType ==
    ASSUME NEW c \in [Goroutines -> Call \cup {Idle}], NEW what \in {"increment", "merge"}
    PROVE  /\ Crossed(c, what) \in [Goroutines -> Call \cup {Idle}]
           /\ \A h \in Goroutines :
                 /\ SameButCrossed(c[h], Crossed(c, what)[h])
                 /\ c[h] # Idle /\ c[h].step \in {"assign", "merge"} =>
                       Crossed(c, what)[h].crossed = c[h].crossed \cup {what}
                 /\ ~ (c[h] # Idle /\ c[h].step \in {"assign", "merge"}) =>
                       Crossed(c, what)[h] = c[h]
<1>1. ASSUME NEW d \in Call
      PROVE  LET s == [d EXCEPT !.crossed = @ \cup {what}]
             IN  s \in Call /\ SameButCrossed(d, s) /\ s.crossed = d.crossed \cup {what}
  <2> DEFINE s == [d EXCEPT !.crossed = @ \cup {what}]
  <2>1. d.crossed \cup {what} \in SUBSET {"increment", "merge"}
    BY DEF Call
  <2>2. s \in Call /\ s.crossed = d.crossed \cup {what}
    BY <2>1 DEF Call
  <2>3. /\ s.step = d.step /\ s.op = d.op /\ s.found = d.found
        /\ s.vector = d.vector /\ s.state = d.state
        /\ s.stale = d.stale /\ s.overlapped = d.overlapped
    BY DEF Call
  <2> HIDE DEF s
  <2>4. SameButCrossed(d, s)
    BY <2>2, <2>3, CallsAreNotIdle DEF SameButCrossed
  <2>5. QED
    BY <2>2, <2>4 DEF s
<1>2. \A h \in Goroutines : Crossed(c, what)[h] =
         IF c[h] # Idle /\ c[h].step \in {"assign", "merge"}
         THEN [c[h] EXCEPT !.crossed = @ \cup {what}] ELSE c[h]
  BY DEF Crossed
<1>3. ASSUME NEW h \in Goroutines
      PROVE  /\ Crossed(c, what)[h] \in Call \cup {Idle}
             /\ SameButCrossed(c[h], Crossed(c, what)[h])
             /\ c[h] # Idle /\ c[h].step \in {"assign", "merge"} =>
                   Crossed(c, what)[h].crossed = c[h].crossed \cup {what}
             /\ ~ (c[h] # Idle /\ c[h].step \in {"assign", "merge"}) =>
                   Crossed(c, what)[h] = c[h]
  <2>1. CASE c[h] # Idle /\ c[h].step \in {"assign", "merge"}
    <3>1. c[h] \in Call /\ Crossed(c, what)[h] = [c[h] EXCEPT !.crossed = @ \cup {what}]
      BY <2>1, <1>2
    <3>2. QED
      BY <2>1, <3>1, <1>1
  <2>2. CASE ~ (c[h] # Idle /\ c[h].step \in {"assign", "merge"})
    BY <2>2, <1>2 DEF SameButCrossed
  <2>3. QED
    BY <2>1, <2>2
<1>4. Crossed(c, what) \in [Goroutines -> Call \cup {Idle}]
  BY <1>3 DEF Crossed
<1>5. QED
  BY <1>3, <1>4

LEMMA StampsAreNumbers ==
    ASSUME TypeOK, NEW i \in DOMAIN operationLog
    PROVE  operationLog[i].vector[Me] \in Nat /\ operationLog[i].state \in Nat
<1>1. operationLog[i] \in Logged
  BY DEF TypeOK
<1>2. operationLog[i].vector \in Clock /\ operationLog[i].state \in Nat
  BY <1>1 DEF Logged
<1>3. QED
  BY <1>2, ThreadsAssumption, PeersOfClocks DEF ThreadsAssumption

\* g replaces the clock, or the one of a sync state that is not there any more.
LEMMA ReplacingKeepsInv ==
    ASSUME Inv, NEW g \in Goroutines, At(g, "assign") \/ At(g, "merge"),
           calls' \in [Goroutines -> Call \cup {Idle}],
           calls'[g] # Idle => calls'[g].step = "check_clear" /\ CallOK(g, calls[g])',
           LogFits(g, calls[g])',
           \A h \in Goroutines : h # g =>
               /\ SameButCrossed(calls[h], calls'[h])
               /\ calls[h] # Idle => ReadsCurrent(calls[h])',
           localVector' \in Clock, history' \in History,
           history'.applied = history.applied, history'.left = history.left,
           history'.mine = history.mine, history.crossed \subseteq history'.crossed,
           mu' = IF calls[g].step = "assign" THEN Idle ELSE mu,
           history'.crossed = {} => localVector[Me] <= localVector'[Me],
           IncrementsAreKept', ClockFollowsDisk',
           UNCHANGED <<ended, document, networkID, syncState, inProgress, timers, operationLog,
                       network, states>>
    PROVE  Inv'
<1>1. /\ CallOK(g, calls[g]) /\ calls[g] \in Call /\ calls[g] # Idle
      /\ calls[g].step \in {"assign", "merge"} /\ Running
      /\ calls[g].step = "assign" => mu = g
  BY CallIsOK DEF CallOK, CallFits
<1>2. /\ InControl' <=> InControl
      /\ \A steps \in SUBSET ControlSteps : Doing(Controller, steps)' <=> Doing(Controller, steps)
  <2>1. Controller \in Goroutines
    BY DEF Goroutines
  <2>2. \A steps \in SUBSET ControlSteps : Doing(Controller, steps)' <=> Doing(Controller, steps)
    <3>1. CASE g = Controller
      BY <3>1, <2>1, <1>1 DEF Doing, ControlSteps
    <3>2. CASE g # Controller
      BY <3>2, <2>1 DEF Doing, SameButCrossed
    <3>3. QED
      BY <3>1, <3>2
  <2>3. QED
    BY <2>2 DEF InControl
<1>3. TypeOK'
  BY DEF Inv, TypeOK
<1>4. Attached'
  BY <1>2 DEF Inv, Whole, Attached, Running, ControlSteps
<1>5. Listed'
  <2>1. Doing(Controller, {"add"}) => calls'[Controller].stale = calls[Controller].stale
    BY <1>1 DEF Doing, Goroutines, SameButCrossed
  <2>2. QED
    BY <2>1, <1>2 DEF Inv, Whole, Listed, Running, ControlSteps
<1>6. LockIsHeld'
  <2>1. CASE calls[g].step = "assign"
    BY <2>1 DEF LockIsHeld
  <2>2. CASE calls[g].step # "assign"
    <3>1. mu # Idle => mu \in Goroutines /\ mu # g
      BY <2>2, <1>1 DEF Inv, TypeOK, Whole, LockIsHeld, Doing, Goroutines
    <3>2. QED
      BY <2>2, <3>1 DEF Inv, Whole, LockIsHeld, Doing, Running, SameButCrossed
  <2>3. QED
    BY <2>1, <2>2
\* As long as nothing has crossed, the own entry only grows.
<1>7. /\ history'.crossed = {} => history.crossed = {}
      /\ localVector[Me] \in Nat /\ localVector'[Me] \in Nat
  BY ThreadsAssumption, PeersOfClocks DEF ThreadsAssumption, Inv, TypeOK
<1>8. LogIsOld'
  <2>1. \A i \in DOMAIN operationLog : operationLog[i].vector[Me] \in Nat
    BY StampsAreNumbers DEF Inv
  <2>2. QED
    BY <2>1, <1>7 DEF Inv, Whole, LogIsOld
<1>9. WriterStampsIncrease' /\ OwnWriteStays'
  BY <1>7 DEF Inv, Whole, WriterStampsIncrease, OwnWriteStays
<1>10. MarkHasTimer'
  <2>1. ASSUME NEW h \in Goroutines, At(h, "start_timer")
        PROVE  At(h, "start_timer")' /\ calls'[h].state = calls[h].state
    BY <2>1, <1>1 DEF At, Running, SameButCrossed
  <2>2. QED
    BY <2>1 DEF Inv, Whole, MarkHasTimer, Running
<1>11. ASSUME NEW h \in Goroutines, h # g
       PROVE  (calls'[h] # Idle => CallOK(h, calls[h])') /\ LogFits(h, calls[h])'
  <2>1. ASSUME NEW d, NEW e, SameButCrossed(d, e), e # Idle, CallOK(h, d), ReadsCurrent(e)'
        PROVE  CallOK(h, e)'
    <3>1. d.step \in {"count", "assign"} => mu = h /\ mu' = h
      BY <2>1, <1>1, <1>11 DEF CallOK, CallFits
    <3>2. CallFits(h, e)'
      BY <2>1, <3>1 DEF CallOK, CallFits, SameButCrossed
    <3>3. Undisturbed(h, e)'
      BY <2>1, <1>2 DEF CallOK, Undisturbed, SameButCrossed, Running
    <3>4. IsOnDisk(e)'
      BY <2>1 DEF CallOK, IsOnDisk, SameButCrossed
    <3>5. QED
      BY <2>1, <3>2, <3>3, <3>4 DEF CallOK, FoundCurrent, SameButCrossed
  <2>2. ASSUME NEW d, NEW e, SameButCrossed(d, e), LogFits(h, d)
        PROVE  LogFits(h, e)'
    <3>1. ASSUME NEW i \in DOMAIN operationLog, operationLog[i].by = h
          PROVE  IssuedBefore(h, e, operationLog[i])'
      <4>1. IssuedBefore(h, d, operationLog[i]) /\ operationLog' = operationLog
        BY <2>2, <3>1 DEF LogFits
      <4>2. operationLog[i].vector[Me] \in Nat
        BY StampsAreNumbers DEF Inv
      <4>3. QED
        BY <2>2, <4>1, <4>2, <1>7 DEF IssuedBefore, SameButCrossed, Running
    <3>2. QED
      BY <3>1 DEF LogFits
  <2>3. SameButCrossed(calls[h], calls'[h]) /\ LogFits(h, calls[h])
    BY <1>11 DEF Inv, Each
  <2>4. LogFits(h, calls[h])'
    BY <2>2, <2>3
  <2>5. ASSUME calls'[h] # Idle PROVE CallOK(h, calls[h])'
    <3>1. calls[h] # Idle /\ CallOK(h, calls[h]) /\ ReadsCurrent(calls[h])'
      BY <2>3, <2>5, <1>11 DEF Inv, Each, SameButCrossed
    <3>2. QED
      BY <3>1, <2>1, <2>3, <2>5
  <2>6. QED
    BY <2>4, <2>5
<1>12. Each'
  BY <1>11 DEF Each
<1>13. QED
  BY <1>3, <1>4, <1>5, <1>6, <1>8, <1>9, <1>10, <1>12 DEF Inv, Whole

\* dc.mu admits one incrementing goroutine at a time.
LEMMA AssignIncrementKeepsInv == ASSUME Inv, NEW g \in Goroutines, AssignIncrement(g) PROVE Inv'
<1> DEFINE c == calls[g]
           idle == [calls EXCEPT ![g] = Idle]
<1>1. /\ At(g, "assign") /\ mu' = Idle
      /\ UNCHANGED <<ended, document, networkID, syncState, inProgress, timers, operationLog,
                     network, states>>
  BY DEF AssignIncrement
<1>2. /\ CallOK(g, c) /\ c \in Call /\ c # Idle
      /\ c.step = "assign" /\ Running /\ LogFits(g, c)
  BY <1>1, CallIsOK
<1>3. c.vector \in Clock /\ c.state # 0 /\ c.state <= states /\ IsOnDisk(c) /\ ReadsCurrent(c)
      /\ c.state \in Nat /\ mu = g
  BY <1>2 DEF Call, CallOK, CallFits
<1>4. /\ idle \in [Goroutines -> Call \cup {Idle}] /\ idle[g] = Idle
      /\ \A h \in Goroutines : h # g => idle[h] = calls[h]
  BY DEF Inv, TypeOK
<1>5. ASSUME NEW h \in Goroutines, h # g, calls[h] # Idle
      PROVE  calls[h].step # "assign" /\ calls[h].step # "count"
  BY <1>3, <1>5 DEF Inv, Each, CallOK, CallFits
<1>6. /\ Me \in Peers /\ localVector \in Clock /\ localVector[Me] \in Nat
      /\ history \in History /\ history.done \in Nat /\ states \in Nat
      /\ syncState \in {0, states}
  BY ThreadsAssumption, PeersOfClocks DEF ThreadsAssumption, Inv, TypeOK, History, Whole, Attached
<1> HIDE DEF c, idle
<1>7. CASE c.state = syncState
  <2> DEFINE what == "increment"
             crossed == {d \in {"increment"} : "merge" \in c.crossed}
  <2>1. /\ localVector' = Increment(c.vector, Me)
        /\ calls' = Crossed(idle, "increment")
        /\ history' = [history EXCEPT !.done = @ + 1, !.crossed = @ \cup crossed]
    BY <1>7 DEF c, idle, AssignIncrement
  <2>2. /\ localVector' \in Clock /\ localVector'[Me] = c.vector[Me] + 1
        /\ \A q \in Peers \ {Me} : localVector'[q] = c.vector[q]
    BY <2>1, <1>3, <1>6, IncrementType DEF Increment, Clock
  <2>3. /\ history' \in History /\ history'.done = history.done + 1
        /\ history'.crossed = history.crossed \cup crossed
        /\ history'.applied = history.applied /\ history'.left = history.left
        /\ history'.mine = history.mine
    <3>1. history.done + 1 \in Nat /\ history.crossed \cup crossed \in SUBSET {"increment", "merge"}
      BY <1>6 DEF History
    <3> DEFINE w == history.done + 1
               x == history.crossed \cup crossed
    <3>2. history' = [history EXCEPT !.done = w, !.crossed = x]
      BY <2>1
    <3> HIDE DEF w, x, crossed
    <3>3. QED
      BY <3>1, <3>2, <1>6 DEF w, x, History
  <2>4. /\ calls' \in [Goroutines -> Call \cup {Idle}] /\ calls'[g] = Idle
        /\ \A h \in Goroutines : h # g =>
              /\ SameButCrossed(calls[h], calls'[h])
              /\ calls[h] # Idle /\ calls[h].step = "merge" => "increment" \in calls'[h].crossed
    <3>1. Crossed(idle, "increment")[g] = Idle /\ Crossed(idle, "increment") \in [Goroutines -> Call \cup {Idle}]
      BY <1>4, CrossedType DEF SameButCrossed
    <3>2. ASSUME NEW h \in Goroutines, h # g
          PROVE  /\ SameButCrossed(calls[h], calls'[h])
                 /\ calls[h] # Idle /\ calls[h].step = "merge" => "increment" \in calls'[h].crossed
      <4>1. /\ SameButCrossed(idle[h], Crossed(idle, "increment")[h])
            /\ idle[h] # Idle /\ idle[h].step \in {"assign", "merge"} =>
                  Crossed(idle, "increment")[h].crossed = idle[h].crossed \cup {"increment"}
        BY <1>4, CrossedType
      <4>2. idle[h] = calls[h]
        BY <1>4, <3>2
      <4>3. QED
        BY <4>1, <4>2, <2>1
    <3>3. QED
      BY <2>1, <3>1, <3>2
  \* What is not crossed has read the clock that it replaces.
  <2>5. "merge" \notin c.crossed => c.vector = localVector
    BY <1>2, <1>3, <1>7 DEF ReadsCurrent
  <2>6. history'.crossed = {} => history.crossed = {} /\ localVector'[Me] = localVector[Me] + 1
    BY <2>2, <2>3, <2>5
  <2>7. IncrementsAreKept'
    BY <2>2, <2>3, <2>5, <1>1, <1>6 DEF Inv, Whole, IncrementsAreKept
  <2>8. ClockFollowsDisk'
    BY <2>2, <2>3, <1>3 DEF ClockFollowsDisk, IsOnDisk
  <2>9. LogFits(g, calls[g])'
    <3>1. ASSUME NEW i \in DOMAIN operationLog
          PROVE  IssuedBefore(g, Idle, operationLog[i])'
      <4>1. operationLog[i].vector[Me] \in Nat
        BY StampsAreNumbers DEF Inv
      <4>2. history.crossed = {} /\ operationLog[i].state = syncState /\ syncState # 0 =>
               operationLog[i].vector[Me] <= localVector[Me]
        BY DEF Inv, Whole, LogIsOld
      <4>3. history'.crossed = {} /\ operationLog[i].state = syncState /\ syncState # 0 =>
               operationLog[i].vector[Me] < localVector'[Me]
        BY <4>1, <4>2, <2>6, <1>6
      <4>4. QED
        BY <4>3, <1>1 DEF IssuedBefore
    <3>2. QED
      BY <3>1, <2>4, <1>1 DEF LogFits
  <2>10. ASSUME NEW h \in Goroutines, h # g, calls[h] # Idle
         PROVE  ReadsCurrent(calls[h])'
    <3>1. /\ SameButCrossed(calls[h], calls'[h]) /\ calls[h].step # "assign"
          /\ calls[h].step = "merge" => "increment" \in calls'[h].crossed
          /\ ReadsCurrent(calls[h]) /\ calls[h].vector \in Clock
      BY <2>4, <2>10, <1>5 DEF Inv, TypeOK, Each, CallOK, Call
    <3>2. calls[h].vector[Me] \in Nat
      BY <3>1, <1>6, PeersOfClocks
    <3>3. calls[h].step = "lock" /\ calls[h].state = syncState /\ syncState # 0 /\ history'.crossed = {} =>
             calls[h].vector[Me] <= localVector'[Me]
      BY <3>1, <3>2, <2>6, <1>6 DEF ReadsCurrent
    <3>4. QED
      BY <3>1, <3>3, <2>10, <1>1 DEF ReadsCurrent, SameButCrossed
  <2>11. history'.crossed = {} => localVector[Me] <= localVector'[Me]
    BY <2>6, <1>6
  <2>12. history.crossed \subseteq history'.crossed /\ mu' = IF calls[g].step = "assign" THEN Idle ELSE mu
    BY <2>3, <1>1, <1>2 DEF c
  <2> HIDE DEF crossed
  <2>13. QED
    BY <2>2, <2>3, <2>4, <2>7, <2>8, <2>9, <2>10, <2>11, <2>12, <1>1, ReplacingKeepsInv
\* The sync state that was read is gone, and the log has nothing under the one
\* there is.
<1>8. CASE c.state # syncState
  <2>1. calls' = idle /\ localVector' = localVector /\ history' = history
    BY <1>8 DEF c, idle, AssignIncrement, Finish
  <2>2. LogFits(g, calls[g])'
    <3>1. ASSUME NEW i \in DOMAIN operationLog, operationLog[i].by = g
          PROVE  IssuedBefore(g, Idle, operationLog[i])'
      <4>1. operationLog[i].state <= c.state /\ operationLog[i].state \in Nat
        BY <1>2, <3>1, StampsAreNumbers DEF LogFits, IssuedBefore, Inv
      <4>2. ~ (operationLog[i].state = syncState /\ syncState # 0)
        BY <4>1, <1>3, <1>6, <1>8
      <4>3. QED
        BY <4>2, <1>1 DEF IssuedBefore
    <3>2. QED
      BY <3>1, <2>1, <1>1, <1>4 DEF LogFits
  <2>3. ASSUME NEW h \in Goroutines, h # g
        PROVE  /\ SameButCrossed(calls[h], calls'[h])
               /\ calls[h] # Idle => ReadsCurrent(calls[h])'
    <3>1. calls'[h] = calls[h]
      BY <2>1, <2>3, <1>4
    <3>2. ASSUME NEW d, ReadsCurrent(d) PROVE ReadsCurrent(d)'
      BY <3>2, <2>1, <1>1 DEF ReadsCurrent
    <3>3. calls[h] # Idle => ReadsCurrent(calls[h])
      BY DEF Inv, Each, CallOK
    <3>4. QED
      BY <3>1, <3>2, <3>3 DEF SameButCrossed
  <2>4. IncrementsAreKept' /\ ClockFollowsDisk'
    BY <2>1, <1>1 DEF Inv, Whole, IncrementsAreKept, ClockFollowsDisk
  <2>5. mu' = IF calls[g].step = "assign" THEN Idle ELSE mu
    BY <1>1, <1>2 DEF c
  <2>6. QED
    BY <2>1, <2>2, <2>3, <2>4, <2>5, <1>1, <1>4, <1>6, ReplacingKeepsInv
<1>9. QED
  BY <1>7, <1>8

\* A merge takes no lock: what it crosses is remembered.
LEMMA AssignMergeKeepsInv ==
    ASSUME Inv, NEW g \in Goroutines, NEW last \in BOOLEAN, AssignMerge(g, last)
    PROVE  Inv'
<1> DEFINE c    == calls[g]
           new  == AfterOperation(c, last)
           done == [calls EXCEPT ![g] = new]
<1>1. /\ At(g, "merge")
      /\ UNCHANGED <<ended, document, networkID, syncState, inProgress, timers, operationLog,
                     mu, network, states>>
  BY DEF AssignMerge
<1>2. /\ CallOK(g, c) /\ c \in Call /\ c # Idle
      /\ c.step = "merge" /\ Running /\ LogFits(g, c)
  BY <1>1, CallIsOK
<1>3. /\ c.vector \in Clock /\ c.op.vector \in Clock /\ c.op \in Incoming
      /\ IsOnDisk(c) /\ ReadsCurrent(c)
  BY <1>2, ThreadsAssumption DEF Call, CallOK, CallFits, ThreadsAssumption
<1>4. new \in Call \cup {Idle} /\ (new # Idle => new.step = "check_clear" /\ CallOK(g, new))
  <2>1. new \in Call \cup {Idle} /\ (~ last => new = Idle)
    BY <1>2, AfterType
  <2>2. CASE ~ last
    BY <2>1, <2>2
  <2>3. CASE last /\ new # Idle
    BY <2>1, <2>3, <1>2, AfterFits
  <2>4. QED
    BY <2>1, <2>2, <2>3
<1>5. /\ done \in [Goroutines -> Call \cup {Idle}] /\ done[g] = new
      /\ \A h \in Goroutines : h # g => done[h] = calls[h]
  BY <1>4 DEF Inv, TypeOK
<1>6. /\ Me \in Peers /\ localVector \in Clock /\ localVector[Me] \in Nat
      /\ history \in History /\ history.done \in Nat /\ c.vector[Me] \in Nat
  BY <1>3, ThreadsAssumption, PeersOfClocks DEF ThreadsAssumption, Inv, TypeOK, History
<1>7. CASE c.state # syncState
  <2>1. calls' = [calls EXCEPT ![g] = new] /\ localVector' = localVector /\ history' = history
    BY <1>7 DEF AssignMerge
  <2> HIDE DEF new
  <2>2. QED
    BY <2>1, <1>1, <1>2, <1>4, LookingKeepsInv DEF c, ControlSteps, state
<1>8. CASE c.state = syncState
  <2>1. /\ localVector' = Merge(c.vector, c.op.vector)
        /\ calls' = Crossed(done, "merge")
        /\ history' = [history EXCEPT !.crossed = @ \cup c.crossed]
    BY <1>8 DEF AssignMerge
  <2>2. PICK after \in Call \cup {Idle} : after = new
    BY <1>4
  <2> HIDE DEF c, done, new
  <2>3. /\ localVector' \in Clock /\ c.vector[Me] <= localVector'[Me]
        /\ \A q \in Peers : localVector'[q] = c.vector[q] \/ localVector'[q] = c.op.vector[q]
    BY <2>1, <1>3, <1>6, MergeType, MergeIsUpperBound DEF Merge, \preceq
  <2>4. /\ history' \in History /\ history'.done = history.done
        /\ history'.crossed = history.crossed \cup c.crossed
        /\ history'.applied = history.applied /\ history'.left = history.left
        /\ history'.mine = history.mine
    <3>1. history.crossed \cup c.crossed \in SUBSET {"increment", "merge"}
      BY <1>2, <1>6 DEF History, Call
    <3>2. QED
      BY <2>1, <3>1, <1>6 DEF History
  <2>5. /\ calls' \in [Goroutines -> Call \cup {Idle}] /\ calls'[g] = after
        /\ \A h \in Goroutines : h # g =>
              /\ SameButCrossed(calls[h], calls'[h])
              /\ calls[h] # Idle /\ calls[h].step \in {"assign", "merge"} =>
                    calls'[h].crossed = calls[h].crossed \cup {"merge"}
    <3>1. calls' \in [Goroutines -> Call \cup {Idle}]
      BY <2>1, <1>5, CrossedType
    <3>2. Crossed(done, "merge")[g] = done[g]
      BY <1>4, <1>5, CrossedType
    <3>3. ASSUME NEW h \in Goroutines, h # g
          PROVE  /\ SameButCrossed(calls[h], calls'[h])
                 /\ calls[h] # Idle /\ calls[h].step \in {"assign", "merge"} =>
                       calls'[h].crossed = calls[h].crossed \cup {"merge"}
      <4>1. /\ SameButCrossed(done[h], Crossed(done, "merge")[h])
            /\ done[h] # Idle /\ done[h].step \in {"assign", "merge"} =>
                  Crossed(done, "merge")[h].crossed = done[h].crossed \cup {"merge"}
        BY <1>5, CrossedType
      <4>2. done[h] = calls[h]
        BY <1>5, <3>3
      <4>3. QED
        BY <4>1, <4>2, <2>1
    <3>4. QED
      BY <2>1, <2>2, <3>1, <3>2, <3>3, <1>5
  \* A merge that nothing has crossed replaces the clock that it has read.
  <2>6. /\ c.crossed = {} => c.vector = localVector
        /\ "increment" \notin c.crossed \cup history.crossed => history.done <= c.vector[Me]
    BY <1>2, <1>3, <1>8 DEF ReadsCurrent
  <2>7. /\ history'.crossed = {} => history.crossed = {} /\ localVector[Me] <= localVector'[Me]
        /\ localVector'[Me] \in Nat
    BY <2>3, <2>4, <2>6, <1>6, PeersOfClocks
  <2>8. IncrementsAreKept'
    BY <2>3, <2>4, <2>6, <2>7, <1>1, <1>6 DEF IncrementsAreKept
  <2>9. ClockFollowsDisk'
    BY <2>3, <2>4, <1>2, <1>3 DEF ClockFollowsDisk, IsOnDisk
  <2>10. LogFits(g, calls[g])'
    <3>1. ASSUME NEW i \in DOMAIN operationLog, operationLog[i].by = g
          PROVE  IssuedBefore(g, after, operationLog[i])'
      <4>1. operationLog[i].vector[Me] \in Nat
        BY StampsAreNumbers DEF Inv
      <4>2. history.crossed = {} /\ operationLog[i].state = syncState /\ syncState # 0 =>
               operationLog[i].vector[Me] < localVector[Me]
        BY <1>2, <3>1 DEF LogFits, IssuedBefore
      <4>3. history'.crossed = {} /\ operationLog[i].state = syncState /\ syncState # 0 =>
               operationLog[i].vector[Me] < localVector'[Me]
        BY <4>1, <4>2, <2>7, <1>6
      <4>4. QED
        BY <4>3, <2>2, <1>1, <1>4 DEF IssuedBefore
    <3>2. QED
      BY <3>1, <2>5, <1>1 DEF LogFits
  <2>11. ASSUME NEW h \in Goroutines, h # g, calls[h] # Idle
         PROVE  ReadsCurrent(calls[h])'
    <3>1. /\ SameButCrossed(calls[h], calls'[h])
          /\ calls[h].step \in {"assign", "merge"} =>
                calls'[h].crossed = calls[h].crossed \cup {"merge"}
          /\ ReadsCurrent(calls[h]) /\ calls[h].vector \in Clock
      BY <2>5, <2>11 DEF Inv, TypeOK, Each, CallOK, Call
    <3>2. calls[h].vector[Me] \in Nat
      BY <3>1, <1>6, PeersOfClocks
    <3>3. calls[h].step = "lock" /\ calls[h].state = syncState /\ syncState # 0 /\ history'.crossed = {} =>
             calls[h].vector[Me] <= localVector'[Me]
      BY <3>1, <3>2, <2>7, <1>6 DEF ReadsCurrent
    <3>4. calls[h].step = "merge" /\ calls[h].state = syncState
             /\ "increment" \notin calls'[h].crossed \cup history'.crossed =>
                 history'.done <= calls[h].vector[Me]
      BY <3>1, <2>4 DEF ReadsCurrent
    <3>5. QED
      BY <3>1, <3>3, <3>4, <2>11, <1>1 DEF ReadsCurrent, SameButCrossed
  <2>12. calls'[g] # Idle => calls'[g].step = "check_clear" /\ CallOK(g, calls[g])'
    <3>1. ASSUME after # Idle PROVE after.step = "check_clear" /\ CallOK(g, after)
      BY <3>1, <2>2, <1>4
    <3>2. InControl' <=> InControl
      BY <2>5, <1>2, <1>4, <2>2 DEF c, InControl, Doing, SameButCrossed, ControlSteps, Goroutines
    <3>3. ASSUME after # Idle PROVE CallOK(g, after)'
      BY <3>1, <3>2, <3>3, <2>4, <1>1 DEF CallOK, CallFits, Undisturbed, IsOnDisk, ReadsCurrent,
                                           FoundCurrent, Running
    <3>4. QED
      BY <3>1, <3>3, <2>5
  <2>13. history.crossed \subseteq history'.crossed /\ mu' = IF calls[g].step = "assign" THEN Idle ELSE mu
    BY <2>4, <1>1, <1>2 DEF c
  <2>14. QED
    BY <2>3, <2>4, <2>5, <2>7, <2>8, <2>9, <2>10, <2>11, <2>12, <2>13, <1>1, ReplacingKeepsInv
<1>9. QED
  BY <1>7, <1>8

-----------------------------------------------------------------------------
(***************************************************************************)
(* The end of the process.                                                 *)
(***************************************************************************)
LEMMA EndingKeepsInv ==
    ASSUME Inv, NEW g \in Goroutines \cup {Idle}, NEW why \in {"nil", "sync_request", "map"},
           EndProcess(g, why),
           g # Idle => calls[g] # Idle /\ calls[g].overlapped
    PROVE  Inv'
<1> DEFINE panicked == [calls[g] EXCEPT !.step = "panicked"]
<1>1. /\ ended' = why
      /\ calls' = [h \in Goroutines |-> IF h = g THEN panicked ELSE Idle]
      /\ UNCHANGED <<document, networkID, state, operationLog, mu, network, states, history>>
  BY DEF EndProcess
<1>2. g # Idle => /\ calls[g] \in Call /\ CallOK(g, calls[g])
                  /\ panicked \in Call /\ panicked # Idle /\ panicked.step = "panicked"
                  /\ panicked.op = calls[g].op /\ panicked.vector = calls[g].vector
                  /\ panicked.state = calls[g].state /\ panicked.overlapped
  <2> SUFFICES ASSUME g # Idle
               PROVE  /\ calls[g] \in Call /\ CallOK(g, calls[g])
                      /\ panicked \in Call /\ panicked # Idle /\ panicked.step = "panicked"
                      /\ panicked.op = calls[g].op /\ panicked.vector = calls[g].vector
                      /\ panicked.state = calls[g].state /\ panicked.overlapped
    OBVIOUS
  <2>1. g \in Goroutines /\ calls[g] \in Call /\ CallOK(g, calls[g])
    BY UnderWay DEF Inv, Each
  <2>2. "panicked" \in Steps
    BY DEF Steps
  <2>3. QED
    BY <2>1, <2>2, ContinueType
<1> HIDE DEF panicked
<1>3. \A h \in Goroutines : calls'[h] = IF h = g THEN panicked ELSE Idle
  BY <1>1
<1>4. calls' \in [Goroutines -> Call \cup {Idle}]
  BY <1>1, <1>2, CallsAreNotIdle
<1>5. ~ Running' /\ ended' \in {"no", "nil", "sync_request", "map"}
  BY <1>1 DEF Running
<1>6. TypeOK'
  BY <1>1, <1>4, <1>5 DEF Inv, TypeOK, state
<1>7. ASSUME NEW h \in Goroutines, calls'[h] # Idle
      PROVE  h = g /\ g # Idle /\ calls'[h] = panicked
  BY <1>3, <1>7, CallsAreNotIdle
<1>8. \A steps \in SUBSET ControlSteps : ~ Doing(Controller, steps)'
  BY <1>2, <1>7 DEF Doing, ControlSteps, Goroutines
<1>9. Attached' /\ Listed' /\ LockIsHeld' /\ MarkHasTimer'
  BY <1>1, <1>5, <1>8 DEF Inv, Whole, Attached, Listed, LockIsHeld, MarkHasTimer, Running,
                          ControlSteps, state
<1>10. LogIsOld' /\ IncrementsAreKept' /\ WriterStampsIncrease' /\ ClockFollowsDisk' /\ OwnWriteStays'
  BY <1>1 DEF Inv, Whole, LogIsOld, IncrementsAreKept, WriterStampsIncrease, ClockFollowsDisk,
              OwnWriteStays, state
<1>11. ASSUME NEW h \in Goroutines, calls'[h] # Idle PROVE CallOK(h, calls[h])'
  <2>1. h = g /\ g # Idle /\ calls'[h] = panicked
    BY <1>7, <1>11
  <2>2. PICK c \in Call : c = panicked
    BY <2>1, <1>2
  <2>3. /\ c.step = "panicked" /\ c.overlapped
        /\ c.vector = calls[g].vector /\ c.state = calls[g].state
        /\ CallOK(g, calls[g])
    BY <2>1, <2>2, <1>2
  <2>4. CallFits(h, c)'
    BY <2>3, <1>1 DEF CallOK, CallFits, ControlSteps
  <2>5. IsOnDisk(c)'
    BY <2>3, <1>1 DEF CallOK, IsOnDisk
  <2>6. CallOK(h, c)'
    BY <2>3, <2>4, <2>5, <1>5 DEF CallOK, Undisturbed, ReadsCurrent, FoundCurrent
  <2>7. QED
    BY <2>1, <2>2, <2>6
<1>12. ASSUME NEW h \in Goroutines PROVE LogFits(h, calls[h])'
  <2>1. calls'[h] # Idle => calls'[h].step = "panicked"
    BY <1>2, <1>7
  <2>2. QED
    BY <2>1, <1>5 DEF LogFits, IssuedBefore
<1>13. QED
  BY <1>6, <1>9, <1>10, <1>11, <1>12 DEF Inv, Whole, Each

LEMMA NobodysEndKeepsInv == ASSUME Inv, SyncRequestUnattached \/ ConcurrentMapAccess PROVE Inv'
<1>1. EndProcess(Idle, "sync_request") \/ EndProcess(Idle, "map")
  BY DEF SyncRequestUnattached, ConcurrentMapAccess
<1>2. QED
  BY <1>1, EndingKeepsInv

\* The goroutine that finds no sync state was overlapped by the controller.
LEMMA UsesNilStateKeepsInv == ASSUME Inv, NEW g \in Goroutines, UsesNilState(g) PROVE Inv'
<1>1. PICK step \in {"count", "read", "clear", "check_progress"} : At(g, step)
  BY DEF UsesNilState
<1>2. ~ HasState /\ EndProcess(g, "nil")
  BY DEF UsesNilState, NilState
<1>3. calls[g] # Idle /\ calls[g].step = step /\ Running
  BY <1>1 DEF At
<1>4. calls[g].overlapped
  BY <1>2, <1>3, HasStateWhileUndisturbed
<1>5. QED
  BY <1>2, <1>3, <1>4, EndingKeepsInv

-----------------------------------------------------------------------------
(***************************************************************************)
(* The controller, which overlaps every other call under way.              *)
(***************************************************************************)
SameButOverlapped(c, d) ==
    /\ c = Idle <=> d = Idle
    /\ c # Idle => /\ d.step = c.step /\ d.op = c.op /\ d.found = c.found
                   /\ d.vector = c.vector /\ d.state = c.state
                   /\ d.stale = c.stale /\ d.crossed = c.crossed /\ d.overlapped

\* The sync state is as it was, or there is none, or a new one.
StateIsFresh ==
    \/ /\ UNCHANGED <<state, states>>
       /\ history'.done = history.done /\ history'.crossed = history.crossed
    \/ /\ localVector' = NewVectorClock /\ inProgress' = FALSE /\ timers' = 0
       /\ \/ /\ syncState' = 0 /\ states' = states
             /\ history'.done = history.done /\ history'.crossed = history.crossed
          \/ /\ syncState' = states + 1 /\ states' = states + 1
             /\ history'.done = 0 /\ history'.crossed = {}

LEMMA ControlKeepsInv ==
    ASSUME Inv, Running,
           calls' \in [Goroutines -> Call \cup {Idle}],
           \A h \in Goroutines : h # Controller => SameButOverlapped(calls[h], calls'[h]),
           calls[Controller] # Idle => calls[Controller].step \in ControlSteps,
           calls'[Controller] # Idle =>
               /\ calls'[Controller].step \in ControlSteps \cup {"check_sync"}
               /\ calls'[Controller].state <= states
               /\ \A q \in Peers \ {Me} : calls'[Controller].vector[q] <= history.applied[q],
           StateIsFresh, history' \in History,
           history'.applied = history.applied, history'.mine = history.mine,
           networkID' \in BOOLEAN, network' \in Network, states' \in 0 .. MaxStates,
           UNCHANGED <<ended, document, operationLog, mu>>,
           Attached', Listed'
    PROVE  Inv'
<1>1. /\ localVector' \in Clock /\ syncState' \in 0 .. MaxStates
      /\ inProgress' \in BOOLEAN /\ timers' \in 0 .. MaxTimers
      /\ states \in Nat /\ states' \in Nat /\ states <= states'
  <2>1. MaxStates \in Nat /\ MaxTimers \in Nat
    BY ThreadsAssumption DEF ThreadsAssumption
  <2>2. /\ localVector \in Clock /\ syncState \in 0 .. MaxStates /\ inProgress \in BOOLEAN
        /\ timers \in 0 .. MaxTimers /\ states \in 0 .. MaxStates
    BY DEF Inv, TypeOK
  <2>3. localVector' \in Clock /\ inProgress' \in BOOLEAN
    BY <2>2, NewVectorClockType DEF StateIsFresh, state
  <2>4. syncState' \in 0 .. MaxStates
    BY <2>1, <2>2 DEF StateIsFresh, state
  <2>5. timers' \in 0 .. MaxTimers
    BY <2>1, <2>2 DEF StateIsFresh, state
  <2>6. states \in Nat /\ states' \in Nat /\ states <= states'
    BY <2>1, <2>2 DEF StateIsFresh
  <2>7. QED
    BY <2>3, <2>4, <2>5, <2>6
<1>2. TypeOK'
  BY <1>1 DEF Inv, TypeOK
<1>3. /\ Me \in Peers /\ Controller \in Goroutines
      /\ \A q \in Peers : NewVectorClock[q] = 0 /\ history.applied[q] \in Nat
                          /\ history.applied[q] >= 0
  BY ThreadsAssumption, PeersOfClocks
     DEF ThreadsAssumption, NewVectorClock, Inv, TypeOK, History, Goroutines
<1>4. mu # Idle => mu \in Goroutines /\ mu # Controller
  BY <1>3 DEF Inv, TypeOK, Whole, LockIsHeld, Doing, Goroutines, ControlSteps
<1>5. LockIsHeld'
  BY <1>4 DEF Inv, Whole, LockIsHeld, Doing, Running, SameButOverlapped
\* Nothing in the log has the number of a new sync state.
<1>6. ASSUME NEW i \in DOMAIN operationLog
      PROVE  /\ operationLog[i].state <= states /\ operationLog[i].state \in Nat
             /\ operationLog[i].state = syncState' /\ syncState' # 0 =>
                   UNCHANGED <<state, states>> /\ history'.crossed = history.crossed
  <2>1. operationLog[i].state <= states /\ operationLog[i].state \in Nat
    BY StampsAreNumbers DEF Inv, Whole, LogIsOld
  <2>2. QED
    BY <2>1, <1>1 DEF StateIsFresh
<1>7. LogIsOld'
  <2>1. ASSUME NEW i \in DOMAIN operationLog
        PROVE  /\ operationLog[i].state <= states'
               /\ history'.crossed = {} /\ operationLog[i].state = syncState' /\ syncState' # 0 =>
                     operationLog[i].vector[Me] <= localVector'[Me]
    <3>1. operationLog[i].state <= states'
      BY <1>1, <1>6
    <3>2. QED
      BY <3>1, <1>6 DEF Inv, Whole, LogIsOld, state
  <2>2. QED
    BY <2>1 DEF LogIsOld
<1>8. WriterStampsIncrease'
  <2>1. ASSUME NEW i \in DOMAIN operationLog, NEW j \in DOMAIN operationLog, i < j,
               history'.crossed = {}, operationLog[i].by = operationLog[j].by,
               operationLog[i].state = operationLog[j].state,
               operationLog[i].state = syncState', syncState' # 0
        PROVE  operationLog[i].vector[Me] < operationLog[j].vector[Me]
    <3>1. history.crossed = {} /\ syncState' = syncState
      BY <2>1, <1>6 DEF state
    <3>2. QED
      BY <2>1, <3>1 DEF Inv, Whole, WriterStampsIncrease
  <2>2. QED
    BY <2>1 DEF WriterStampsIncrease
<1>9. IncrementsAreKept' /\ ClockFollowsDisk'
  BY <1>3 DEF StateIsFresh, Inv, Whole, IncrementsAreKept, ClockFollowsDisk, state
<1>10. OwnWriteStays'
  BY DEF Inv, Whole, OwnWriteStays
<1>11. MarkHasTimer'
  <2>1. CASE UNCHANGED state
    <3>1. ASSUME NEW h \in Goroutines, At(h, "start_timer")
          PROVE  At(h, "start_timer")' /\ calls'[h].state = calls[h].state
      <4>1. h # Controller /\ calls[h] # Idle /\ calls[h].step = "start_timer"
        BY <3>1 DEF At, ControlSteps
      <4>2. QED
        BY <4>1 DEF At, Running, SameButOverlapped
    <3>2. QED
      BY <2>1, <3>1 DEF Inv, Whole, MarkHasTimer, Running, state
  <2>2. CASE inProgress' = FALSE
    BY <2>2 DEF MarkHasTimer
  <2>3. QED
    BY <2>1, <2>2 DEF StateIsFresh
<1>12. ASSUME NEW h \in Goroutines, h # Controller
       PROVE  (calls'[h] # Idle => CallOK(h, calls[h])') /\ LogFits(h, calls[h])'
  <2>1. ASSUME NEW d \in Call, NEW e, SameButOverlapped(d, e), e # Idle, CallOK(h, d)
        PROVE  CallOK(h, e)'
    <3>1. /\ e.step = d.step /\ e.op = d.op /\ e.found = d.found
          /\ e.vector = d.vector /\ e.state = d.state
          /\ e.stale = d.stale /\ e.crossed = d.crossed /\ e.overlapped
          /\ d.state \in Nat /\ d.state <= states
      BY <2>1, CallsAreNotIdle DEF SameButOverlapped, Call, CallOK, CallFits
    <3>2. CallFits(h, e)' /\ Undisturbed(h, e)' /\ IsOnDisk(e)' /\ FoundCurrent(e)'
      <4>1. e.state <= states'
        BY <3>1, <1>1
      <4>2. QED
        BY <2>1, <3>1, <4>1, <1>12 DEF CallOK, CallFits, Undisturbed, IsOnDisk, FoundCurrent
    <3>3. ReadsCurrent(e)'
      <4>1. CASE syncState' = 0
        BY <4>1, <2>1, <3>1 DEF CallOK, CallFits, ReadsCurrent
      <4>2. CASE syncState' = states + 1
        <5>1. e.state # syncState'
          BY <4>2, <3>1, <1>1
        <5>2. QED
          BY <5>1 DEF ReadsCurrent
      <4>3. CASE UNCHANGED <<state, states>> /\ history'.done = history.done
                 /\ history'.crossed = history.crossed
        BY <4>3, <2>1, <3>1 DEF CallOK, ReadsCurrent, state
      <4>4. QED
        BY <4>1, <4>2, <4>3 DEF StateIsFresh
    <3>4. QED
      BY <3>1, <3>2, <3>3 DEF CallOK
  <2>2. ASSUME NEW d, NEW e, SameButOverlapped(d, e), LogFits(h, d)
        PROVE  LogFits(h, e)'
    <3>1. ASSUME NEW i \in DOMAIN operationLog, operationLog[i].by = h
          PROVE  IssuedBefore(h, e, operationLog[i])'
      <4>1. IssuedBefore(h, d, operationLog[i]) /\ operationLog' = operationLog
        BY <2>2, <3>1 DEF LogFits
      <4>2. QED
        BY <2>2, <4>1, <1>6 DEF IssuedBefore, SameButOverlapped, Running, state
    <3>2. QED
      BY <3>1 DEF LogFits
  <2>3. SameButOverlapped(calls[h], calls'[h]) /\ LogFits(h, calls[h])
    BY <1>12 DEF Inv, Each
  <2>4. LogFits(h, calls[h])'
    BY <2>2, <2>3
  <2>5. ASSUME calls'[h] # Idle PROVE CallOK(h, calls[h])'
    <3>1. calls[h] # Idle /\ CallOK(h, calls[h]) /\ calls[h] \in Call
      BY <2>3, <2>5, UnderWay DEF Inv, Each, SameButOverlapped
    <3>2. QED
      BY <3>1, <2>1, <2>3, <2>5
  <2>6. QED
    BY <2>4, <2>5
<1>13. ASSUME calls'[Controller] # Idle PROVE CallOK(Controller, calls[Controller])'
  <2>1. PICK c \in Call : c = calls'[Controller]
    BY <1>3, <1>13
  <2>2. /\ c.step \in ControlSteps \cup {"check_sync"} /\ c.state <= states /\ c.state \in Nat
        /\ \A q \in Peers \ {Me} : c.vector[q] <= history.applied[q]
    BY <2>1, <1>13 DEF Call
  <2>3. c.state <= states'
    BY <2>2, <1>1
  <2>4. CallFits(Controller, c)'
    BY <2>2, <2>3 DEF CallFits, ControlSteps
  <2>5. Undisturbed(Controller, c)' /\ ReadsCurrent(c)' /\ FoundCurrent(c)'
    BY <2>2 DEF Undisturbed, ReadsCurrent, FoundCurrent, ControlSteps
  <2>6. IsOnDisk(c)'
    BY <2>2 DEF IsOnDisk, ControlSteps
  <2>7. CallOK(Controller, c)'
    BY <2>2, <2>4, <2>5, <2>6 DEF CallOK, ControlSteps
  <2>8. QED
    BY <2>1, <2>7
<1>14. LogFits(Controller, calls[Controller])'
  <2>1. ASSUME NEW i \in DOMAIN operationLog, operationLog[i].by = Controller
        PROVE  IssuedBefore(Controller, calls[Controller], operationLog[i])'
    <3>1. IssuedBefore(Controller, calls[Controller], operationLog[i])
      BY <1>3, <2>1 DEF Inv, Each, LogFits
    <3>2. /\ calls[Controller] # Idle => calls[Controller].step \notin {"lock", "count", "assign", "panicked"}
          /\ calls'[Controller] # Idle => calls'[Controller].step \notin {"lock", "count", "assign", "panicked"}
      BY DEF ControlSteps
    <3>3. QED
      BY <3>1, <3>2, <1>6 DEF IssuedBefore, Running, state
  <2>2. QED
    BY <2>1 DEF LogFits
<1>15. Each'
  BY <1>12, <1>13, <1>14 DEF Each
<1>16. QED
  BY <1>2, <1>5, <1>7, <1>8, <1>9, <1>10, <1>11, <1>15 DEF Inv, Whole

LEMMA OthersAreOverlapped ==
    ASSUME Inv, Running, InControl, NEW h \in Goroutines, h # Controller
    PROVE  SameButOverlapped(calls[h], calls[h])
<1>1. calls[h] # Idle => calls[h].overlapped /\ calls[h] \in Call
  BY UnderWay DEF Inv, Each, CallOK, Undisturbed
<1>2. QED
  BY <1>1 DEF SameButOverlapped

LEMMA BeginControlType ==
    ASSUME TypeOK, NEW step \in ControlSteps
    PROVE  /\ BeginControl(step) \in [Goroutines -> Call \cup {Idle}]
           /\ BeginControl(step)[Controller].step = step
           /\ BeginControl(step)[Controller] # Idle
           /\ BeginControl(step)[Controller].state = 0
           /\ BeginControl(step)[Controller].vector = NewVectorClock
           /\ ~ BeginControl(step)[Controller].stale
           /\ \A h \in Goroutines : h # Controller =>
                 SameButOverlapped(calls[h], BeginControl(step)[h])
<1>1. /\ Begin(step) \in Call /\ Begin(step) # Idle
      /\ Begin(step).step = step /\ Begin(step).state = 0
      /\ Begin(step).vector = NewVectorClock /\ ~ Begin(step).stale
  BY BeginType DEF Steps, ControlSteps
<1>2. ASSUME NEW c \in Call
      PROVE  LET d == [c EXCEPT !.overlapped = TRUE] IN d \in Call /\ SameButOverlapped(c, d)
  <2> DEFINE d == [c EXCEPT !.overlapped = TRUE]
  <2>1. d \in Call
    BY DEF Call
  <2>2. /\ d.step = c.step /\ d.op = c.op /\ d.found = c.found
        /\ d.vector = c.vector /\ d.state = c.state
        /\ d.stale = c.stale /\ d.crossed = c.crossed /\ d.overlapped
    BY DEF Call
  <2> HIDE DEF d
  <2>3. SameButOverlapped(c, d)
    BY <2>1, <2>2, CallsAreNotIdle DEF SameButOverlapped
  <2>4. QED
    BY <2>1, <2>3 DEF d
<1>3. \A h \in Goroutines : BeginControl(step)[h] =
         IF h = Controller THEN Begin(step)
         ELSE IF calls[h] = Idle THEN Idle ELSE [calls[h] EXCEPT !.overlapped = TRUE]
  BY DEF BeginControl
<1>4. ASSUME NEW h \in Goroutines, h # Controller
      PROVE  /\ BeginControl(step)[h] \in Call \cup {Idle}
             /\ SameButOverlapped(calls[h], BeginControl(step)[h])
  <2>1. CASE calls[h] = Idle
    BY <2>1, <1>3, <1>4 DEF SameButOverlapped
  <2>2. CASE calls[h] # Idle
    <3>1. calls[h] \in Call /\ BeginControl(step)[h] = [calls[h] EXCEPT !.overlapped = TRUE]
      BY <2>2, <1>3, <1>4, UnderWay
    <3>2. QED
      BY <3>1, <1>2
  <2>3. QED
    BY <2>1, <2>2
<1>5. BeginControl(step)[Controller] = Begin(step)
  BY <1>3 DEF Goroutines
<1>6. BeginControl(step) \in [Goroutines -> Call \cup {Idle}]
  <2>1. \A h \in Goroutines : BeginControl(step)[h] \in Call \cup {Idle}
    BY <1>1, <1>4, <1>5
  <2>2. QED
    BY <2>1 DEF BeginControl
<1>7. QED
  BY <1>1, <1>4, <1>5, <1>6

LEMMA AttachKeepsInv == ASSUME Inv, AttachToNetwork PROVE Inv'
<1>1. /\ calls[Controller] = Idle /\ Running /\ ~ networkID /\ states < MaxStates /\ network.there
      /\ calls' = BeginControl("add")
      /\ history' = [history EXCEPT !.left = FALSE]
      /\ UNCHANGED <<ended, document, networkID, state, operationLog, mu, network, states>>
  BY DEF AttachToNetwork, Free
<1>2. /\ calls' \in [Goroutines -> Call \cup {Idle}]
      /\ calls'[Controller].step = "add" /\ calls'[Controller] # Idle
      /\ calls'[Controller].state = 0 /\ calls'[Controller].vector = NewVectorClock
      /\ ~ calls'[Controller].stale
      /\ \A h \in Goroutines : h # Controller => SameButOverlapped(calls[h], calls'[h])
  <2>1. "add" \in ControlSteps /\ TypeOK
    BY DEF ControlSteps, Inv
  <2>2. QED
    BY <2>1, <1>1, BeginControlType
<1>3. /\ history' \in History /\ history'.done = history.done
      /\ history'.crossed = history.crossed /\ history'.left = FALSE
      /\ history'.applied = history.applied /\ history'.mine = history.mine
  BY <1>1 DEF Inv, TypeOK, History
<1>4. /\ \A q \in Peers : NewVectorClock[q] = 0 /\ history.applied[q] \in Nat
                          /\ history.applied[q] >= 0
      /\ states \in Nat /\ 0 <= states
      /\ networkID \in BOOLEAN /\ network \in Network /\ states \in 0 .. MaxStates
  BY PeersOfClocks DEF NewVectorClock, Inv, TypeOK, History
<1>5. /\ \A q \in Peers \ {Me} : calls'[Controller].vector[q] <= history.applied[q]
      /\ calls'[Controller].state <= states
  BY <1>2, <1>4
<1>6. Attached'
  BY <1>1, <1>2 DEF Inv, Whole, Attached, Doing, InControl, ControlSteps, Running, state
<1>7. Listed'
  BY <1>1, <1>2 DEF Inv, Whole, Listed, Doing, InControl, ControlSteps, Running
<1>8. StateIsFresh
  BY <1>1, <1>3 DEF StateIsFresh
<1>9. QED
  BY <1>1, <1>2, <1>3, <1>4, <1>5, <1>6, <1>7, <1>8, ControlKeepsInv DEF ControlSteps

LEMMA DetachKeepsInv == ASSUME Inv, DetachFromNetwork PROVE Inv'
<1>1. /\ calls[Controller] = Idle /\ Running /\ networkID
      /\ network' = IF network.there THEN [NoNetwork EXCEPT !.there = TRUE] ELSE network
      /\ calls' = BeginControl("drop")
      /\ UNCHANGED <<ended, document, networkID, state, operationLog, mu, states, history>>
  BY DEF DetachFromNetwork, Free
<1>2. /\ calls' \in [Goroutines -> Call \cup {Idle}]
      /\ calls'[Controller].step = "drop" /\ calls'[Controller] # Idle
      /\ calls'[Controller].state = 0 /\ calls'[Controller].vector = NewVectorClock
      /\ \A h \in Goroutines : h # Controller => SameButOverlapped(calls[h], calls'[h])
  <2>1. "drop" \in ControlSteps /\ TypeOK
    BY DEF ControlSteps, Inv
  <2>2. QED
    BY <2>1, <1>1, BeginControlType
<1>3. /\ \A q \in Peers : NewVectorClock[q] = 0 /\ history.applied[q] \in Nat
                          /\ history.applied[q] >= 0
      /\ states \in Nat /\ 0 <= states /\ history \in History
      /\ networkID \in BOOLEAN /\ network \in Network /\ states \in 0 .. MaxStates
  BY PeersOfClocks DEF NewVectorClock, Inv, TypeOK, History
<1>4. /\ \A q \in Peers \ {Me} : calls'[Controller].vector[q] <= history.applied[q]
      /\ calls'[Controller].state <= states
  BY <1>2, <1>3
<1>5. /\ network' \in Network /\ ~ network'.listed /\ network'.shared = 0
      /\ ~ network'.there => network' = NoNetwork
  <2>1. CASE network.there
    <3>1. network' = [NoNetwork EXCEPT !.there = TRUE]
      BY <1>1, <2>1
    <3>2. network' = [there |-> TRUE, listed |-> FALSE, shared |-> 0]
      BY <3>1 DEF NoNetwork
    <3>3. 0 \in 0 .. 1
      OBVIOUS
    <3>4. network' \in Network
      BY <3>2, <3>3 DEF Network
    <3>5. QED
      BY <3>2, <3>4
  <2>2. CASE ~ network.there
    <3>1. network' = network /\ network = NoNetwork
      BY <1>1, <2>2 DEF Inv, Whole, Listed
    <3>2. NoNetwork.listed = FALSE /\ NoNetwork.shared = 0
      BY DEF NoNetwork
    <3>3. QED
      BY <1>3, <3>1, <3>2
  <2>3. QED
    BY <2>1, <2>2
<1>6. Attached'
  BY <1>1, <1>2 DEF Inv, Whole, Attached, Doing, InControl, ControlSteps, Running, state
<1>7. Listed'
  BY <1>1, <1>2, <1>5 DEF Listed, Doing, InControl, ControlSteps, Running
<1>8. StateIsFresh
  BY <1>1 DEF StateIsFresh
<1>9. QED
  BY <1>1, <1>2, <1>3, <1>4, <1>5, <1>6, <1>7, <1>8, ControlKeepsInv DEF ControlSteps

\* The controller goes on from one of its steps.
LEMMA GoesOnInControl ==
    ASSUME Inv, NEW from \in ControlSteps, At(Controller, from),
           NEW new \in Call \cup {Idle},
           new # Idle => /\ new.vector = calls[Controller].vector
                         /\ new.state = calls[Controller].state
                         /\ new.step \in ControlSteps \cup {"check_sync"},
           calls' = [calls EXCEPT ![Controller] = new],
           StateIsFresh, history' \in History,
           history'.applied = history.applied, history'.mine = history.mine,
           networkID' \in BOOLEAN, network' \in Network, states' \in 0 .. MaxStates,
           UNCHANGED <<ended, document, operationLog, mu>>,
           Attached', Listed'
    PROVE  Inv'
<1>1. Controller \in Goroutines
  BY DEF Goroutines
<1>2. /\ CallOK(Controller, calls[Controller]) /\ calls[Controller] \in Call
      /\ calls[Controller] # Idle /\ calls[Controller].step = from /\ Running
  BY <1>1, CallIsOK
<1>3. InControl
  BY <1>2 DEF InControl, Doing
<1>4. /\ calls' \in [Goroutines -> Call \cup {Idle}] /\ calls'[Controller] = new
      /\ \A h \in Goroutines : h # Controller => calls'[h] = calls[h]
  BY <1>1 DEF Inv, TypeOK
<1>5. \A h \in Goroutines : h # Controller => SameButOverlapped(calls[h], calls'[h])
  BY <1>2, <1>3, <1>4, OthersAreOverlapped
<1>6. new # Idle => /\ new.state <= states
                    /\ \A q \in Peers \ {Me} : new.vector[q] <= history.applied[q]
  BY <1>2 DEF CallOK, CallFits, IsOnDisk
<1>7. QED
  BY <1>2, <1>4, <1>5, <1>6, ControlKeepsInv

LEMMA AddCollectionKeepsInv == ASSUME Inv, AddCollection PROVE Inv'
<1> DEFINE c   == calls[Controller]
           new == [c EXCEPT !.step = "set_id", !.stale = FALSE]
<1>1. /\ At(Controller, "add")
      /\ network' = IF ~ network.there THEN network
                    ELSE [network EXCEPT !.listed = @ \/ ~ c.stale, !.shared = 1]
      /\ UNCHANGED <<ended, document, networkID, state, operationLog, mu, states, history>>
  BY DEF AddCollection
<1>2. Controller \in Goroutines
  BY DEF Goroutines
<1>3. c \in Call /\ c # Idle /\ c.step = "add" /\ Running
  BY <1>1, <1>2, CallIsOK
<1>4. calls' = [calls EXCEPT ![Controller] = new]
  BY <1>2, <1>3, UnderWay DEF AddCollection, Inv, TypeOK
<1>5. new \in Call /\ new # Idle /\ new.step = "set_id" /\ new.vector = c.vector /\ new.state = c.state
  <2> HIDE DEF c
  <2>1. new \in Call
    BY <1>3 DEF Call
  <2>2. new.step = "set_id" /\ new.vector = c.vector /\ new.state = c.state
    BY <1>3 DEF Call
  <2>3. QED
    BY <2>1, <2>2, CallsAreNotIdle
<1> HIDE DEF new
<1>6. calls'[Controller] = new
  BY <1>2, <1>4 DEF Inv, TypeOK
<1>7. /\ network' \in Network
      /\ ~ network.there => network' = NoNetwork /\ network = NoNetwork
      /\ network.there => /\ network'.there /\ network'.shared = 1
                          /\ ~ c.stale => network'.listed
  <2>1. CASE network.there
    <3> DEFINE listed == network.listed \/ ~ c.stale
    <3>1. network' = [network EXCEPT !.listed = listed, !.shared = 1] /\ listed \in BOOLEAN
          /\ (~ c.stale => listed) /\ network \in Network
      BY <1>1, <2>1 DEF Inv, TypeOK
    <3> HIDE DEF listed
    <3>2. 1 \in 0 .. 1
      OBVIOUS
    <3>3. network' \in Network
      BY <3>1, <3>2 DEF Network
    <3>4. network'.there = network.there /\ network'.listed = listed
      BY <3>1, Zenon DEF Network
    <3>5. network'.shared = 1
      BY <3>1 DEF Network
    <3>6. QED
      BY <2>1, <3>1, <3>3, <3>4, <3>5
  <2>2. CASE ~ network.there
    BY <1>1, <2>2 DEF Inv, TypeOK, Whole, Listed
  <2>3. QED
    BY <2>1, <2>2
<1>8. Attached'
  BY <1>1, <1>3, <1>5, <1>6 DEF c, Inv, Whole, Attached, Doing, InControl, ControlSteps, Running, state
<1>9. Listed'
  <2>1. Running /\ ~ history.left => network.there /\ ~ c.stale
    BY <1>3 DEF c, Inv, Whole, Listed, Doing
  <2>2. ~ network'.there => network' = NoNetwork
    BY <1>7
  <2>3. QED
    BY <2>1, <2>2, <1>1, <1>5, <1>6, <1>7 DEF Listed, Doing, InControl, ControlSteps, Running
<1>10. StateIsFresh /\ history' \in History /\ networkID' \in BOOLEAN /\ states' \in 0 .. MaxStates
       /\ history'.applied = history.applied /\ history'.mine = history.mine
  BY <1>1 DEF StateIsFresh, Inv, TypeOK
<1>11. "add" \in ControlSteps /\ "set_id" \in ControlSteps
  BY DEF ControlSteps
<1>12. QED
  BY <1>1, <1>4, <1>5, <1>7, <1>8, <1>9, <1>10, <1>11, GoesOnInControl DEF c

LEMMA ContinueInControl ==
    ASSUME TypeOK, calls[Controller] # Idle, NEW step \in Steps, Continue(Controller, step)
    PROVE  LET new == [calls[Controller] EXCEPT !.step = step]
           IN  /\ calls' = [calls EXCEPT ![Controller] = new] /\ calls'[Controller] = new
               /\ new \in Call /\ new # Idle /\ new.step = step
               /\ new.vector = calls[Controller].vector /\ new.state = calls[Controller].state
<1>1. Controller \in Goroutines
  BY DEF Goroutines
<1> DEFINE new == [calls[Controller] EXCEPT !.step = step]
<1>2. calls' = [calls EXCEPT ![Controller] = new]
  BY <1>1, ContinueIs
<1>3. calls[Controller] \in Call
  BY <1>1, UnderWay
<1>4. /\ new \in Call /\ new # Idle /\ new.step = step
      /\ new.vector = calls[Controller].vector /\ new.state = calls[Controller].state
  BY <1>3, ContinueType
<1> HIDE DEF new
<1>5. calls'[Controller] = new
  BY <1>1, <1>2 DEF TypeOK
<1>6. QED
  BY <1>2, <1>4, <1>5 DEF new

LEMMA SetNetworkIDKeepsInv == ASSUME Inv, SetNetworkID PROVE Inv'
<1> DEFINE new == [calls[Controller] EXCEPT !.step = "new_state"]
<1>1. /\ At(Controller, "set_id") /\ networkID' = TRUE /\ Continue(Controller, "new_state")
      /\ UNCHANGED <<ended, document, state, operationLog, mu, network, states, history>>
  BY DEF SetNetworkID
<1>2. calls[Controller] # Idle /\ calls[Controller].step = "set_id" /\ Running
  BY <1>1 DEF At
<1>3. /\ calls' = [calls EXCEPT ![Controller] = new] /\ calls'[Controller] = new
      /\ new \in Call /\ new # Idle /\ new.step = "new_state"
      /\ new.vector = calls[Controller].vector /\ new.state = calls[Controller].state
  <2>1. "new_state" \in Steps
    BY DEF Steps
  <2>2. QED
    BY <1>1, <1>2, <2>1, ContinueInControl DEF Inv
<1> HIDE DEF new
<1>4. Attached'
  BY <1>1, <1>2, <1>3 DEF Inv, Whole, Attached, Doing, InControl, ControlSteps, Running, state
<1>5. Listed'
  BY <1>1, <1>2, <1>3 DEF Inv, Whole, Listed, Doing, InControl, ControlSteps, Running
<1>6. /\ StateIsFresh /\ history' \in History /\ networkID' \in BOOLEAN /\ states' \in 0 .. MaxStates
      /\ history'.applied = history.applied /\ history'.mine = history.mine /\ network' \in Network
  BY <1>1 DEF StateIsFresh, Inv, TypeOK
<1>7. "set_id" \in ControlSteps /\ "new_state" \in ControlSteps
  BY DEF ControlSteps
<1>8. QED
  BY <1>1, <1>3, <1>4, <1>5, <1>6, <1>7, GoesOnInControl

LEMMA NewSyncStateKeepsInv == ASSUME Inv, NewSyncState PROVE Inv'
<1> DEFINE new == [calls[Controller] EXCEPT !.step = "check_sync"]
<1>1. /\ At(Controller, "new_state") /\ Continue(Controller, "check_sync")
      /\ states' = states + 1 /\ syncState' = states + 1
      /\ localVector' = NewVectorClock /\ inProgress' = FALSE /\ timers' = 0
      /\ history' = [history EXCEPT !.done = 0, !.crossed = {}]
      /\ UNCHANGED <<ended, document, networkID, operationLog, mu, network>>
  BY DEF NewSyncState
<1>2. calls[Controller] # Idle /\ calls[Controller].step = "new_state" /\ Running
  BY <1>1 DEF At
<1>3. /\ calls' = [calls EXCEPT ![Controller] = new] /\ calls'[Controller] = new
      /\ new \in Call /\ new # Idle /\ new.step = "check_sync"
      /\ new.vector = calls[Controller].vector /\ new.state = calls[Controller].state
  <2>1. "check_sync" \in Steps
    BY DEF Steps
  <2>2. QED
    BY <1>1, <1>2, <2>1, ContinueInControl DEF Inv
<1> HIDE DEF new
<1>4. states < MaxStates /\ states \in Nat /\ states + 1 \in 0 .. MaxStates /\ states + 1 # 0
  BY <1>2, ThreadsAssumption DEF ThreadsAssumption, Inv, TypeOK, Whole, Attached, Doing
<1>5. /\ history' \in History /\ history'.done = 0 /\ history'.crossed = {}
      /\ history'.left = history.left
      /\ history'.applied = history.applied /\ history'.mine = history.mine
  BY <1>1 DEF Inv, TypeOK, History
<1>6. networkID
  BY <1>2 DEF Inv, Whole, Attached, Doing
<1>7. Attached'
  BY <1>1, <1>2, <1>3, <1>4, <1>6 DEF Attached, Doing, InControl, ControlSteps
<1>8. Listed'
  BY <1>1, <1>2, <1>3, <1>5, <1>6 DEF Inv, Whole, Listed, Doing, InControl, ControlSteps, Running
<1>9. StateIsFresh /\ networkID' \in BOOLEAN /\ states' \in 0 .. MaxStates /\ network' \in Network
  BY <1>1, <1>4, <1>5 DEF StateIsFresh, Inv, TypeOK
<1>10. "new_state" \in ControlSteps
  BY DEF ControlSteps
<1>11. QED
  BY <1>1, <1>3, <1>5, <1>7, <1>8, <1>9, <1>10, GoesOnInControl

LEMMA DeleteSyncStateKeepsInv == ASSUME Inv, DeleteSyncState PROVE Inv'
<1> DEFINE new == [calls[Controller] EXCEPT !.step = "clear_id"]
<1>1. /\ At(Controller, "drop") /\ Continue(Controller, "clear_id")
      /\ syncState' = 0 /\ localVector' = NewVectorClock /\ inProgress' = FALSE /\ timers' = 0
      /\ UNCHANGED <<ended, document, networkID, operationLog, mu, network, states, history>>
  BY DEF DeleteSyncState
<1>2. calls[Controller] # Idle /\ calls[Controller].step = "drop" /\ Running
  BY <1>1 DEF At
<1>3. /\ calls' = [calls EXCEPT ![Controller] = new] /\ calls'[Controller] = new
      /\ new \in Call /\ new # Idle /\ new.step = "clear_id"
      /\ new.vector = calls[Controller].vector /\ new.state = calls[Controller].state
  <2>1. "clear_id" \in Steps
    BY DEF Steps
  <2>2. QED
    BY <1>1, <1>2, <2>1, ContinueInControl DEF Inv
<1> HIDE DEF new
<1>4. Attached'
  BY <1>1, <1>2, <1>3 DEF Inv, Whole, Attached, Doing, InControl, ControlSteps, Running
<1>5. Listed'
  BY <1>1, <1>2, <1>3 DEF Inv, Whole, Listed, Doing, InControl, ControlSteps, Running
<1>6. /\ StateIsFresh /\ history' \in History /\ networkID' \in BOOLEAN /\ states' \in 0 .. MaxStates
      /\ history'.applied = history.applied /\ history'.mine = history.mine /\ network' \in Network
  BY <1>1 DEF StateIsFresh, Inv, TypeOK
<1>7. "drop" \in ControlSteps /\ "clear_id" \in ControlSteps
  BY DEF ControlSteps
<1>8. QED
  BY <1>1, <1>3, <1>4, <1>5, <1>6, <1>7, GoesOnInControl

LEMMA ClearNetworkIDKeepsInv == ASSUME Inv, ClearNetworkID PROVE Inv'
<1>1. /\ At(Controller, "clear_id") /\ networkID' = FALSE
      /\ calls' = [calls EXCEPT ![Controller] = Idle]
      /\ UNCHANGED <<ended, document, state, operationLog, mu, network, states, history>>
  BY DEF ClearNetworkID, Finish
<1>2. calls[Controller] # Idle /\ calls[Controller].step = "clear_id" /\ Running
  BY <1>1 DEF At
<1>3. calls'[Controller] = Idle
  BY <1>1 DEF Goroutines, Inv, TypeOK
<1>4. Attached'
  BY <1>1, <1>2, <1>3 DEF Inv, Whole, Attached, Doing, InControl, ControlSteps, Running, state
<1>5. Listed'
  <2>1. network.listed \in BOOLEAN
    BY DEF Inv, TypeOK, Network
  <2>2. Running /\ ~ history.left => network.listed = FALSE /\ network.shared = 0
    BY <1>2, <2>1 DEF Inv, Whole, Listed, Doing
  <2>3. ~ network.there => network = NoNetwork
    BY DEF Inv, Whole, Listed
  <2>4. QED
    BY <2>2, <2>3, <1>1, <1>3 DEF Listed, Doing, InControl, Running
<1>6. /\ StateIsFresh /\ history' \in History /\ networkID' \in BOOLEAN /\ states' \in 0 .. MaxStates
      /\ history'.applied = history.applied /\ history'.mine = history.mine /\ network' \in Network
  BY <1>1 DEF StateIsFresh, Inv, TypeOK
<1>7. "clear_id" \in ControlSteps
  BY DEF ControlSteps
<1>8. QED
  BY <1>1, <1>4, <1>5, <1>6, <1>7, GoesOnInControl

-----------------------------------------------------------------------------
(***************************************************************************)
(* The network manager.                                                    *)
(***************************************************************************)
LEMMA NetworkKeepsInv ==
    ASSUME Inv, network' \in Network, history' \in History, Listed',
           history'.done = history.done, history'.crossed = history.crossed,
           history'.applied = history.applied, history'.mine = history.mine,
           UNCHANGED <<ended, document, networkID, state, operationLog, mu, calls, states>>
    PROVE  Inv'
<1>1. UNCHANGED <<syncState, localVector, inProgress, timers>>
  BY DEF state
<1>2. TypeOK'
  BY <1>1 DEF Inv, TypeOK
<1>3. InControl' <=> InControl
  BY DEF InControl, Doing
<1>4. Whole'
  BY <1>1, <1>3 DEF Inv, Whole, Attached, LockIsHeld, LogIsOld, IncrementsAreKept,
     WriterStampsIncrease, ClockFollowsDisk, OwnWriteStays, MarkHasTimer, Running, Doing, At
<1>5. Each'
  BY <1>1, <1>3 DEF Inv, Each, CallOK, CallFits, Undisturbed, IsOnDisk, ReadsCurrent,
     FoundCurrent, LogFits, IssuedBefore, Running
<1>6. QED
  BY <1>2, <1>4, <1>5 DEF Inv

LEMMA NetworkAppears ==
    ASSUME NEW n, n = [NoNetwork EXCEPT !.there = TRUE]
    PROVE  /\ n \in Network /\ NoNetwork \in Network
           /\ n.there = TRUE /\ n.listed = FALSE /\ n.shared = 0
<1>1. 0 \in 0 .. 1
  OBVIOUS
<1>2. n = [there |-> TRUE, listed |-> FALSE, shared |-> 0]
  BY DEF NoNetwork
<1>3. QED
  BY <1>1, <1>2 DEF Network, NoNetwork

LEMMA CreateNetworkKeepsInv == ASSUME Inv, CreateNetwork PROVE Inv'
<1>1. /\ ~ network.there /\ network' = [NoNetwork EXCEPT !.there = TRUE]
      /\ UNCHANGED <<ended, document, networkID, state, operationLog, mu, calls, states, history>>
  BY DEF CreateNetwork
<1>2. /\ network'.there = TRUE /\ network'.listed = FALSE /\ network'.shared = 0
      /\ network' \in Network
  BY <1>1, NetworkAppears
<1>3. network = NoNetwork /\ network.listed = FALSE /\ network.shared = 0
  BY <1>1 DEF Inv, Whole, Listed, NoNetwork
<1>4. Listed'
  BY <1>1, <1>2, <1>3 DEF Inv, Whole, Listed, InControl, Doing, Running
<1>5. QED
  BY <1>1, <1>2, <1>4, NetworkKeepsInv DEF Inv, TypeOK

LEMMA LeaveNetworkKeepsInv == ASSUME Inv, LeaveNetwork PROVE Inv'
<1>1. /\ network' = NoNetwork /\ history' = [history EXCEPT !.left = TRUE]
      /\ UNCHANGED <<ended, document, networkID, state, operationLog, mu, states>>
  BY DEF LeaveNetwork
<1>2. /\ history' \in History /\ history'.left = TRUE /\ history'.done = history.done
      /\ history'.crossed = history.crossed
      /\ history'.applied = history.applied /\ history'.mine = history.mine
  BY <1>1 DEF Inv, TypeOK, History
<1>3. Listed' /\ network' \in Network
  BY <1>1, <1>2, NetworkAppears DEF Listed
<1>4. CASE At(Controller, "add")
  <2> DEFINE c   == calls[Controller]
             new == [c EXCEPT !.stale = TRUE]
  <2>1. calls' = [calls EXCEPT ![Controller] = new]
    BY <1>4 DEF LeaveNetwork
  <2>2. Controller \in Goroutines
    BY DEF Goroutines
  <2>3. c \in Call /\ c # Idle /\ c.step = "add" /\ Running
    BY <1>4, <2>2, CallIsOK
  <2>4. new \in Call /\ new # Idle /\ new.step = "add" /\ new.vector = c.vector /\ new.state = c.state
    <3> HIDE DEF c
    <3>1. new \in Call
      BY <2>3 DEF Call
    <3>2. new.step = "add" /\ new.vector = c.vector /\ new.state = c.state
      BY <2>3 DEF Call
    <3>3. QED
      BY <3>1, <3>2, CallsAreNotIdle
  <2> HIDE DEF new
  <2>5. calls'[Controller] = new
    BY <2>1, <2>2 DEF Inv, TypeOK
  <2>6. Attached'
    BY <1>1, <2>3, <2>4, <2>5 DEF c, Inv, Whole, Attached, Doing, InControl, ControlSteps, Running, state
  <2>7. StateIsFresh /\ networkID' \in BOOLEAN /\ states' \in 0 .. MaxStates
    BY <1>1, <1>2 DEF StateIsFresh, Inv, TypeOK
  <2>8. "add" \in ControlSteps
    BY DEF ControlSteps
  <2>9. QED
    BY <1>1, <1>2, <1>3, <1>4, <2>1, <2>4, <2>6, <2>7, <2>8, GoesOnInControl DEF c
<1>5. CASE ~ At(Controller, "add")
  <2>1. UNCHANGED calls
    BY <1>5 DEF LeaveNetwork
  <2>2. QED
    BY <1>1, <1>2, <1>3, <2>1, NetworkKeepsInv
<1>6. QED
  BY <1>4, <1>5

-----------------------------------------------------------------------------
(***************************************************************************)
(* The invariant holds from the beginning, and through every step.         *)
(***************************************************************************)
LEMMA InvInit == ASSUME Init PROVE Inv
<1>1. /\ NewVectorClock \in Clock /\ \A q \in Peers : NewVectorClock[q] = 0
      /\ Me \in Peers /\ {MaxStates, MaxTimers, MaxLogSize} \subseteq Nat
  BY NewVectorClockType, ThreadsAssumption DEF NewVectorClock, ThreadsAssumption
<1>2. \A g \in Goroutines : calls[g] = Idle
  BY DEF Init
<1>3. Controller \in Goroutines /\ mu = Idle
  BY DEF Init, Goroutines
<1>4. TypeOK
  <2>1. /\ syncState \in 0 .. MaxStates /\ states \in 0 .. MaxStates
        /\ timers \in 0 .. MaxTimers
    BY <1>1 DEF Init
  <2>2. operationLog \in Seq(Logged) /\ Len(operationLog) <= MaxLogSize
    <3>1. operationLog = <<>> /\ Len(operationLog) = 0
      BY DEF Init
    <3>2. QED
      BY <3>1, <1>1
  <2>3. history \in History
    BY <1>1 DEF Init, History
  <2>4. network \in Network
    <3>1. 0 \in 0 .. 1
      OBVIOUS
    <3>2. QED
      BY <3>1 DEF Init, NoNetwork, Network
  <2>5. calls \in [Goroutines -> Call \cup {Idle}]
    BY DEF Init
  <2>6. document \in Payload \cup {NoDocument} /\ ended \in {"no", "nil", "sync_request", "map"}
        /\ networkID \in BOOLEAN /\ localVector \in Clock /\ inProgress \in BOOLEAN
        /\ mu \in Writers \cup {Idle}
    BY <1>1 DEF Init
  <2>7. QED
    BY <2>1, <2>2, <2>3, <2>4, <2>5, <2>6 DEF TypeOK
<1>5. DOMAIN operationLog = {}
  BY DEF Init
<1>6. ~ InControl /\ \A steps \in SUBSET ControlSteps : ~ Doing(Controller, steps)
  BY <1>2, <1>3 DEF InControl, Doing
<1>7. Attached /\ LockIsHeld /\ MarkHasTimer /\ OwnWriteStays
  BY <1>3, <1>6 DEF Init, Attached, LockIsHeld, MarkHasTimer, OwnWriteStays, ControlSteps
<1>8. Listed
  BY <1>6 DEF Init, Listed, NoNetwork, ControlSteps
<1>9. LogIsOld /\ WriterStampsIncrease /\ IncrementsAreKept /\ ClockFollowsDisk
  BY <1>1, <1>5 DEF Init, LogIsOld, WriterStampsIncrease, IncrementsAreKept, ClockFollowsDisk
<1>10. Each
  BY <1>2, <1>5 DEF Each, LogFits
<1>11. QED
  BY <1>4, <1>7, <1>8, <1>9, <1>10 DEF Inv, Whole

LEMMA GoroutineKeepsInv == ASSUME Inv, NEW g \in Goroutines, GoroutineStep(g) PROVE Inv'
<1>1. CASE Stamp(g)
  BY <1>1, StampKeepsInv
<1>2. CASE ReadClock(g, "count", "assign") \/ ReadClock(g, "read", "merge")
  BY <1>2, ReadClockKeepsInv
<1>3. CASE AssignIncrement(g)
  BY <1>3, AssignIncrementKeepsInv
<1>4. CASE RecoverInLock(g)
  BY <1>4, RecoverKeepsInv
<1>5. CASE WriteResult(g)
  BY <1>5, WriteResultKeepsInv
<1>6. ASSUME NEW last \in BOOLEAN, CheckBeforeMerge(g, last) \/ AssignMerge(g, last)
      PROVE  Inv'
  BY <1>6, CheckBeforeMergeKeepsInv, AssignMergeKeepsInv
<1>7. CASE CheckNetworkID(g, "check_clear", "clear") \/ CheckNetworkID(g, "check_sync", "check_progress")
  <2>1. "clear" \in Steps /\ "check_progress" \in Steps
    BY DEF Steps
  <2>2. QED
    BY <1>7, <2>1, CheckKeepsInv
<1>8. CASE ClearProgress(g) \/ CheckProgress(g) \/ SetProgress(g) \/ StartTimer(g)
  BY <1>8, ClearProgressKeepsInv, CheckProgressKeepsInv, SetProgressKeepsInv, StartTimerKeepsInv
<1>9. CASE UsesNilState(g)
  BY <1>9, UsesNilStateKeepsInv
<1>10. QED
  BY <1>1, <1>2, <1>3, <1>4, <1>5, <1>6, <1>7, <1>8, <1>9 DEF GoroutineStep

LEMMA InvStep == ASSUME Inv, [Next]_vars PROVE Inv'
<1>1. ASSUME NEW g \in Goroutines, NEW what \in Docs \cup {NoDocument}, WriteLocal(g, what)
      PROVE  Inv'
  BY <1>1, WriteLocalKeepsInv
<1>2. ASSUME NEW g \in Goroutines, NEW op \in Incoming, FindExisting(g, op)
      PROVE  Inv'
  BY <1>2, FindExistingKeepsInv
<1>3. ASSUME NEW g \in Goroutines, ForceSync(g) \/ LockAndLog(g) \/ GoroutineStep(g)
      PROVE  Inv'
  BY <1>3, ForceSyncKeepsInv, LockAndLogKeepsInv, GoroutineKeepsInv
<1>4. CASE AttachToNetwork \/ DetachFromNetwork
  BY <1>4, AttachKeepsInv, DetachKeepsInv
<1>5. CASE ControllerStep
  BY <1>5, AddCollectionKeepsInv, SetNetworkIDKeepsInv, NewSyncStateKeepsInv,
     DeleteSyncStateKeepsInv, ClearNetworkIDKeepsInv DEF ControllerStep
<1>6. CASE CreateNetwork \/ LeaveNetwork
  BY <1>6, CreateNetworkKeepsInv, LeaveNetworkKeepsInv
<1>7. CASE ClearFlagAfterTimeout
  BY <1>7, TimeoutKeepsInv
<1>8. CASE SyncRequestUnattached \/ ConcurrentMapAccess
  BY <1>8, NobodysEndKeepsInv
<1>9. CASE UNCHANGED vars
  <2>1. UNCHANGED <<ended, document, networkID, state, operationLog, mu, network, calls,
                    states, history>>
    BY <1>9 DEF vars
  <2>2. Listed'
    BY <2>1 DEF Inv, Whole, Listed, InControl, Doing, Running
  <2>3. QED
    BY <2>1, <2>2, NetworkKeepsInv DEF Inv, TypeOK
<1>10. QED
  BY <1>1, <1>2, <1>3, <1>4, <1>5, <1>6, <1>7, <1>8, <1>9 DEF Next

\* The invariant holds of every state of the specification.
THEOREM Invariant == Spec => []Inv
<1>1. Init => Inv
  BY InvInit
<1>2. Inv /\ [Next]_vars => Inv'
  BY InvStep
<1>3. QED
  BY <1>1, <1>2, PTL DEF Spec

-----------------------------------------------------------------------------
(***************************************************************************)
(* What a user of a collection may rely on.                                *)
(***************************************************************************)
\* Every variable keeps its type; in particular the log never holds more than
\* maxLogSize operations and dc.mu is held by a writer or by nobody.
THEOREM ThreadsTypeInvariant == Spec => []TypeOK
<1>1. Inv => TypeOK
  BY DEF Inv
<1>2. QED
  BY <1>1, Invariant, PTL

\* broadcastOperation loses no increment under dc.mu unless a merge, which does
\* not take it, crossed the increment, or the other way round.
THEOREM NoIncrementIsLost == Spec => []IncrementsAreKept
<1>1. Inv => IncrementsAreKept
  BY DEF Inv, Whole
<1>2. QED
  BY <1>1, Invariant, PTL

\* The stamps that getCurrentVector gives the operations of one goroutine, under
\* one sync state, increase in the log, as long as nothing has crossed a merge.
THEOREM StampsIncrease == Spec => []WriterStampsIncrease
<1>1. Inv => WriterStampsIncrease
  BY DEF Inv, Whole
<1>2. QED
  BY <1>1, Invariant, PTL

\* handleRemoteOperation merges the stamp of an operation only after it has
\* written the document: the clock knows of no peer's operation that is not on
\* the disk.
THEOREM ClockIsBehindDisk == Spec => []ClockFollowsDisk
<1>1. Inv => ClockFollowsDisk
  BY DEF Inv, Whole
<1>2. QED
  BY <1>1, Invariant, PTL

\* No handler replaces what a client wrote, but for an operation that has its way
\* over it or a handler that found the document before.
THEOREM ClientsWriteStays == Spec => []OwnWriteStays
<1>1. Inv => OwnWriteStays
  BY DEF Inv, Whole
<1>2. QED
  BY <1>1, Invariant, PTL

\* requestSync never leaves SyncInProgress set without somebody to clear it.
THEOREM MarkIsCleared == Spec => []MarkHasTimer
<1>1. Inv => MarkHasTimer
  BY DEF Inv, Whole
<1>2. QED
  BY <1>1, Invariant, PTL

\* AttachToNetwork and DetachFromNetwork keep the collection and the network
\* manager in step, but for a network that is left in between.
THEOREM AttachedIsListed == Spec => []ListedIffAttached
<1>1. Inv => ListedIffAttached
  <2>1. Free(Controller) => ~ InControl /\ Running
    BY DEF Free, InControl, Doing
  <2>2. QED
    BY <2>1 DEF Inv, Whole, Listed, ListedIffAttached
<1>2. QED
  BY <1>1, Invariant, PTL

\* A sync state that is not there is used, and dc.mu left locked, only by a call
\* that AttachToNetwork or DetachFromNetwork overlapped.
THEOREM PanicsAreOverlapped == Spec => []OnlyOverlapsPanic
<1>1. Inv => OnlyOverlapsPanic
  <2> SUFFICES ASSUME Inv PROVE OnlyOverlapsPanic
    OBVIOUS
  <2>1. \A g \in Goroutines :
           calls[g] # Idle /\ calls[g].step = "panicked" => calls[g].overlapped
    BY DEF Inv, Each, CallOK
  <2>2. Running /\ mu # Idle => \/ At(mu, "count") \/ At(mu, "assign")
                                \/ At(mu, "panicked") /\ calls[mu].overlapped
    BY DEF Inv, Whole, LockIsHeld, Doing, At
  <2>3. QED
    BY <2>1, <2>2 DEF OnlyOverlapsPanic
<1>2. QED
  BY <1>1, Invariant, PTL
=============================================================================
