------------------------- MODULE ConnectionsProofs -------------------------
(***************************************************************************)
(* Proofs about Connections, for any processes, any lists of addresses to  *)
(* dial, and any messages: a handshake's hello is never overtaken, and     *)
(* the connections implement Delivery.                                     *)
(***************************************************************************)
EXTENDS Connections, SequenceTheorems, TLAPS

Line == Messages \cup {Hello}

Recipient(s) == Owner(Other(s.end))

IsDialer(e) == e[2] = "dialer"

-----------------------------------------------------------------------------
(***************************************************************************)
(* The inductive invariant.  Ends that are written to or registered have   *)
(* gone through the handshake.                                             *)
(***************************************************************************)
Established ==
    /\ \A s \in sends : state[s.end] \in {"read", "closed"}
    /\ \A n, peer \in Nodes : connections[n][peer] # NoConn =>
          state[connections[n][peer]] \in {"read", "closed"}

\* A hello is the first line of an end that waits for one, and only there.
HelloIsFirst ==
    \A e \in Ends :
        /\ state[e] \in {"none", "closed"} => wire[e] = <<>>
        /\ \A i \in 1..Len(wire[e]) :
              wire[e][i] = Hello <=> i = 1 /\ state[e] \in {"queued", "greet"}

\* How far the two ends of a connection may be apart: the dialer has nothing
\* to read until the acceptor has read its hello and answered.
InStep ==
    \A e \in Ends : IsDialer(e) =>
        /\ state[e] = "none" <=> state[Other(e)] = "none"
        /\ state[e] # "queued"
        /\ state[Other(e)] \in {"none", "queued", "greet"} =>
              wire[e] = <<>> /\ state[e] \notin {"register", "read"}
        /\ state[e] = "greet" /\ state[Other(e)] \in {"register", "read"} => wire[e] # <<>>

\* Of a message at most one copy is on its way to a process, be it still with
\* the goroutine that is to write it or on a wire.
OneCopy ==
    /\ \A s \in sends : s.msg \in issued
    /\ \A e \in Ends : \A i \in 1..Len(wire[e]) : wire[e][i] \in issued \cup {Hello}
    /\ \A s, t \in sends : s.msg = t.msg /\ Recipient(s) = Recipient(t) => s = t
    /\ \A s \in sends, e \in Ends : Owner(e) = Recipient(s) =>
          \A i \in 1..Len(wire[e]) : wire[e][i] # s.msg
    /\ \A e, f \in Ends : \A i \in 1..Len(wire[e]), j \in 1..Len(wire[f]) :
          Owner(e) = Owner(f) /\ wire[e][i] = wire[f][j] /\ wire[e][i] # Hello =>
             e = f /\ i = j

Handshake == Established /\ HelloIsFirst /\ InStep

Inv == TypeOK /\ Handshake /\ OneCopy

-----------------------------------------------------------------------------
(***************************************************************************)
(* The two ends of a connection, and lines on wires.                       *)
(***************************************************************************)
LEMMA EndsPair ==
    ASSUME NEW e \in Ends
    PROVE  /\ Other(e) \in Ends /\ Other(Other(e)) = e /\ Other(e) # e
           /\ IsDialer(Other(e)) <=> ~ IsDialer(e)
           /\ Owner(e) \in Nodes /\ e # NoConn
BY ConnectionsAssumption DEF Ends, Other, Owner, IsDialer

LEMMA Lines ==
    ASSUME NEW w \in Seq(Line)
    PROVE  /\ Len(w) \in Nat
           /\ w = <<>> <=> Len(w) = 0
           /\ \A i \in 1..Len(w) : w[i] \in Line
           /\ w # <<>> => /\ 1 \in 1..Len(w) /\ Head(w) = w[1]
                          /\ Tail(w) \in Seq(Line) /\ Len(Tail(w)) = Len(w) - 1
                          /\ \A i \in 1..Len(Tail(w)) : Tail(w)[i] = w[i + 1]
<1>1. Len(w) \in Nat /\ (w = <<>> <=> Len(w) = 0)
  BY EmptySeq, LenProperties
<1>2. \A i \in 1..Len(w) : w[i] \in Line
  BY ElementOfSeq
<1>3. ASSUME w # <<>>
      PROVE  /\ 1 \in 1..Len(w) /\ Head(w) = w[1]
             /\ Tail(w) \in Seq(Line) /\ Len(Tail(w)) = Len(w) - 1
             /\ \A i \in 1..Len(Tail(w)) : Tail(w)[i] = w[i + 1]
  BY <1>1, <1>3, HeadTailProperties
<1>4. QED
  BY <1>1, <1>2, <1>3

LEMMA LineAppended ==
    ASSUME NEW w \in Seq(Line), NEW line \in Line
    PROVE  /\ Append(w, line) \in Seq(Line) /\ Append(w, line) # <<>>
           /\ Len(Append(w, line)) = Len(w) + 1
           /\ \A i \in 1..Len(w) + 1 :
                 Append(w, line)[i] = IF i = Len(w) + 1 THEN line ELSE w[i]
BY AppendProperties, Lines

-----------------------------------------------------------------------------
(***************************************************************************)
(* The invariant holds initially and is kept by each action.               *)
(***************************************************************************)
LEMMA InvInit == Init => Inv
<1> SUFFICES ASSUME Init PROVE Inv
  OBVIOUS
<1>1. \A e \in Ends : state[e] = "none" /\ wire[e] = <<>> /\ Len(wire[e]) = 0
  BY EmptySeq DEF Init
<1>2. TypeOK
  BY EmptySeq, EndsPair DEF Init, TypeOK
<1>3. Handshake
  BY <1>1, EndsPair DEF Init, Handshake, Established, HelloIsFirst, InStep
<1>4. OneCopy
  BY <1>1 DEF Init, OneCopy
<1>5. QED
  BY <1>2, <1>3, <1>4 DEF Inv

\* Closing ends that are in use, with or without their entries of the table.
LEMMA ClosingKeepsInv ==
    ASSUME Inv, NEW E \in SUBSET Ends, \A e \in E : state[e] # "none",
           Close(E), UNCHANGED <<sends, issued, handled>>,
           initialized' \in [Nodes -> BOOLEAN], cancelled' \in [Nodes -> BOOLEAN],
           connections' \in [Nodes -> [Nodes -> Ends \cup {NoConn}]],
           \A n, peer \in Nodes : connections'[n][peer] \in {connections[n][peer], NoConn}
    PROVE  Inv'
<1>1. \A e \in Ends : /\ state'[e] = IF e \in E THEN "closed" ELSE state[e]
                      /\ wire'[e] = IF e \in E THEN <<>> ELSE wire[e]
                      /\ wire[e] \in Seq(Line)
  BY DEF Close, Inv, TypeOK, Line
<1>2. \A e \in Ends : e \in E => Len(wire'[e]) = 0
  BY <1>1, EmptySeq
<1>3. TypeOK'
  <2>1. /\ state' \in [Ends -> {"none", "queued", "greet", "register", "read", "closed"}]
        /\ wire' \in [Ends -> Seq(Line)]
    BY EmptySeq DEF Close, Inv, TypeOK, Line
  <2>2. QED
    BY <2>1 DEF Inv, TypeOK, Line
<1>4. Established'
  <2>1. ASSUME NEW e \in Ends, state[e] \in {"read", "closed"}
        PROVE  state'[e] \in {"read", "closed"}
    BY <1>1, <2>1
  <2>2. \A s \in sends' : s.end \in Ends /\ state[s.end] \in {"read", "closed"}
    BY DEF Inv, TypeOK, Send, Handshake, Established
  <2>3. \A n, peer \in Nodes : connections'[n][peer] # NoConn =>
           /\ connections'[n][peer] \in Ends
           /\ state[connections'[n][peer]] \in {"read", "closed"}
    BY DEF Inv, Handshake, Established
  <2>4. QED
    BY <2>1, <2>2, <2>3 DEF Established
<1>5. HelloIsFirst'
  BY <1>1, <1>2 DEF Inv, Handshake, HelloIsFirst
<1>6. InStep'
  <2> SUFFICES ASSUME NEW e \in Ends, IsDialer(e)
               PROVE  /\ state'[e] = "none" <=> state'[Other(e)] = "none"
                      /\ state'[e] # "queued"
                      /\ state'[Other(e)] \in {"none", "queued", "greet"} =>
                            wire'[e] = <<>> /\ state'[e] \notin {"register", "read"}
                      /\ state'[e] = "greet" /\ state'[Other(e)] \in {"register", "read"} =>
                            wire'[e] # <<>>
    BY DEF InStep
  <2>1. /\ Other(e) \in Ends
        /\ state[e] = "none" <=> state[Other(e)] = "none"
        /\ state[e] # "queued"
        /\ state[Other(e)] \in {"none", "queued", "greet"} =>
              wire[e] = <<>> /\ state[e] \notin {"register", "read"}
        /\ state[e] = "greet" /\ state[Other(e)] \in {"register", "read"} => wire[e] # <<>>
    BY EndsPair DEF Inv, Handshake, InStep
  <2>2. QED
    BY <2>1, <1>1
<1>7. OneCopy'
  <2>1. \A e \in Ends : \A i \in 1..Len(wire'[e]) : e \notin E /\ wire'[e] = wire[e]
    BY <1>1, <1>2
  <2>2. QED
    BY <2>1 DEF Inv, OneCopy, Recipient
<1>8. QED
  BY <1>3, <1>4, <1>5, <1>6, <1>7 DEF Inv, Handshake

LEMMA DialKeepsInv == ASSUME Inv, NEW d \in Dials, Dial(d) PROVE Inv'
<1> DEFINE e == <<d, "dialer">>
<1>1. /\ e \in Ends /\ IsDialer(e) /\ state[e] = "none"
      /\ Other(e) \in Ends /\ Other(e) # e /\ ~ IsDialer(Other(e))
      /\ Other(Other(e)) = e
  BY EndsPair DEF Dial, Ends, IsDialer
<1>2. /\ state' = [state EXCEPT ![e] = "greet", ![Other(e)] = "queued"]
      /\ wire'  = [wire EXCEPT ![Other(e)] = <<Hello>>]
      /\ UNCHANGED <<initialized, cancelled, connections, sends, issued, handled>>
  BY DEF Dial
<1> HIDE DEF e
<1>3. /\ state[Other(e)] = "none" /\ wire[e] = <<>> /\ wire[Other(e)] = <<>>
      /\ wire \in [Ends -> Seq(Line)]
      /\ state \in [Ends -> {"none", "queued", "greet", "register", "read", "closed"}]
  BY <1>1 DEF Inv, TypeOK, Line, Handshake, InStep, HelloIsFirst
<1>4. <<Hello>> \in Seq(Line) /\ Len(<<Hello>>) = 1 /\ <<Hello>>[1] = Hello
  BY DEF Line
<1>5. \A f \in Ends :
         /\ state'[f] = IF f = e THEN "greet" ELSE IF f = Other(e) THEN "queued" ELSE state[f]
         /\ wire'[f] = IF f = Other(e) THEN <<Hello>> ELSE wire[f]
  BY <1>1, <1>2, <1>3
<1>6. TypeOK'
  <2>1. /\ state' \in [Ends -> {"none", "queued", "greet", "register", "read", "closed"}]
        /\ wire' \in [Ends -> Seq(Line)]
    BY <1>1, <1>2, <1>3, <1>4
  <2>2. QED
    BY <2>1, <1>2 DEF Inv, TypeOK, Line
<1>7. Established'
  <2>1. ASSUME NEW f \in Ends, state[f] \in {"read", "closed"}
        PROVE  state'[f] \in {"read", "closed"}
    BY <1>1, <1>3, <1>5, <2>1
  <2>2. \A s \in sends : s.end \in Ends /\ state[s.end] \in {"read", "closed"}
    BY DEF Inv, TypeOK, Send, Handshake, Established
  <2>3. \A n, peer \in Nodes : connections[n][peer] # NoConn =>
           /\ connections[n][peer] \in Ends
           /\ state[connections[n][peer]] \in {"read", "closed"}
    BY DEF Inv, TypeOK, Handshake, Established
  <2>4. QED
    BY <1>2, <2>1, <2>2, <2>3 DEF Established
<1>8. HelloIsFirst'
  <2> SUFFICES ASSUME NEW f \in Ends
               PROVE  /\ state'[f] \in {"none", "closed"} => wire'[f] = <<>>
                      /\ \A i \in 1..Len(wire'[f]) :
                            wire'[f][i] = Hello <=> i = 1 /\ state'[f] \in {"queued", "greet"}
    BY DEF HelloIsFirst
  <2>1. CASE f = Other(e)
    BY <2>1, <1>1, <1>4, <1>5
  <2>2. CASE f = e
    BY <2>2, <1>1, <1>3, <1>5, EmptySeq
  <2>3. CASE f # e /\ f # Other(e)
    BY <2>3, <1>5 DEF Inv, Handshake, HelloIsFirst
  <2>4. QED
    BY <2>1, <2>2, <2>3
<1>9. InStep'
  <2> SUFFICES ASSUME NEW f \in Ends, IsDialer(f)
               PROVE  /\ state'[f] = "none" <=> state'[Other(f)] = "none"
                      /\ state'[f] # "queued"
                      /\ state'[Other(f)] \in {"none", "queued", "greet"} =>
                            wire'[f] = <<>> /\ state'[f] \notin {"register", "read"}
                      /\ state'[f] = "greet" /\ state'[Other(f)] \in {"register", "read"} =>
                            wire'[f] # <<>>
    BY DEF InStep
  <2>1. CASE f = e
    BY <2>1, <1>1, <1>3, <1>5
  <2>2. CASE f # e
    <3>1. Other(f) # e /\ Other(f) # Other(e) /\ f # Other(e) /\ Other(f) \in Ends
      BY <2>2, <1>1, EndsPair
    <3>2. QED
      BY <3>1, <2>2, <1>5 DEF Inv, Handshake, InStep
  <2>3. QED
    BY <2>1, <2>2
<1>10. OneCopy'
  <2>1. \A f \in Ends : \A i \in 1..Len(wire'[f]) :
           \/ wire'[f][i] = Hello
           \/ f # Other(e) /\ wire'[f] = wire[f]
    BY <1>4, <1>5
  <2>2. \A m \in issued : m # Hello
    BY ConnectionsAssumption DEF Inv, TypeOK
  <2>3. sends' = sends /\ issued' = issued
    BY <1>2
  <2>4. \A s \in sends : s.msg \in issued
    BY DEF Inv, OneCopy
  <2>5. \A s \in sends, f \in Ends : Owner(f) = Recipient(s) =>
           \A i \in 1..Len(wire'[f]) : wire'[f][i] # s.msg
    BY <2>1, <2>2, <2>4 DEF Inv, OneCopy
  <2>6. \A f, g \in Ends : \A i \in 1..Len(wire'[f]), j \in 1..Len(wire'[g]) :
           Owner(f) = Owner(g) /\ wire'[f][i] = wire'[g][j] /\ wire'[f][i] # Hello =>
              f = g /\ i = j
    BY <2>1 DEF Inv, OneCopy
  <2>7. \A f \in Ends : \A i \in 1..Len(wire'[f]) : wire'[f][i] \in issued \cup {Hello}
    BY <2>1 DEF Inv, OneCopy
  <2>8. QED
    BY <2>3, <2>5, <2>6, <2>7 DEF Inv, OneCopy, Recipient
<1>11. QED
  BY <1>6, <1>7, <1>8, <1>9, <1>10 DEF Inv, Handshake

\* What is on a wire was on it before, but for hellos.
NoNewMessages ==
    \A f \in Ends : \A i \in 1..Len(wire'[f]) :
        wire'[f][i] = Hello \/ \E k \in 1..Len(wire[f]) : wire'[f][i] = wire[f][k]

\* Reading the first line of an end, with or without a hello for another one.
LEMMA ReadingKeepsOneCopy ==
    ASSUME Inv, NEW e \in Ends, UNCHANGED <<sends, issued>>,
           \A f \in Ends : \A i \in 1..Len(wire'[f]) :
              LET k == IF f = e THEN i + 1 ELSE i
              IN  \/ wire'[f][i] = Hello
                  \/ k \in 1..Len(wire[f]) /\ wire'[f][i] = wire[f][k]
    PROVE  OneCopy'
<1>1. \A m \in issued : m # Hello
  BY ConnectionsAssumption DEF Inv, TypeOK
<1>2. \A s \in sends : s.msg \in issued
  BY DEF Inv, OneCopy
<1>3. \A s \in sends, f \in Ends : Owner(f) = Recipient(s) =>
         \A i \in 1..Len(wire'[f]) : wire'[f][i] # s.msg
  BY <1>1, <1>2 DEF Inv, OneCopy
<1>4. \A f, g \in Ends : \A i \in 1..Len(wire'[f]), j \in 1..Len(wire'[g]) :
         Owner(f) = Owner(g) /\ wire'[f][i] = wire'[g][j] /\ wire'[f][i] # Hello =>
            f = g /\ i = j
  <2> SUFFICES ASSUME NEW f \in Ends, NEW g \in Ends,
                      NEW i \in 1..Len(wire'[f]), NEW j \in 1..Len(wire'[g]),
                      Owner(f) = Owner(g), wire'[f][i] = wire'[g][j], wire'[f][i] # Hello
               PROVE  f = g /\ i = j
    OBVIOUS
  <2> DEFINE k == IF f = e THEN i + 1 ELSE i
             l == IF g = e THEN j + 1 ELSE j
  <2>1. /\ k \in 1..Len(wire[f]) /\ l \in 1..Len(wire[g])
        /\ wire[f][k] = wire[g][l] /\ wire[f][k] # Hello
    OBVIOUS
  <2>2. f = g /\ k = l
    <3> HIDE DEF k, l
    <3>1. \A a, b \in Ends : \A x \in 1..Len(wire[a]), y \in 1..Len(wire[b]) :
             Owner(a) = Owner(b) /\ wire[a][x] = wire[b][y] /\ wire[a][x] # Hello =>
                a = b /\ x = y
      BY DEF Inv, OneCopy
    <3>2. QED
      BY <2>1, <3>1
  <2>3. QED
    BY <2>2
<1>5. \A f \in Ends : \A i \in 1..Len(wire'[f]) : wire'[f][i] \in issued \cup {Hello}
  BY DEF Inv, OneCopy
<1>6. QED
  BY <1>3, <1>4, <1>5 DEF Inv, OneCopy, Recipient

\* An end moves on, and no line does.
LEMMA MovingKeepsInv ==
    ASSUME Inv, NEW e \in Ends, NEW next,
           \/ state[e] = "queued" /\ next = "greet"
           \/ state[e] = "register" /\ next = "read",
           state' = [state EXCEPT ![e] = next],
           UNCHANGED <<initialized, cancelled, wire, sends, issued, handled>>,
           connections' \in [Nodes -> [Nodes -> Ends \cup {NoConn}]],
           \A n, peer \in Nodes :
              \/ connections'[n][peer] = connections[n][peer]
              \/ /\ connections'[n][peer] = e /\ next = "read"
                 /\ n = Owner(e) /\ peer = Owner(Other(e))
    PROVE  Inv'
<1>1. /\ state \in [Ends -> {"none", "queued", "greet", "register", "read", "closed"}]
      /\ \A f \in Ends : state'[f] = IF f = e THEN next ELSE state[f]
  BY DEF Inv, TypeOK
<1>2. TypeOK'
  <2>1. state' \in [Ends -> {"none", "queued", "greet", "register", "read", "closed"}]
    BY <1>1
  <2>2. \A n, peer \in Nodes : connections'[n][peer] # NoConn =>
           /\ Owner(connections'[n][peer]) = n
           /\ Owner(Other(connections'[n][peer])) = peer
    BY DEF Inv, TypeOK
  <2>3. QED
    BY <2>1, <2>2 DEF Inv, TypeOK
<1>3. Established'
  <2>1. ASSUME NEW f \in Ends, state[f] \in {"read", "closed"}
        PROVE  state'[f] \in {"read", "closed"}
    BY <1>1, <2>1
  <2>2. \A s \in sends : s.end \in Ends /\ state[s.end] \in {"read", "closed"}
    BY DEF Inv, TypeOK, Send, Handshake, Established
  <2>3. \A n, peer \in Nodes : connections'[n][peer] # NoConn =>
           /\ connections'[n][peer] \in Ends
           /\ state'[connections'[n][peer]] \in {"read", "closed"}
    <3> SUFFICES ASSUME NEW n \in Nodes, NEW peer \in Nodes, connections'[n][peer] # NoConn
                 PROVE  /\ connections'[n][peer] \in Ends
                        /\ state'[connections'[n][peer]] \in {"read", "closed"}
      OBVIOUS
    <3>1. CASE connections'[n][peer] = connections[n][peer]
      <4>1. /\ connections[n][peer] \in Ends
            /\ state[connections[n][peer]] \in {"read", "closed"}
        BY <3>1 DEF Inv, TypeOK, Handshake, Established
      <4>2. QED
        BY <3>1, <4>1, <2>1
    <3>2. CASE connections'[n][peer] = e /\ next = "read"
      BY <3>2, <1>1
    <3>3. QED
      BY <3>1, <3>2
  <2>4. QED
    BY <2>1, <2>2, <2>3 DEF Established
<1>4. HelloIsFirst'
  BY <1>1 DEF Inv, Handshake, HelloIsFirst
<1>5. InStep'
  <2> SUFFICES ASSUME NEW f \in Ends, IsDialer(f)
               PROVE  /\ state'[f] = "none" <=> state'[Other(f)] = "none"
                      /\ state'[f] # "queued"
                      /\ state'[Other(f)] \in {"none", "queued", "greet"} =>
                            wire'[f] = <<>> /\ state'[f] \notin {"register", "read"}
                      /\ state'[f] = "greet" /\ state'[Other(f)] \in {"register", "read"} =>
                            wire'[f] # <<>>
    BY DEF InStep
  <2>1. /\ Other(f) \in Ends /\ Other(f) # f
        /\ state[f] = "none" <=> state[Other(f)] = "none"
        /\ state[f] # "queued"
        /\ state[Other(f)] \in {"none", "queued", "greet"} =>
              wire[f] = <<>> /\ state[f] \notin {"register", "read"}
        /\ state[f] = "greet" /\ state[Other(f)] \in {"register", "read"} => wire[f] # <<>>
    BY EndsPair DEF Inv, Handshake, InStep
  <2>2. QED
    BY <2>1, <1>1
<1>6. OneCopy'
  BY DEF Inv, OneCopy, Recipient
<1>7. QED
  BY <1>2, <1>3, <1>4, <1>5, <1>6 DEF Inv, Handshake

LEMMA AcceptKeepsInv == ASSUME Inv, NEW e \in Ends, acceptConnections(e) PROVE Inv'
<1>1. connections' \in [Nodes -> [Nodes -> Ends \cup {NoConn}]]
  BY DEF acceptConnections, Inv, TypeOK
<1>2. QED
  BY <1>1, MovingKeepsInv DEF acceptConnections

LEMMA RegisterKeepsInv == ASSUME Inv, NEW e \in Ends, Register(e) PROVE Inv'
<1>1. Owner(e) \in Nodes /\ Owner(Other(e)) \in Nodes
  BY EndsPair
<1>2. /\ connections \in [Nodes -> [Nodes -> Ends \cup {NoConn}]]
      /\ connections' = [connections EXCEPT ![Owner(e)][Owner(Other(e))] = e]
  BY DEF Register, Inv, TypeOK
<1>3. /\ connections' \in [Nodes -> [Nodes -> Ends \cup {NoConn}]]
      /\ \A n, peer \in Nodes : connections'[n][peer] =
            IF n = Owner(e) /\ peer = Owner(Other(e)) THEN e ELSE connections[n][peer]
  BY <1>1, <1>2
<1>4. QED
  BY <1>3, MovingKeepsInv DEF Register

\* What an end reads of its wire, and what the others keep.
LEMMA FirstLineRead ==
    ASSUME Inv, NEW e \in Ends, wire[e] # <<>>
    PROVE  /\ \A f \in Ends : wire[f] \in Seq(Line)
           /\ Tail(wire[e]) \in Seq(Line) /\ Len(Tail(wire[e])) = Len(wire[e]) - 1
           /\ \A i \in 1..Len(Tail(wire[e])) :
                 i + 1 \in 1..Len(wire[e]) /\ Tail(wire[e])[i] = wire[e][i + 1]
           /\ 1 \in 1..Len(wire[e]) /\ Head(wire[e]) = wire[e][1]
           /\ Head(wire[e]) \in Line /\ Len(wire[e]) \in Nat
<1>1. \A f \in Ends : wire[f] \in Seq(Line)
  BY DEF Inv, TypeOK, Line
<1>2. QED
  BY <1>1, Lines

LEMMA HandshakeKeepsInv ==
    ASSUME Inv, NEW e \in Ends, ReadHandshake(e), Head(wire[e]) = Hello
    PROVE  Inv' /\ NoNewMessages
<1> DEFINE answered == IF e[2] = "acceptor" THEN Written(e, Hello) ELSE wire
<1>1. /\ state[e] = "greet" /\ wire[e] # <<>>
      /\ state' = [state EXCEPT ![e] = "register"]
      /\ wire' = [answered EXCEPT ![e] = Tail(@)]
      /\ UNCHANGED <<initialized, cancelled, connections, sends, issued, handled>>
  BY DEF ReadHandshake
<1>2. /\ Other(e) \in Ends /\ Other(e) # e /\ Other(Other(e)) = e
      /\ IsDialer(Other(e)) <=> ~ IsDialer(e)
      /\ e[2] = "acceptor" <=> ~ IsDialer(e)
  BY EndsPair DEF Ends, IsDialer
<1>3. /\ state \in [Ends -> {"none", "queued", "greet", "register", "read", "closed"}]
      /\ wire \in [Ends -> Seq(Line)]
  BY DEF Inv, TypeOK, Line
<1>4. \A f \in Ends : state'[f] = IF f = e THEN "register" ELSE state[f]
  BY <1>1, <1>3
<1>5. ~ IsDialer(e) => /\ wire[Other(e)] = <<>>
                       /\ state[Other(e)] \in {"greet", "closed"}
  BY <1>1, <1>2, <1>3 DEF Inv, Handshake, InStep
<1>6. /\ answered \in [Ends -> Seq(Line)]
      /\ ~ IsDialer(e) /\ state[Other(e)] # "closed" =>
            Len(answered[Other(e)]) = 1 /\ answered[Other(e)][1] = Hello
      /\ IsDialer(e) \/ state[Other(e)] = "closed" => answered[Other(e)] = wire[Other(e)]
      /\ \A f \in Ends : f # Other(e) => answered[f] = wire[f]
  <2>1. CASE IsDialer(e)
    BY <2>1, <1>2, <1>3
  <2>2. CASE ~ IsDialer(e) /\ state[Other(e)] = "closed"
    BY <2>2, <1>2, <1>3 DEF Written
  <2>3. CASE ~ IsDialer(e) /\ state[Other(e)] # "closed"
    <3>1. answered = [wire EXCEPT ![Other(e)] = Append(@, Hello)]
      BY <2>3, <1>2 DEF Written
    <3>2. /\ Append(wire[Other(e)], Hello) \in Seq(Line)
          /\ Len(Append(wire[Other(e)], Hello)) = 1
          /\ Append(wire[Other(e)], Hello)[1] = Hello
      <4>1. Len(wire[Other(e)]) = 0 /\ wire[Other(e)] \in Seq(Line)
        BY <2>3, <1>2, <1>3, <1>5, EmptySeq
      <4>2. Hello \in Line
        BY DEF Line
      <4>3. QED
        BY <4>1, <4>2, LineAppended
    <3> HIDE DEF answered
    <3>3. QED
      BY <3>1, <3>2, <2>3, <1>2, <1>3
  <2>4. QED
    BY <2>1, <2>2, <2>3
<1> HIDE DEF answered
<1>7. /\ wire' \in [Ends -> Seq(Line)]
      /\ \A f \in Ends : wire'[f] = IF f = e THEN Tail(wire[e]) ELSE answered[f]
  BY <1>1, <1>2, <1>3, <1>6, FirstLineRead
<1>8. \A f \in Ends : \A i \in 1..Len(wire'[f]) :
         LET k == IF f = e THEN i + 1 ELSE i
         IN  \/ wire'[f][i] = Hello
             \/ k \in 1..Len(wire[f]) /\ wire'[f][i] = wire[f][k]
  <2> SUFFICES ASSUME NEW f \in Ends, NEW i \in 1..Len(wire'[f])
               PROVE  LET k == IF f = e THEN i + 1 ELSE i
                      IN  \/ wire'[f][i] = Hello
                          \/ k \in 1..Len(wire[f]) /\ wire'[f][i] = wire[f][k]
    OBVIOUS
  <2>1. CASE f = e
    BY <2>1, <1>1, <1>7, FirstLineRead
  <2>2. CASE f = Other(e)
    BY <2>2, <1>2, <1>6, <1>7
  <2>3. CASE f # e /\ f # Other(e)
    BY <2>3, <1>6, <1>7
  <2>4. QED
    BY <2>1, <2>2, <2>3
<1>9. TypeOK'
  <2>1. state' \in [Ends -> {"none", "queued", "greet", "register", "read", "closed"}]
    BY <1>1, <1>3
  <2>2. QED
    BY <2>1, <1>1, <1>7 DEF Inv, TypeOK, Line
<1>10. Established'
  <2>1. ASSUME NEW f \in Ends, state[f] \in {"read", "closed"}
        PROVE  state'[f] \in {"read", "closed"}
    BY <1>1, <1>4, <2>1
  <2>2. \A s \in sends : s.end \in Ends /\ state[s.end] \in {"read", "closed"}
    BY DEF Inv, TypeOK, Send, Handshake, Established
  <2>3. \A n, peer \in Nodes : connections[n][peer] # NoConn =>
           /\ connections[n][peer] \in Ends
           /\ state[connections[n][peer]] \in {"read", "closed"}
    BY DEF Inv, TypeOK, Handshake, Established
  <2>4. QED
    BY <1>1, <2>1, <2>2, <2>3 DEF Established
<1>11. HelloIsFirst'
  <2> SUFFICES ASSUME NEW f \in Ends
               PROVE  /\ state'[f] \in {"none", "closed"} => wire'[f] = <<>>
                      /\ \A i \in 1..Len(wire'[f]) :
                            wire'[f][i] = Hello <=> i = 1 /\ state'[f] \in {"queued", "greet"}
    BY DEF HelloIsFirst
  <2>1. /\ state[f] \in {"none", "closed"} => wire[f] = <<>>
        /\ \A i \in 1..Len(wire[f]) :
              wire[f][i] = Hello <=> i = 1 /\ state[f] \in {"queued", "greet"}
    BY DEF Inv, Handshake, HelloIsFirst
  <2>2. CASE f = e
    <3>1. wire'[e] = Tail(wire[e]) /\ state'[e] = "register"
      BY <1>4, <1>7
    <3>2. \A i \in 1..Len(Tail(wire[e])) :
             Tail(wire[e])[i] = wire[e][i + 1] /\ wire[e][i + 1] # Hello
      BY <2>1, <2>2, <1>1, FirstLineRead
    <3>3. QED
      BY <3>1, <3>2, <2>2
  <2>3. CASE f = Other(e) /\ ~ IsDialer(e) /\ state[f] # "closed"
    BY <2>3, <1>2, <1>4, <1>5, <1>6, <1>7
  <2>4. CASE f # e /\ (f # Other(e) \/ IsDialer(e) \/ state[f] = "closed")
    BY <2>1, <2>4, <1>4, <1>6, <1>7
  <2>5. QED
    BY <2>2, <2>3, <2>4, <1>2
<1>12. InStep'
  <2> SUFFICES ASSUME NEW f \in Ends, IsDialer(f)
               PROVE  /\ state'[f] = "none" <=> state'[Other(f)] = "none"
                      /\ state'[f] # "queued"
                      /\ state'[Other(f)] \in {"none", "queued", "greet"} =>
                            wire'[f] = <<>> /\ state'[f] \notin {"register", "read"}
                      /\ state'[f] = "greet" /\ state'[Other(f)] \in {"register", "read"} =>
                            wire'[f] # <<>>
    BY DEF InStep
  <2>1. /\ Other(f) \in Ends /\ Other(Other(f)) = f /\ Other(f) # f
        /\ state[f] = "none" <=> state[Other(f)] = "none"
        /\ state[f] # "queued"
        /\ state[Other(f)] \in {"none", "queued", "greet"} =>
              wire[f] = <<>> /\ state[f] \notin {"register", "read"}
        /\ state[f] = "greet" /\ state[Other(f)] \in {"register", "read"} => wire[f] # <<>>
    BY EndsPair DEF Inv, Handshake, InStep
  <2>2. CASE f = e
    BY <2>1, <2>2, <1>1, <1>4
  <2>3. CASE Other(f) = e
    <3>1. f = Other(e) /\ ~ IsDialer(e)
      BY <2>1, <2>3, <1>2
    <3>2. state[f] = "greet" => wire'[f] # <<>>
      <4>1. state[f] = "greet" => Len(wire'[f]) = 1
        BY <3>1, <1>2, <1>6, <1>7
      <4>2. QED
        BY <4>1, <1>7, Lines
    <3>3. /\ state'[e] = "register" /\ state'[f] = state[f]
          /\ state[f] \in {"greet", "closed"}
      BY <3>1, <1>2, <1>4, <1>5
    <3>4. QED
      BY <3>2, <3>3, <2>3
  <2>4. CASE f # e /\ Other(f) # e
    BY <2>1, <2>4, <1>2, <1>4, <1>6, <1>7
  <2>5. QED
    BY <2>2, <2>3, <2>4
<1>13. OneCopy'
  BY <1>1, <1>8, ReadingKeepsOneCopy
<1>14. NoNewMessages
  BY <1>8 DEF NoNewMessages
<1>15. QED
  BY <1>9, <1>10, <1>11, <1>12, <1>13, <1>14 DEF Inv, Handshake

\* What a reader finds is a message.
LEMMA ReadersFindMessages ==
    ASSUME Inv, NEW e \in Ends, state[e] = "read", wire[e] # <<>>
    PROVE  Head(wire[e]) \in Messages
<1>1. /\ 1 \in 1..Len(wire[e]) /\ Head(wire[e]) = wire[e][1]
      /\ Head(wire[e]) \in Line
  BY FirstLineRead
<1>2. wire[e][1] # Hello
  BY <1>1 DEF Inv, Handshake, HelloIsFirst
<1>3. QED
  BY <1>1, <1>2 DEF Line

LEMMA MessageKeepsInv ==
    ASSUME Inv, NEW e \in Ends, ReadMessage(e), Head(wire[e]) \notin Long
    PROVE  Inv'
<1>1. /\ state[e] = "read" /\ wire[e] # <<>>
      /\ handled' = handled \cup {[to |-> Owner(e), msg |-> Head(wire[e])]}
      /\ wire' = [wire EXCEPT ![e] = Tail(@)]
      /\ UNCHANGED <<initialized, cancelled, state, connections, sends, issued>>
  BY DEF ReadMessage
<1>2. /\ wire' \in [Ends -> Seq(Line)]
      /\ \A f \in Ends : wire'[f] = IF f = e THEN Tail(wire[e]) ELSE wire[f]
  <2>1. wire \in [Ends -> Seq(Line)] /\ Tail(wire[e]) \in Seq(Line)
    BY <1>1, FirstLineRead DEF Inv, TypeOK, Line
  <2>2. QED
    BY <1>1, <2>1
<1>3. TypeOK'
  <2>1. Head(wire[e]) \in Messages /\ Owner(e) \in Nodes
    BY <1>1, ReadersFindMessages, EndsPair
  <2>2. handled' \subseteq [to : Nodes, msg : Messages]
    BY <1>1, <2>1 DEF Inv, TypeOK
  <2>3. QED
    BY <1>1, <1>2, <2>2 DEF Inv, TypeOK, Line
<1>4. Established'
  BY <1>1 DEF Inv, Handshake, Established
<1>5. \A i \in 1..Len(Tail(wire[e])) :
         /\ i + 1 \in 1..Len(wire[e])
         /\ Tail(wire[e])[i] = wire[e][i + 1] /\ wire[e][i + 1] # Hello
  <2>1. \A i \in 1..Len(wire[e]) : wire[e][i] # Hello
    BY <1>1 DEF Inv, Handshake, HelloIsFirst
  <2>2. QED
    BY <2>1, <1>1, FirstLineRead
<1>6. HelloIsFirst'
  <2> SUFFICES ASSUME NEW f \in Ends
               PROVE  /\ state'[f] \in {"none", "closed"} => wire'[f] = <<>>
                      /\ \A i \in 1..Len(wire'[f]) :
                            wire'[f][i] = Hello <=> i = 1 /\ state'[f] \in {"queued", "greet"}
    BY DEF HelloIsFirst
  <2>1. CASE f = e
    BY <2>1, <1>1, <1>2, <1>5
  <2>2. CASE f # e
    BY <2>2, <1>1, <1>2 DEF Inv, Handshake, HelloIsFirst
  <2>3. QED
    BY <2>1, <2>2
<1>7. InStep'
  BY <1>1, <1>2, EndsPair DEF Inv, Handshake, InStep
<1>8. OneCopy'
  <2>1. \A f \in Ends : \A i \in 1..Len(wire'[f]) :
           LET k == IF f = e THEN i + 1 ELSE i
           IN  \/ wire'[f][i] = Hello
               \/ k \in 1..Len(wire[f]) /\ wire'[f][i] = wire[f][k]
    BY <1>2, <1>5
  <2>2. QED
    BY <1>1, <2>1, ReadingKeepsOneCopy
<1>9. QED
  BY <1>3, <1>4, <1>6, <1>7, <1>8 DEF Inv, Handshake

LEMMA WriteKeepsInv == ASSUME Inv, NEW s \in sends, Write(s) PROVE Inv'
<1> DEFINE r == Other(s.end)
<1>1. /\ s.end \in Ends /\ s.msg \in Messages /\ s.msg # Hello /\ s.msg \in issued
      /\ state[s.end] \in {"read", "closed"}
      /\ r \in Ends /\ r # s.end /\ Other(r) = s.end /\ Owner(r) = Recipient(s)
      /\ IsDialer(r) <=> ~ IsDialer(s.end)
  BY ConnectionsAssumption, EndsPair
     DEF Inv, TypeOK, Send, Handshake, Established, OneCopy, Recipient
<1>2. /\ sends' = sends \ {s}
      /\ UNCHANGED <<initialized, cancelled, state, connections, issued, handled>>
      /\ wire' = IF state[s.end] = "closed" THEN wire ELSE Written(s.end, s.msg)
  BY DEF Write
<1>3. wire \in [Ends -> Seq(Line)]
  BY DEF Inv, TypeOK, Line
<1>4. CASE wire' = wire
  <2>1. TypeOK' /\ Handshake'
    BY <1>2, <1>4 DEF Inv, TypeOK, Handshake, Established, HelloIsFirst, InStep
  <2>2. OneCopy'
    BY <1>2, <1>4 DEF Inv, OneCopy, Recipient
  <2>3. QED
    BY <2>1, <2>2 DEF Inv
<1>5. CASE state[s.end] = "read" /\ state[r] # "closed"
  <2>1. wire' = [wire EXCEPT ![r] = Append(@, s.msg)]
    BY <1>1, <1>2, <1>5 DEF Written
  <2>2. /\ Append(wire[r], s.msg) \in Seq(Line) /\ Append(wire[r], s.msg) # <<>>
        /\ Len(wire[r]) \in Nat /\ Len(Append(wire[r], s.msg)) = Len(wire[r]) + 1
        /\ \A i \in 1..Len(wire[r]) + 1 :
              Append(wire[r], s.msg)[i] = IF i = Len(wire[r]) + 1 THEN s.msg ELSE wire[r][i]
    BY <1>1, <1>3, LineAppended, Lines DEF Line
  <2> HIDE DEF r
  <2>3. /\ wire' \in [Ends -> Seq(Line)]
        /\ \A f \in Ends : wire'[f] = IF f = r THEN Append(wire[r], s.msg) ELSE wire[f]
    BY <2>1, <2>2, <1>1, <1>3
  <2>4. \A f \in Ends : \A i \in 1..Len(wire'[f]) :
           \/ f = r /\ i = Len(wire[r]) + 1 /\ wire'[f][i] = s.msg
           \/ i \in 1..Len(wire[f]) /\ wire'[f][i] = wire[f][i]
    BY <2>2, <2>3
  \* The other end is past its hello, or has it still before it.
  <2>5. /\ state[r] \in {"greet", "register", "read"}
        /\ state[r] = "greet" => wire[r] # <<>>
    <3>1. CASE IsDialer(r)
      <4>1. state[s.end] = "read" /\ Other(r) = s.end
        BY <1>1, <1>5
      <4>2. QED
        BY <1>1, <1>5, <4>1, <3>1 DEF Inv, Handshake, InStep, TypeOK
    <3>2. CASE IsDialer(s.end)
      <4>1. /\ state[r] \notin {"none", "queued", "greet"}
        BY <1>1, <1>5, <3>2 DEF Inv, Handshake, InStep, r
      <4>2. QED
        BY <1>1, <1>5, <4>1 DEF Inv, TypeOK
    <3>3. QED
      BY <1>1, <3>1, <3>2
  <2>6. TypeOK'
    BY <1>2, <2>3 DEF Inv, TypeOK, Line
  <2>7. Established'
    BY <1>2 DEF Inv, Handshake, Established
  <2>8. HelloIsFirst'
    <3> SUFFICES ASSUME NEW f \in Ends
                 PROVE  /\ state'[f] \in {"none", "closed"} => wire'[f] = <<>>
                        /\ \A i \in 1..Len(wire'[f]) :
                              wire'[f][i] = Hello <=> i = 1 /\ state'[f] \in {"queued", "greet"}
      BY DEF HelloIsFirst
    <3>1. /\ state[f] \in {"none", "closed"} => wire[f] = <<>>
          /\ \A i \in 1..Len(wire[f]) :
                wire[f][i] = Hello <=> i = 1 /\ state[f] \in {"queued", "greet"}
      BY DEF Inv, Handshake, HelloIsFirst
    <3>2. CASE f # r
      BY <3>1, <3>2, <1>2, <2>3
    <3>3. CASE f = r
      <4>1. /\ state[r] = "greet" => Len(wire[r]) # 0
            /\ Len(wire[r]) \in Nat /\ state[r] # "queued" /\ state'[r] = state[r]
        BY <2>5, <1>1, <1>2, <1>3, Lines
      <4>2. ASSUME NEW i \in 1..Len(wire'[f])
            PROVE  wire'[f][i] = Hello <=> i = 1 /\ state'[f] \in {"queued", "greet"}
        <5>1. CASE i = Len(wire[r]) + 1
          <6>1. i \notin 1..Len(wire[r])
            BY <5>1, <4>1
          <6>2. wire'[r][i] = s.msg /\ s.msg # Hello
            BY <6>1, <3>3, <2>4, <1>1
          <6>3. i = 1 => state'[r] \notin {"queued", "greet"}
            BY <5>1, <4>1
          <6>4. QED
            BY <6>2, <6>3, <3>3
        <5>2. CASE i \in 1..Len(wire[f])
          <6>1. i # Len(wire[r]) + 1
            BY <5>2, <3>3, <4>1
          <6>2. wire'[r][i] = wire[r][i]
            BY <6>1, <3>3, <2>4
          <6>3. QED
            BY <6>2, <5>2, <4>1, <3>1, <3>3
        <5>3. QED
          BY <5>1, <5>2, <2>4, <3>3
      <4>3. QED
        BY <4>2, <3>3, <2>5, <1>2
    <3>4. QED
      BY <3>2, <3>3
  <2>9. InStep'
    <3>1. \A f \in Ends : wire[f] # <<>> => wire'[f] # <<>>
      BY <2>2, <2>3
    <3>2. ASSUME NEW f \in Ends, IsDialer(f),
                 state[Other(f)] \in {"none", "queued", "greet"}
          PROVE  wire'[f] = <<>>
      <4>1. wire[f] = <<>> /\ state[f] \notin {"register", "read"}
        BY <3>2 DEF Inv, Handshake, InStep
      <4>2. f # r
        BY <1>1, <1>5, <3>2
      <4>3. QED
        BY <4>1, <4>2, <2>3
    <3>3. QED
      BY <1>2, <3>1, <3>2 DEF Inv, Handshake, InStep
  <2>10. OneCopy'
    <3>1. \A f \in Ends : \A i \in 1..Len(wire[f]) :
             Owner(f) = Recipient(s) => wire[f][i] # s.msg
      BY DEF Inv, OneCopy
    <3>2. \A t \in sends' : t \in sends /\ t # s
      BY <1>2
    <3>3. \A t \in sends', f \in Ends : Owner(f) = Recipient(t) =>
             \A i \in 1..Len(wire'[f]) : wire'[f][i] # t.msg
      <4> SUFFICES ASSUME NEW t \in sends', NEW f \in Ends, Owner(f) = Recipient(t),
                          NEW i \in 1..Len(wire'[f])
                   PROVE  wire'[f][i] # t.msg
        OBVIOUS
      <4>1. CASE f = r /\ wire'[f][i] = s.msg
        BY <4>1, <3>2, <1>1 DEF Inv, OneCopy
      <4>2. CASE i \in 1..Len(wire[f]) /\ wire'[f][i] = wire[f][i]
        BY <4>2, <3>2 DEF Inv, OneCopy
      <4>3. QED
        BY <4>1, <4>2, <2>4
    <3>4. \A f, g \in Ends : \A i \in 1..Len(wire'[f]), j \in 1..Len(wire'[g]) :
             Owner(f) = Owner(g) /\ wire'[f][i] = wire'[g][j] /\ wire'[f][i] # Hello =>
                f = g /\ i = j
      <4> SUFFICES ASSUME NEW f \in Ends, NEW g \in Ends,
                          NEW i \in 1..Len(wire'[f]), NEW j \in 1..Len(wire'[g]),
                          Owner(f) = Owner(g), wire'[f][i] = wire'[g][j], wire'[f][i] # Hello
                   PROVE  f = g /\ i = j
        OBVIOUS
      <4>1. CASE wire'[f][i] = s.msg /\ Owner(f) = Recipient(s)
        <5>1. ASSUME NEW h \in Ends, NEW k \in 1..Len(wire'[h]), wire'[h][k] = s.msg,
                     Owner(h) = Recipient(s)
              PROVE  h = r /\ k = Len(wire[r]) + 1
          BY <5>1, <2>4, <3>1
        <5>2. QED
          BY <5>1, <4>1
      <4>2. CASE wire'[f][i] # s.msg \/ Owner(f) # Recipient(s)
        <5>1. /\ i \in 1..Len(wire[f]) /\ wire'[f][i] = wire[f][i]
              /\ j \in 1..Len(wire[g]) /\ wire'[g][j] = wire[g][j]
          BY <4>2, <2>4, <1>1
        <5>2. \A a, b \in Ends : \A x \in 1..Len(wire[a]), y \in 1..Len(wire[b]) :
                 Owner(a) = Owner(b) /\ wire[a][x] = wire[b][y] /\ wire[a][x] # Hello =>
                    a = b /\ x = y
          BY DEF Inv, OneCopy
        <5>3. QED
          BY <5>1, <5>2
      <4>3. QED
        BY <4>1, <4>2
    <3>5. \A f \in Ends : \A i \in 1..Len(wire'[f]) : wire'[f][i] \in issued' \cup {Hello}
      BY <2>4, <1>1, <1>2 DEF Inv, OneCopy
    <3>6. /\ \A t \in sends' : t.msg \in issued'
          /\ \A t, u \in sends' : t.msg = u.msg /\ Recipient(t) = Recipient(u) => t = u
      BY <1>2 DEF Inv, OneCopy
    <3>7. QED
      BY <3>3, <3>4, <3>5, <3>6 DEF OneCopy, Recipient
  <2>11. QED
    BY <2>6, <2>7, <2>8, <2>9, <2>10 DEF Inv, Handshake
<1>6. QED
  BY <1>1, <1>2, <1>4, <1>5 DEF Written

\* A new message, for some of a process's registered connections.
LEMMA SendingKeepsInv ==
    ASSUME Inv, NEW n \in Nodes, NEW m \in Messages, m \notin issued, NEW new \in SUBSET Send,
           \A s \in new : s.msg = m /\ \E peer \in Nodes : connections[n][peer] = s.end,
           sends' = sends \cup new, issued' = issued \cup {m},
           UNCHANGED <<initialized, cancelled, state, wire, connections, handled>>
    PROVE  Inv'
<1>1. \A s \in new : /\ s.msg = m /\ s.end \in Ends
                     /\ connections[n][Recipient(s)] = s.end
                     /\ state[s.end] \in {"read", "closed"}
  <2> SUFFICES ASSUME NEW s \in new
               PROVE  /\ s.msg = m /\ s.end \in Ends
                      /\ connections[n][Recipient(s)] = s.end
                      /\ state[s.end] \in {"read", "closed"}
    OBVIOUS
  <2>1. PICK peer \in Nodes : connections[n][peer] = s.end
    OBVIOUS
  <2>2. s.end \in Ends /\ s.end # NoConn
    BY EndsPair DEF Send
  <2>3. Recipient(s) = peer /\ state[s.end] \in {"read", "closed"}
    BY <2>1, <2>2 DEF Inv, TypeOK, Recipient, Handshake, Established
  <2>4. QED
    BY <2>1, <2>2, <2>3
<1>2. TypeOK'
  BY DEF Inv, TypeOK
<1>3. Handshake'
  BY <1>1 DEF Inv, Handshake, Established, HelloIsFirst, InStep
<1>4. OneCopy'
  <2>1. \A s, t \in new : Recipient(s) = Recipient(t) => s = t
    <3>1. \A s \in new : s = [end |-> s.end, msg |-> s.msg]
      BY DEF Send
    <3>2. QED
      BY <3>1, <1>1
  <2>2. \A s \in sends : s.msg \in issued
    BY DEF Inv, OneCopy
  <2>3. \A s, t \in sends' : s.msg = t.msg /\ Recipient(s) = Recipient(t) => s = t
    BY <1>1, <2>1, <2>2 DEF Inv, OneCopy
  <2>4. \A e \in Ends : \A i \in 1..Len(wire[e]) : wire[e][i] # m
    BY ConnectionsAssumption DEF Inv, OneCopy
  <2>5. \A s \in sends', e \in Ends : Owner(e) = Recipient(s) =>
           \A i \in 1..Len(wire[e]) : wire[e][i] # s.msg
    BY <1>1, <2>4 DEF Inv, OneCopy
  <2>6. /\ \A s \in sends' : s.msg \in issued'
        /\ \A e \in Ends : \A i \in 1..Len(wire[e]) : wire[e][i] \in issued' \cup {Hello}
    BY <1>1 DEF Inv, OneCopy
  <2>7. wire' = wire
    OBVIOUS
  <2>8. QED
    BY <2>3, <2>5, <2>6, <2>7 DEF Inv, OneCopy, Recipient
<1>5. QED
  BY <1>2, <1>3, <1>4 DEF Inv

LEMMA BroadcastKeepsInv ==
    ASSUME Inv, NEW n \in Nodes, NEW m \in Messages, BroadcastMessage(n, m)
    PROVE  Inv'
<1> DEFINE new == {s \in Send : s.msg = m /\ \E peer \in Nodes : connections[n][peer] = s.end}
<1>1. /\ new \in SUBSET Send
      /\ \A s \in new : s.msg = m /\ \E peer \in Nodes : connections[n][peer] = s.end
  OBVIOUS
<1>2. /\ m \notin issued /\ sends' = sends \cup new /\ issued' = issued \cup {m}
      /\ UNCHANGED <<initialized, cancelled, state, wire, connections, handled>>
  BY DEF BroadcastMessage
<1> HIDE DEF new
<1>3. QED
  BY <1>1, <1>2, SendingKeepsInv

LEMMA SendToPeerKeepsInv ==
    ASSUME Inv, NEW n \in Nodes, NEW peer \in Nodes, NEW m \in Messages, SendToPeer(n, peer, m)
    PROVE  Inv'
<1> DEFINE new == {[end |-> connections[n][peer], msg |-> m]}
<1>1. connections[n][peer] \in Ends
  BY DEF SendToPeer, Inv, TypeOK
<1>2. /\ new \in SUBSET Send
      /\ \A s \in new : s.msg = m /\ \E q \in Nodes : connections[n][q] = s.end
  BY <1>1 DEF Send
<1>3. /\ m \notin issued /\ sends' = sends \cup new /\ issued' = issued \cup {m}
      /\ UNCHANGED <<initialized, cancelled, state, wire, connections, handled>>
  BY DEF SendToPeer
<1> HIDE DEF new
<1>4. QED
  BY <1>2, <1>3, SendingKeepsInv

LEMMA ShutdownKeepsInv == ASSUME Inv, NEW n \in Nodes, Shutdown(n) PROVE Inv'
<1> DEFINE E == {e \in Ends : Owner(e) = n /\ (state[e] = "queued" \/
                                  \E peer \in Nodes : connections[n][peer] = e)}
<1>1. \A e \in E : e \in Ends /\ state[e] # "none"
  BY EndsPair DEF Inv, Handshake, Established
<1>2. /\ connections' \in [Nodes -> [Nodes -> Ends \cup {NoConn}]]
      /\ \A m, peer \in Nodes : connections'[m][peer] \in {connections[m][peer], NoConn}
  BY DEF Shutdown, Inv, TypeOK
<1>3. initialized' \in [Nodes -> BOOLEAN] /\ cancelled' \in [Nodes -> BOOLEAN]
  BY DEF Shutdown, Inv, TypeOK
<1>4. Close(E) /\ UNCHANGED <<sends, issued, handled>>
  BY DEF Shutdown
<1>5. E \in SUBSET Ends
  OBVIOUS
<1> HIDE DEF E
<1>6. QED
  BY <1>1, <1>2, <1>3, <1>4, <1>5, ClosingKeepsInv

\* The steps that close one end.
LEMMA HangingUpKeepsInv ==
    ASSUME Inv, NEW e \in Ends, state[e] \in {"greet", "read"}, Close({e}),
           UNCHANGED <<initialized, cancelled, connections, sends, issued, handled>>
    PROVE  Inv'
<1>1. /\ {e} \in SUBSET Ends /\ \A f \in {e} : state[f] # "none"
      /\ connections' \in [Nodes -> [Nodes -> Ends \cup {NoConn}]]
      /\ initialized' \in [Nodes -> BOOLEAN] /\ cancelled' \in [Nodes -> BOOLEAN]
      /\ \A n, peer \in Nodes : connections'[n][peer] \in {connections[n][peer], NoConn}
  BY DEF Inv, TypeOK
<1>2. QED
  BY <1>1, ClosingKeepsInv

LEMMA InvStep == Inv /\ [Next]_vars => Inv'
<1> SUFFICES ASSUME Inv, [Next]_vars PROVE Inv'
  OBVIOUS
<1>1. ASSUME NEW n \in Nodes, Initialize(n) PROVE Inv'
  BY <1>1 DEF Initialize, Inv, TypeOK, Handshake, Established, HelloIsFirst, InStep,
              OneCopy, Recipient
<1>2. ASSUME NEW n \in Nodes, Shutdown(n) PROVE Inv'
  BY <1>2, ShutdownKeepsInv
<1>3. ASSUME NEW n \in Nodes, NEW m \in Messages, BroadcastMessage(n, m) PROVE Inv'
  BY <1>3, BroadcastKeepsInv
<1>4. ASSUME NEW n \in Nodes, NEW m \in Messages, NEW peer \in Nodes, SendToPeer(n, peer, m)
      PROVE  Inv'
  BY <1>4, SendToPeerKeepsInv
<1>5. ASSUME NEW d \in Dials, Dial(d) PROVE Inv'
  BY <1>5, DialKeepsInv
<1>6. ASSUME NEW e \in Ends, acceptConnections(e) PROVE Inv'
  BY <1>6, AcceptKeepsInv
<1>7. ASSUME NEW e \in Ends, ReadHandshake(e) PROVE Inv'
  <2>1. CASE Head(wire[e]) = Hello
    BY <2>1, <1>7, HandshakeKeepsInv
  <2>2. CASE Head(wire[e]) # Hello
    BY <2>2, <1>7, HangingUpKeepsInv DEF ReadHandshake
  <2>3. QED
    BY <2>1, <2>2
<1>8. ASSUME NEW e \in Ends, Register(e) PROVE Inv'
  BY <1>8, RegisterKeepsInv
<1>9. ASSUME NEW e \in Ends, ReadMessage(e) PROVE Inv'
  <2>1. CASE Head(wire[e]) \notin Long
    BY <2>1, <1>9, MessageKeepsInv
  <2>2. CASE Head(wire[e]) \in Long
    BY <2>2, <1>9, HangingUpKeepsInv DEF ReadMessage
  <2>3. QED
    BY <2>1, <2>2
<1>10. ASSUME NEW e \in Ends, EndOfStream(e) PROVE Inv'
  BY <1>10, HangingUpKeepsInv DEF EndOfStream
<1>11. ASSUME NEW e \in Ends, Reset(e) PROVE Inv'
  BY <1>11, HangingUpKeepsInv DEF Reset
<1>12. ASSUME NEW s \in sends, Write(s) PROVE Inv'
  BY <1>12, WriteKeepsInv
<1>13. CASE UNCHANGED vars
  BY <1>13 DEF vars, Inv, TypeOK, Handshake, Established, HelloIsFirst, InStep,
               OneCopy, Recipient
<1>14. QED
  BY <1>1, <1>2, <1>3, <1>4, <1>5, <1>6, <1>7, <1>8, <1>9, <1>10, <1>11, <1>12, <1>13
     DEF Next, Goroutine

THEOREM Invariant == Spec => []Inv
<1>1. QED
  BY InvInit, InvStep, PTL DEF Spec

(***************************************************************************)
(* Every reachable state is well typed, and a table of connections names   *)
(* under each peer only the process's own end of a connection with it.     *)
(***************************************************************************)
THEOREM ConnectionsTypeInvariant == Spec => []TypeOK
<1>1. Inv => TypeOK
  BY DEF Inv
<1>2. QED
  BY <1>1, Invariant, PTL

(***************************************************************************)
(* No message gets in front of a handshake, for any number of connections  *)
(* between any processes.                                                  *)
(***************************************************************************)
THEOREM NothingBeforeHello == Spec => []HelloComesFirst
<1>1. Inv => HelloComesFirst
  <2> SUFFICES ASSUME Inv, NEW e \in Ends, state[e] \in {"queued", "greet"}, wire[e] # <<>>
               PROVE  Head(wire[e]) = Hello
    BY DEF HelloComesFirst
  <2>1. 1 \in 1..Len(wire[e]) /\ Head(wire[e]) = wire[e][1]
    BY FirstLineRead
  <2>2. QED
    BY <2>1 DEF Inv, Handshake, HelloIsFirst
<1>2. QED
  BY <1>1, Invariant, PTL

-----------------------------------------------------------------------------
(***************************************************************************)
(* The refinement of Delivery: which copies are in flight.                 *)
(***************************************************************************)
Sending(copy) == \E s \in sends : Recipient(s) = copy.to /\ s.msg = copy.msg

OnAWire(copy) ==
    \E e \in Ends : Owner(e) = copy.to /\ \E i \in 1..Len(wire[e]) : wire[e][i] = copy.msg

CopiesInFlight ==
    /\ InFlight \subseteq Abstract!Copies
    /\ \A copy \in Abstract!Copies : copy \in InFlight <=> Sending(copy) \/ OnAWire(copy)

LEMMA InFlightIs == TypeOK => CopiesInFlight
<1> SUFFICES ASSUME TypeOK PROVE CopiesInFlight
  OBVIOUS
<1> DEFINE ofSends == {[to |-> Owner(Other(s.end)), msg |-> s.msg] : s \in sends}
           on(e) == {[to |-> Owner(e), msg |-> wire[e][i]] :
                        i \in {j \in DOMAIN wire[e] : wire[e][j] # Hello}}
<1>1. \A e \in Ends : wire[e] \in Seq(Line) /\ DOMAIN wire[e] = 1..Len(wire[e])
  BY LenProperties DEF TypeOK, Line
<1>2. \A e \in Ends : \A i \in 1..Len(wire[e]) : wire[e][i] # Hello => wire[e][i] \in Messages
  BY <1>1, Lines DEF Line
<1>3. InFlight = ofSends \cup UNION {on(e) : e \in Ends}
  BY DEF InFlight
<1>4. ofSends \subseteq Abstract!Copies
  BY EndsPair DEF TypeOK, Send, Abstract!Copies
<1>5. \A e \in Ends : on(e) \subseteq Abstract!Copies
  BY <1>1, <1>2, EndsPair DEF Abstract!Copies
<1>6. ASSUME NEW copy \in Abstract!Copies
      PROVE  copy \in ofSends <=> Sending(copy)
  <2>1. copy = [to |-> copy.to, msg |-> copy.msg]
    BY DEF Abstract!Copies
  <2>2. QED
    BY <2>1 DEF Sending, Recipient
<1>7. ASSUME NEW copy \in Abstract!Copies
      PROVE  (\E e \in Ends : copy \in on(e)) <=> OnAWire(copy)
  <2>1. copy = [to |-> copy.to, msg |-> copy.msg] /\ copy.msg # Hello
    BY ConnectionsAssumption DEF Abstract!Copies
  <2>2. ASSUME NEW e \in Ends
        PROVE  copy \in on(e) <=>
                  Owner(e) = copy.to /\ \E i \in 1..Len(wire[e]) : wire[e][i] = copy.msg
    BY <2>1, <1>1
  <2>3. QED
    BY <2>2 DEF OnAWire
<1> HIDE DEF ofSends, on
<1>8. QED
  BY <1>3, <1>4, <1>5, <1>6, <1>7 DEF CopiesInFlight

\* A step after which no copy is there that was not before.
LEMMA FewerCopies ==
    ASSUME Inv, Inv', UNCHANGED <<issued, handled>>,
           \A copy \in Abstract!Copies :
              Sending(copy)' \/ OnAWire(copy)' => Sending(copy) \/ OnAWire(copy)
    PROVE  Abstract!Next
<1>1. (TypeOK => CopiesInFlight)'
  BY InFlightIs, PTL
<1>2. InFlight' \subseteq InFlight
  BY <1>1, InFlightIs DEF CopiesInFlight, Inv
<1>3. QED
  BY <1>2 DEF Abstract!Next, Abstract!Lose

LEMMA NoNewCopies ==
    ASSUME Inv, Inv', UNCHANGED <<sends, issued, handled>>, NoNewMessages
    PROVE  Abstract!Next
<1> SUFFICES ASSUME NEW copy \in Abstract!Copies, Sending(copy)' \/ OnAWire(copy)'
             PROVE  Sending(copy) \/ OnAWire(copy)
  BY FewerCopies
<1>1. copy.msg # Hello
  BY ConnectionsAssumption DEF Abstract!Copies
<1>2. CASE Sending(copy)'
  BY <1>2 DEF Sending, Recipient
<1>3. CASE OnAWire(copy)'
  BY <1>1, <1>3 DEF OnAWire, NoNewMessages
<1>4. QED
  BY <1>2, <1>3

LEMMA ClosingLoses ==
    ASSUME Inv, Inv', NEW E \in SUBSET Ends, Close(E), UNCHANGED <<sends, issued, handled>>
    PROVE  Abstract!Next
<1>1. \A e \in Ends : wire'[e] = (IF e \in E THEN <<>> ELSE wire[e])
  BY DEF Close
<1>2. NoNewMessages
  BY <1>1, EmptySeq DEF NoNewMessages
<1>3. QED
  BY <1>2, NoNewCopies

LEMMA DialLoses == ASSUME Inv, Inv', NEW d \in Dials, Dial(d) PROVE Abstract!Next
<1> DEFINE r == Other(<<d, "dialer">>)
<1>1. wire' = [wire EXCEPT ![r] = <<Hello>>] /\ UNCHANGED <<sends, issued, handled>>
  BY DEF Dial
<1>2. \A e \in Ends : wire'[e] = (IF e = r THEN <<Hello>> ELSE wire[e])
  BY <1>1 DEF Inv, TypeOK
<1>3. Len(<<Hello>>) = 1 /\ <<Hello>>[1] = Hello
  OBVIOUS
<1>4. NoNewMessages
  BY <1>2, <1>3 DEF NoNewMessages
<1>5. QED
  BY <1>1, <1>4, NoNewCopies

LEMMA WriteLoses == ASSUME Inv, Inv', NEW s \in sends, Write(s) PROVE Abstract!Next
<1> DEFINE r == Other(s.end)
<1>1. s.end \in Ends /\ s.msg \in Messages /\ r \in Ends /\ Owner(r) = Recipient(s)
  BY EndsPair DEF Inv, TypeOK, Send, Recipient
<1>2. /\ sends' = sends \ {s} /\ UNCHANGED <<issued, handled>>
      /\ wire' = wire \/ wire' = [wire EXCEPT ![r] = Append(@, s.msg)]
  BY DEF Write, Written
<1>3. wire[r] \in Seq(Line) /\ s.msg \in Line /\ wire \in [Ends -> Seq(Line)]
  BY <1>1 DEF Inv, TypeOK, Line
<1> HIDE DEF r
<1>4. \A e \in Ends : \A i \in 1..Len(wire'[e]) :
         \/ e = r /\ wire'[e][i] = s.msg
         \/ i \in 1..Len(wire[e]) /\ wire'[e][i] = wire[e][i]
  <2>1. CASE wire' = wire
    BY <2>1
  <2>2. CASE wire' = [wire EXCEPT ![r] = Append(@, s.msg)]
    <3>1. \A e \in Ends : wire'[e] = (IF e = r THEN Append(wire[r], s.msg) ELSE wire[e])
      BY <2>2, <1>1, <1>3
    <3>2. /\ Len(wire[r]) \in Nat /\ Len(Append(wire[r], s.msg)) = Len(wire[r]) + 1
          /\ \A i \in 1..Len(wire[r]) + 1 :
                Append(wire[r], s.msg)[i] = IF i = Len(wire[r]) + 1 THEN s.msg ELSE wire[r][i]
      BY <1>3, LineAppended, Lines
    <3>3. \A i \in 1..Len(wire[r]) + 1 : i = Len(wire[r]) + 1 \/ i \in 1..Len(wire[r])
      BY <3>2
    <3>4. ASSUME NEW i \in 1..Len(wire'[r])
          PROVE  \/ wire'[r][i] = s.msg
                 \/ i \in 1..Len(wire[r]) /\ wire'[r][i] = wire[r][i]
      BY <3>1, <3>2, <3>3, <1>1
    <3>5. QED
      BY <3>1, <3>4
  <2>3. QED
    BY <2>1, <2>2, <1>2
<1>5. \A copy \in Abstract!Copies :
         Sending(copy)' \/ OnAWire(copy)' => Sending(copy) \/ OnAWire(copy)
  <2> SUFFICES ASSUME NEW copy \in Abstract!Copies, Sending(copy)' \/ OnAWire(copy)'
               PROVE  Sending(copy) \/ OnAWire(copy)
    OBVIOUS
  <2>1. CASE Sending(copy)'
    BY <2>1, <1>2 DEF Sending, Recipient
  <2>2. CASE OnAWire(copy)'
    BY <2>2, <1>1, <1>4 DEF OnAWire, Sending
  <2>3. QED
    BY <2>1, <2>2
<1>6. QED
  BY <1>2, <1>5, FewerCopies

\* A message that is handed to the handlers is on its way no more.
LEMMA MessageIsReceived ==
    ASSUME Inv, Inv', NEW e \in Ends, ReadMessage(e), Head(wire[e]) \notin Long
    PROVE  Abstract!Next
<1> DEFINE read == [to |-> Owner(e), msg |-> Head(wire[e])]
<1>1. /\ state[e] = "read" /\ wire[e] # <<>>
      /\ handled' = handled \cup {read}
      /\ wire' = [wire EXCEPT ![e] = Tail(@)]
      /\ UNCHANGED <<sends, issued>>
  BY DEF ReadMessage
<1>2. /\ Head(wire[e]) \in Messages /\ Head(wire[e]) # Hello
      /\ 1 \in 1..Len(wire[e]) /\ Head(wire[e]) = wire[e][1]
      /\ read \in Abstract!Copies
  BY <1>1, ReadersFindMessages, FirstLineRead, EndsPair, ConnectionsAssumption
     DEF Abstract!Copies
<1>3. \A f \in Ends : wire'[f] = IF f = e THEN Tail(wire[e]) ELSE wire[f]
  BY <1>1 DEF Inv, TypeOK
<1>4. /\ Len(wire[e]) \in Nat /\ Len(Tail(wire[e])) = Len(wire[e]) - 1
      /\ \A i \in 1..Len(Tail(wire[e])) :
            i + 1 \in 1..Len(wire[e]) /\ Tail(wire[e])[i] = wire[e][i + 1]
  BY <1>1, FirstLineRead
<1>5. ASSUME NEW copy \in Abstract!Copies
      PROVE  Sending(copy)' \/ OnAWire(copy)' <=>
                (Sending(copy) \/ OnAWire(copy)) /\ copy # read
  <2>1. Sending(copy)' <=> Sending(copy)
    BY <1>1 DEF Sending, Recipient
  <2>2. Sending(copy) => copy # read
    BY <1>2 DEF Sending, Inv, OneCopy
  <2>3. ASSUME OnAWire(copy)' PROVE OnAWire(copy) /\ copy # read
    <3>1. PICK f \in Ends : /\ Owner(f) = copy.to
                            /\ \E i \in 1..Len(wire'[f]) : wire'[f][i] = copy.msg
      BY <2>3 DEF OnAWire
    <3>2. PICK i \in 1..Len(wire'[f]) : wire'[f][i] = copy.msg
      BY <3>1
    <3>3. PICK k \in 1..Len(wire[f]) : wire[f][k] = copy.msg /\ (f = e => k # 1)
      <4>1. CASE f = e
        <5>1. /\ i + 1 \in 1..Len(wire[e]) /\ wire[e][i + 1] = copy.msg
          BY <4>1, <3>2, <1>3, <1>4
        <5>2. i + 1 # 1
          BY <4>1, <1>3, <1>4
        <5>3. QED
          BY <4>1, <5>1, <5>2
      <4>2. CASE f # e
        BY <4>2, <3>2, <1>3
      <4>3. QED
        BY <4>1, <4>2
    <3>4. copy = read => f = e /\ k = 1
      <4>1. \A a, b \in Ends : \A x \in 1..Len(wire[a]), y \in 1..Len(wire[b]) :
               Owner(a) = Owner(b) /\ wire[a][x] = wire[b][y] /\ wire[a][x] # Hello =>
                  a = b /\ x = y
        BY DEF Inv, OneCopy
      <4>2. copy = read => Owner(f) = Owner(e) /\ wire[f][k] = wire[e][1] /\ wire[f][k] # Hello
        BY <3>1, <3>3, <1>2
      <4>3. QED
        BY <4>1, <4>2, <1>2
    <3>5. QED
      BY <3>1, <3>3, <3>4 DEF OnAWire
  <2>4. ASSUME OnAWire(copy), copy # read PROVE OnAWire(copy)'
    <3>0. PICK f \in Ends : Owner(f) = copy.to /\ \E k \in 1..Len(wire[f]) : wire[f][k] = copy.msg
      BY <2>4 DEF OnAWire
    <3>1. PICK k \in 1..Len(wire[f]) : Owner(f) = copy.to /\ wire[f][k] = copy.msg
      BY <3>0
    <3>2. f = e => k # 1
      BY <3>1, <2>4, <1>2 DEF Abstract!Copies
    <3>3. \E i \in 1..Len(wire'[f]) : wire'[f][i] = copy.msg
      <4>1. CASE f = e
        <5>1. wire'[f] = Tail(wire[e])
          BY <4>1, <1>3
        <5>2. k - 1 \in 1..Len(Tail(wire[e])) /\ (k - 1) + 1 = k
          BY <4>1, <3>2, <1>4
        <5>3. Tail(wire[e])[k - 1] = wire[e][k]
          BY <5>2, <1>4
        <5>4. QED
          BY <5>1, <5>2, <5>3, <4>1, <3>1
      <4>2. CASE f # e
        BY <4>2, <3>1, <1>3
      <4>3. QED
        BY <4>1, <4>2
    <3>4. QED
      BY <3>1, <3>3 DEF OnAWire
  <2>5. QED
    BY <2>1, <2>2, <2>3, <2>4
<1>6. read \in InFlight
  BY <1>2, InFlightIs DEF CopiesInFlight, OnAWire, Inv
<1>7. InFlight' = InFlight \ {read}
  <2>1. (TypeOK => CopiesInFlight)'
    BY InFlightIs, PTL
  <2> HIDE DEF read
  <2>2. QED
    BY <2>1, <1>5, InFlightIs DEF CopiesInFlight, Inv
<1>8. QED
  BY <1>1, <1>2, <1>6, <1>7 DEF Abstract!Next, Abstract!Receive

\* A broadcast, or a message to one peer, is sent to those it gets goroutines for.
LEMMA SendingSends ==
    ASSUME Inv, Inv', NEW m \in Messages, m \notin issued, NEW new \in SUBSET Send,
           \A s \in new : s.msg = m,
           sends' = sends \cup new, issued' = issued \cup {m}, UNCHANGED <<wire, handled>>
    PROVE  Abstract!Next
<1> DEFINE to == {Recipient(s) : s \in new}
<1>1. to \in SUBSET Nodes
  BY EndsPair DEF Send, Recipient
<1>2. ASSUME NEW copy \in Abstract!Copies
      PROVE  Sending(copy)' \/ OnAWire(copy)' <=>
                (Sending(copy) \/ OnAWire(copy)) \/ copy \in [to : to, msg : {m}]
  <2>1. OnAWire(copy)' <=> OnAWire(copy)
    BY DEF OnAWire
  <2>2. Sending(copy)' <=> Sending(copy) \/ \E s \in new : Recipient(s) = copy.to /\ s.msg = copy.msg
    BY DEF Sending, Recipient
  <2>3. (\E s \in new : Recipient(s) = copy.to /\ s.msg = copy.msg) <=>
           copy.to \in to /\ copy.msg = m
    OBVIOUS
  <2> HIDE DEF to
  <2>4. copy \in [to : to, msg : {m}] <=> copy.to \in to /\ copy.msg = m
    BY DEF Abstract!Copies
  <2>5. QED
    BY <2>1, <2>2, <2>3, <2>4
<1> HIDE DEF to
<1>3. [to : to, msg : {m}] \subseteq Abstract!Copies
  BY <1>1 DEF Abstract!Copies
<1>4. (TypeOK => CopiesInFlight)'
  BY InFlightIs, PTL
<1>5. InFlight' = InFlight \cup [to : to, msg : {m}]
  BY <1>2, <1>3, <1>4, InFlightIs DEF CopiesInFlight, Inv
<1>6. Abstract!Send(m)
  BY <1>1, <1>5 DEF Abstract!Send
<1>7. QED
  BY <1>6 DEF Abstract!Next

LEMMA SameCopies ==
    ASSUME Inv, Inv', UNCHANGED <<wire, sends, issued, handled>>
    PROVE  Abstract!Next
<1>1. NoNewMessages
  BY DEF NoNewMessages
<1>2. QED
  BY <1>1, NoNewCopies

LEMMA StepImplements == Inv /\ Inv' /\ [Next]_vars => Abstract!Next
<1> SUFFICES ASSUME Inv, Inv', [Next]_vars PROVE Abstract!Next
  OBVIOUS
<1>1. ASSUME NEW n \in Nodes, Initialize(n) PROVE Abstract!Next
  BY <1>1, SameCopies DEF Initialize
<1>2. ASSUME NEW n \in Nodes, Shutdown(n) PROVE Abstract!Next
  <2> DEFINE E == {e \in Ends : Owner(e) = n /\ (state[e] = "queued" \/
                                    \E peer \in Nodes : connections[n][peer] = e)}
  <2>1. Close(E) /\ UNCHANGED <<sends, issued, handled>>
    BY <1>2 DEF Shutdown
  <2>2. E \in SUBSET Ends
    OBVIOUS
  <2> HIDE DEF E
  <2>3. QED
    BY <2>1, <2>2, ClosingLoses
<1>3. ASSUME NEW n \in Nodes, NEW m \in Messages, BroadcastMessage(n, m) PROVE Abstract!Next
  <2> DEFINE new == {s \in Send : s.msg = m /\ \E peer \in Nodes : connections[n][peer] = s.end}
  <2>1. new \in SUBSET Send /\ \A s \in new : s.msg = m
    OBVIOUS
  <2>2. /\ m \notin issued /\ sends' = sends \cup new /\ issued' = issued \cup {m}
        /\ UNCHANGED <<wire, handled>>
    BY <1>3 DEF BroadcastMessage
  <2> HIDE DEF new
  <2>3. QED
    BY <2>1, <2>2, SendingSends
<1>4. ASSUME NEW n \in Nodes, NEW m \in Messages, NEW peer \in Nodes, SendToPeer(n, peer, m)
      PROVE  Abstract!Next
  <2> DEFINE new == {[end |-> connections[n][peer], msg |-> m]}
  <2>1. connections[n][peer] \in Ends
    BY <1>4 DEF SendToPeer, Inv, TypeOK
  <2>2. new \in SUBSET Send /\ \A s \in new : s.msg = m
    BY <2>1 DEF Send
  <2>3. /\ m \notin issued /\ sends' = sends \cup new /\ issued' = issued \cup {m}
        /\ UNCHANGED <<wire, handled>>
    BY <1>4 DEF SendToPeer
  <2> HIDE DEF new
  <2>4. QED
    BY <2>2, <2>3, SendingSends
<1>5. ASSUME NEW d \in Dials, Dial(d) PROVE Abstract!Next
  BY <1>5, DialLoses
<1>6. ASSUME NEW e \in Ends, acceptConnections(e) PROVE Abstract!Next
  BY <1>6, SameCopies DEF acceptConnections
<1>7. ASSUME NEW e \in Ends, ReadHandshake(e) PROVE Abstract!Next
  <2>1. CASE Head(wire[e]) = Hello
    BY <2>1, <1>7, HandshakeKeepsInv, NoNewCopies DEF ReadHandshake
  <2>2. CASE Head(wire[e]) # Hello
    BY <2>2, <1>7, ClosingLoses DEF ReadHandshake
  <2>3. QED
    BY <2>1, <2>2
<1>8. ASSUME NEW e \in Ends, Register(e) PROVE Abstract!Next
  BY <1>8, SameCopies DEF Register
<1>9. ASSUME NEW e \in Ends, ReadMessage(e) PROVE Abstract!Next
  <2>1. CASE Head(wire[e]) \notin Long
    BY <2>1, <1>9, MessageIsReceived
  <2>2. CASE Head(wire[e]) \in Long
    BY <2>2, <1>9, ClosingLoses DEF ReadMessage
  <2>3. QED
    BY <2>1, <2>2
<1>10. ASSUME NEW e \in Ends, EndOfStream(e) PROVE Abstract!Next
  BY <1>10, ClosingLoses DEF EndOfStream
<1>11. ASSUME NEW e \in Ends, Reset(e) PROVE Abstract!Next
  BY <1>11, ClosingLoses DEF Reset
<1>12. ASSUME NEW s \in sends, Write(s) PROVE Abstract!Next
  BY <1>12, WriteLoses
<1>13. CASE UNCHANGED vars
  BY <1>13, SameCopies DEF vars
<1>14. QED
  BY <1>1, <1>2, <1>3, <1>4, <1>5, <1>6, <1>7, <1>8, <1>9, <1>10, <1>11, <1>12, <1>13
     DEF Next, Goroutine

(***************************************************************************)
(* However many connections there are between two processes, and whichever *)
(* of them are registered or fail, a message that is broadcast is handled  *)
(* once by a peer or not at all: Connections implements Delivery.          *)
(***************************************************************************)
THEOREM DeliversOnce == Spec => ImplementsDelivery
<1>1. Init => Abstract!Init
  <2> SUFFICES ASSUME Init PROVE Abstract!Init
    OBVIOUS
  <2>1. CopiesInFlight
    BY InvInit, InFlightIs DEF Inv
  <2>2. \A e \in Ends : wire[e] = <<>> /\ Len(wire[e]) = 0
    BY EmptySeq DEF Init
  <2>3. \A copy \in Abstract!Copies : ~ Sending(copy) /\ ~ OnAWire(copy)
    BY <2>2 DEF Init, Sending, OnAWire
  <2>4. InFlight = {}
    BY <2>1, <2>3 DEF CopiesInFlight
  <2>5. QED
    BY <2>4 DEF Init, Abstract!Init
<1>2. Inv /\ Inv' /\ [Next]_vars => [Abstract!Next]_(Abstract!vars)
  BY StepImplements
<1>3. QED
  BY <1>1, <1>2, Invariant, PTL DEF Spec, ImplementsDelivery, Abstract!Spec
=============================================================================
