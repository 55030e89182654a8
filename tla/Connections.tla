---------------------------- MODULE Connections ----------------------------
(***************************************************************************)
(* internal/network/network_manager.go: the TCP connections of the network *)
(* managers, their handshake, and how messages go over them.               *)
(*                                                                         *)
(* A process that joins a network dials the addresses it is given.  Both   *)
(* sides say hello, register the connection under the peer ID they read,   *)
(* replacing an older one, and then read messages, a line each, until the  *)
(* stream ends.  A broadcast writes to the registered connections, by a    *)
(* goroutine each.  Nothing but Shutdown and a newer connection takes a    *)
(* connection out of the table.                                            *)
(*                                                                         *)
(* A connection is named by who dials whom, once for each pair in Dials,   *)
(* and has two ends; wire[e] holds the lines that end e has still to read, *)
(* in order.  TCP may fail an end at any time (Reset).                     *)
(***************************************************************************)
EXTENDS Naturals, Sequences

CONSTANTS Nodes,       \* processes, which are their peer IDs too
          Dials,       \* pairs of a process and a process it dials
          Messages,    \* what is broadcast
          Long,        \* those longer than the scanner's buffer
          Stoppers,    \* processes that call Shutdown
          Resets,      \* whether TCP connections may fail
          Hello,       \* the line of a handshake
          NoConn       \* no entry in a table

ASSUME ConnectionsAssumption ==
    /\ Dials \subseteq Nodes \X Nodes
    /\ Long \subseteq Messages /\ Hello \notin Messages
    /\ Stoppers \subseteq Nodes
    /\ Resets \in BOOLEAN
    /\ NoConn \notin Dials \X {"dialer", "acceptor"}

VARIABLES initialized, \* the listener is open
          cancelled,   \* ctx has been cancelled
          state,       \* where the goroutine of an end is
          wire,        \* lines an end has still to read
          connections, \* the table: a process's end of a connection per peer
          sends,       \* goroutines of broadcasts that have still to write
          issued,      \* history: messages that have been broadcast
          handled      \* history: messages handed to a process's handlers

vars == <<initialized, cancelled, state, wire, connections, sends, issued, handled>>

Ends == Dials \X {"dialer", "acceptor"}

Other(e) == <<e[1], IF e[2] = "dialer" THEN "acceptor" ELSE "dialer">>

Owner(e) == IF e[2] = "dialer" THEN e[1][1] ELSE e[1][2]

Send == [end : Ends, msg : Messages]

Init ==
    /\ initialized = [n \in Nodes |-> FALSE]
    /\ cancelled   = [n \in Nodes |-> FALSE]
    /\ state       = [e \in Ends |-> "none"]
    /\ wire        = [e \in Ends |-> <<>>]
    /\ connections = [n \in Nodes |-> [peer \in Nodes |-> NoConn]]
    /\ sends       = {}
    /\ issued      = {}
    /\ handled     = {}

\* The wires once a line has been written on end e; nobody reads it any more
\* when the other end is closed.
Written(e, line) ==
    IF state[Other(e)] = "closed" THEN wire ELSE [wire EXCEPT ![Other(e)] = Append(@, line)]

\* The effect of closing the ends E: what they have not read is lost.
Close(E) ==
    /\ state' = [e \in Ends |-> IF e \in E THEN "closed" ELSE state[e]]
    /\ wire'  = [e \in Ends |-> IF e \in E THEN <<>> ELSE wire[e]]

-----------------------------------------------------------------------------
\* By CreateNetwork or JoinNetwork, or for its own sake.
Initialize(n) ==
    /\ ~ initialized[n]
    /\ initialized' = [initialized EXCEPT ![n] = TRUE]
    /\ UNCHANGED <<cancelled, state, wire, connections, sends, issued, handled>>

\* The accept loop of a listener ends at once when ctx is cancelled already.
Deaf(n) == initialized[n] /\ cancelled[n]

\* connectToPeer, in a goroutine of JoinNetwork: it may come after Shutdown.
Dial(d) ==
    LET e == <<d, "dialer">>
    IN  /\ initialized[d[1]] \/ cancelled[d[1]]
        /\ initialized[d[2]]
        /\ state[e] = "none"
        /\ state' = [state EXCEPT ![e] = "greet", ![Other(e)] = "queued"]
        /\ wire'  = [wire EXCEPT ![Other(e)] = <<Hello>>]
        /\ UNCHANGED <<initialized, cancelled, connections, sends, issued, handled>>

acceptConnections(e) ==
    /\ state[e] = "queued"
    /\ initialized[Owner(e)] /\ ~ cancelled[Owner(e)]
    /\ state' = [state EXCEPT ![e] = "greet"]
    /\ UNCHANGED <<initialized, cancelled, wire, connections, sends, issued, handled>>

\* Mutant: the acceptor registers the connection before it says hello.
RegisterFirst(e) ==
    /\ state[e] = "greet" /\ wire[e] # <<>>
    /\ IF Head(wire[e]) # Hello THEN Close({e}) /\ UNCHANGED connections
       ELSE IF e[2] = "acceptor" /\ connections[Owner(e)][Owner(Other(e))] # e
       THEN /\ connections' = [connections EXCEPT ![Owner(e)][Owner(Other(e))] = e]
            /\ UNCHANGED <<state, wire>>
       ELSE /\ state' = [state EXCEPT ![e] = "register"]
            /\ wire'  = [IF e[2] = "acceptor" THEN Written(e, Hello) ELSE wire
                         EXCEPT ![e] = Tail(@)]
            /\ UNCHANGED connections
    /\ UNCHANGED <<initialized, cancelled, sends, issued, handled>>

\* Mutant: no answer on a second connection with the same peer.
AnswerOnce(e) ==
    /\ state[e] = "greet" /\ wire[e] # <<>>
    /\ IF Head(wire[e]) # Hello THEN Close({e})
       ELSE /\ state' = [state EXCEPT ![e] = "register"]
            /\ wire'  = [IF e[2] = "acceptor" /\ connections[Owner(e)][Owner(Other(e))] = NoConn
                         THEN Written(e, Hello) ELSE wire
                         EXCEPT ![e] = Tail(@)]
    /\ UNCHANGED <<initialized, cancelled, connections, sends, issued, handled>>

\* The first line must be a hello; the acceptor answers it.
ReadHandshake(e) ==
    /\ state[e] = "greet" /\ wire[e] # <<>>
    /\ IF Head(wire[e]) # Hello THEN Close({e})
       ELSE /\ state' = [state EXCEPT ![e] = "register"]
            /\ wire'  = [IF e[2] = "acceptor" THEN Written(e, Hello) ELSE wire
                         EXCEPT ![e] = Tail(@)]
    /\ UNCHANGED <<initialized, cancelled, connections, sends, issued, handled>>

Register(e) ==
    /\ state[e] = "register"
    /\ connections' = [connections EXCEPT ![Owner(e)][Owner(Other(e))] = e]
    /\ state'       = [state EXCEPT ![e] = "read"]
    /\ UNCHANGED <<initialized, cancelled, wire, sends, issued, handled>>

\* Mutant: the goroutine ends and leaves the connection open.
StopReading(e) ==
    /\ state[e] = "read" /\ wire[e] # <<>>
    /\ IF Head(wire[e]) \in Long
       THEN state' = [state EXCEPT ![e] = "left"] /\ UNCHANGED <<wire, handled>>
       ELSE /\ handled' = handled \cup {[to |-> Owner(e), msg |-> Head(wire[e])]}
            /\ wire'    = [wire EXCEPT ![e] = Tail(@)]
            /\ UNCHANGED state
    /\ UNCHANGED <<initialized, cancelled, connections, sends, issued>>

\* A line that does not fit into the scanner's buffer ends the stream; any
\* other goes to the handlers.
ReadMessage(e) ==
    /\ state[e] = "read" /\ wire[e] # <<>>
    /\ IF Head(wire[e]) \in Long THEN Close({e}) /\ UNCHANGED handled
       ELSE /\ handled' = handled \cup {[to |-> Owner(e), msg |-> Head(wire[e])]}
            /\ wire'    = [wire EXCEPT ![e] = Tail(@)]
            /\ UNCHANGED state
    /\ UNCHANGED <<initialized, cancelled, connections, sends, issued>>

EndOfStream(e) ==
    /\ state[e] \in {"greet", "read"}
    /\ wire[e] = <<>> /\ state[Other(e)] = "closed"
    /\ Close({e})
    /\ UNCHANGED <<initialized, cancelled, connections, sends, issued, handled>>

\* TCP gives up, and what the end has not read is lost.
Reset(e) ==
    /\ Resets
    /\ state[e] \in {"greet", "read"}
    /\ Close({e})
    /\ UNCHANGED <<initialized, cancelled, connections, sends, issued, handled>>

-----------------------------------------------------------------------------
\* Mutant: on every connection there is, registered or not.
BroadcastOnAll(n, m) ==
    /\ initialized[n]
    /\ m \notin issued
    /\ sends'  = sends \cup {s \in Send : s.msg = m /\ Owner(s.end) = n /\ state[s.end] = "read"}
    /\ issued' = issued \cup {m}
    /\ UNCHANGED <<initialized, cancelled, state, wire, connections, handled>>

BroadcastMessage(n, m) ==
    /\ initialized[n]
    /\ m \notin issued
    /\ sends'  = sends \cup {s \in Send : s.msg = m /\ \E peer \in Nodes : connections[n][peer] = s.end}
    /\ issued' = issued \cup {m}
    /\ UNCHANGED <<initialized, cancelled, state, wire, connections, handled>>

\* To one peer, without a goroutine; the caller waits for the write.
SendToPeer(n, peer, m) ==
    /\ initialized[n]
    /\ m \notin issued
    /\ connections[n][peer] # NoConn
    /\ sends'  = sends \cup {[end |-> connections[n][peer], msg |-> m]}
    /\ issued' = issued \cup {m}
    /\ UNCHANGED <<initialized, cancelled, state, wire, connections, handled>>

\* Writing on an end that this side has closed fails, and nobody tries again.
Write(s) ==
    /\ s \in sends
    /\ sends' = sends \ {s}
    /\ wire'  = IF state[s.end] = "closed" THEN wire ELSE Written(s.end, s.msg)
    /\ UNCHANGED <<initialized, cancelled, state, connections, issued, handled>>

\* Closes the listener, with what waits in its backlog, and the connections
\* of the table, but none that is not there (yet, or any more).
Shutdown(n) ==
    /\ n \in Stoppers
    /\ initialized' = [initialized EXCEPT ![n] = FALSE]
    /\ cancelled'   = [cancelled EXCEPT ![n] = TRUE]
    /\ connections' = [connections EXCEPT ![n] = [peer \in Nodes |-> NoConn]]
    /\ Close({e \in Ends : Owner(e) = n /\ (state[e] = "queued" \/ \E peer \in Nodes : connections[n][peer] = e)})
    /\ UNCHANGED <<sends, issued, handled>>

-----------------------------------------------------------------------------
Goroutine(e) == acceptConnections(e) \/ ReadHandshake(e) \/ Register(e)
                \/ ReadMessage(e) \/ EndOfStream(e)

Next ==
    \/ \E n \in Nodes : Initialize(n) \/ Shutdown(n)
    \/ \E n \in Nodes, m \in Messages :
          BroadcastMessage(n, m) \/ \E peer \in Nodes : SendToPeer(n, peer, m)
    \/ \E d \in Dials : Dial(d)
    \/ \E e \in Ends : Goroutine(e) \/ Reset(e)
    \/ \E s \in sends : Write(s)

Spec == Init /\ [][Next]_vars

(***************************************************************************)
(* Goroutines run, and TCP carries what is written.                        *)
(***************************************************************************)
FairSpec == Spec /\ (\A e \in Ends : WF_vars(Goroutine(e)))
                 /\ (\A s \in Send : WF_vars(Write(s)))

-----------------------------------------------------------------------------
(***************************************************************************)
(* Properties.                                                             *)
(***************************************************************************)
TypeOK ==
    /\ initialized \in [Nodes -> BOOLEAN]
    /\ cancelled   \in [Nodes -> BOOLEAN]
    /\ state       \in [Ends -> {"none", "queued", "greet", "register", "read", "closed"}]
    /\ wire        \in [Ends -> Seq(Messages \cup {Hello})]
    /\ connections \in [Nodes -> [Nodes -> Ends \cup {NoConn}]]
    /\ sends \subseteq Send
    /\ issued \subseteq Messages
    /\ handled \subseteq [to : Nodes, msg : Messages]
    /\ \A n, peer \in Nodes : connections[n][peer] # NoConn =>
          Owner(connections[n][peer]) = n /\ Owner(Other(connections[n][peer])) = peer

(***************************************************************************)
(* A side that waits for a hello is not sent anything before it: messages  *)
(* of broadcasts cannot get in front of a handshake and end it.            *)
(***************************************************************************)
HelloComesFirst ==
    \A e \in Ends : state[e] \in {"queued", "greet"} /\ wire[e] # <<>> => Head(wire[e]) = Hello

(***************************************************************************)
(* Connections deliver messages as Delivery promises: however many there   *)
(* are between two processes, and whichever of them are registered, a      *)
(* broadcast is handled once by a peer, or not at all.                     *)
(***************************************************************************)
InFlight ==
    {[to |-> Owner(Other(s.end)), msg |-> s.msg] : s \in sends} \cup
    UNION {{[to |-> Owner(e), msg |-> wire[e][i]] :
               i \in {j \in DOMAIN wire[e] : wire[e][j] # Hello}} : e \in Ends}

Abstract == INSTANCE Delivery WITH sent <- issued, inFlight <- InFlight, received <- handled

ImplementsDelivery == Abstract!Spec

(***************************************************************************)
(* Nobody waits for a hello for ever, unless the listener dialled is one   *)
(* that was opened after Shutdown, which accepts nothing.                  *)
(***************************************************************************)
HandshakesEnd ==
    \A e \in Ends :
        state[e] \in {"queued", "greet"} ~>
            state[e] \notin {"queued", "greet"} \/ Deaf(e[1][2])

(***************************************************************************)
(* What is broadcast on a connection is handled by the peer, unless a side *)
(* closes the connection.                                                  *)
(***************************************************************************)
BroadcastsArrive ==
    \A s \in Send :
        s \in sends ~> \/ [to |-> Owner(Other(s.end)), msg |-> s.msg] \in handled
                       \/ "closed" \in {state[s.end], state[Other(s.end)]}
=============================================================================
