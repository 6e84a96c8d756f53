---------------------------- MODULE PeerService ----------------------------
(***************************************************************************)
(* One node of the peer-to-peer network: p2p::Service (src/p2p/service.cpp *)
(* and service.hpp) with its SessionManager, its PeerManager and the       *)
(* connections it opens to other nodes.                                    *)
(*                                                                         *)
(* The main thread (0) connects to the seed nodes; every loop of the pool  *)
(* handles the events of its own connections.  connect_peer,               *)
(* handle_close and handle_error take a lock for each piece of state they  *)
(* touch, so every thread goes through them in steps, kept on its stack.   *)
(* Connections that other nodes open to this one are named by an           *)
(* ephemeral port and never counted: all they do is bring AddrDatagrams.   *)
(***************************************************************************)
EXTENDS Integers, Sequences, FiniteSets, SequencesExt

CONSTANTS
    NumLoops,       \* event loops of the thread pool
    Addresses,      \* the endpoints that datagrams name
    Local,          \* local_ip, local_port
    Invalid,        \* endpoints that is_allowed_peer refuses
    Seeds,          \* seed_nodes, a sequence
    IsSeed,         \* the node is one of the seed nodes itself
    MaxConnectionCount, \* max_connection_count
    MaxAddrs,       \* bound: AddrDatagrams received
    MaxEnds         \* bound: connections that fail or are closed

Loops == 1..NumLoops
Threads == {0} \cup Loops

ASSUME PeerAssumption ==
    /\ NumLoops \in Nat \ {0}
    /\ Local \in Addresses
    /\ Invalid \subseteq Addresses
    /\ Seeds \in Seq(Addresses)
    /\ IsSeed \in BOOLEAN
    /\ MaxConnectionCount \in Nat
    /\ MaxAddrs \in Nat
    /\ MaxEnds \in Nat

VARIABLES
    peers,          \* peer_manager_, in the order of its list
    sessions,       \* session_manager_: the connection of each name, 0 for none
    connectings,    \* connectings_
    size,           \* server_session_size_
    conn,           \* the connections this node opened
    stack,          \* what every thread is doing
    addrs,          \* AddrDatagrams received
    crashed         \* a null pointer was dereferenced, or a destroyed connection used

vars == <<peers, sessions, connectings, size, conn, stack, addrs, crashed>>

\* queued: the functor of connect_peer waits in its loop; connecting: HandShaking;
\* open: Connected or WaitClosed; reading: its loop is about to call Service::handle_read
\* for it, and its session was removed; ending: Closed, the node's callback is under way;
\* ended; dropped: destroyed, because nothing referred to it any more.
States == {"queued", "connecting", "open", "reading", "ending", "ended", "dropped"}

In(st) == {c \in DOMAIN conn : conn[c].st \in st}

Live == In(States \ {"ended", "dropped"})
Dropped == In({"dropped"})

----------------------------------------------------------------------------
(***************************************************************************)
(* Stack frames.  "try" calls connect_peer for the peers of a list, and    *)
(* stops at the first that is connected to if first holds; "end" is        *)
(* handle_close or handle_error.                                           *)
(***************************************************************************)
Try(list, first) == [op |-> "try", at |-> "check", rest |-> list, first |-> first, conn |-> 0]
End(c, at) == [op |-> "end", at |-> at, rest |-> <<>>, first |-> FALSE, conn |-> c]

Running(t, at) == ~crashed /\ stack[t] # <<>> /\ Head(stack[t]).at = at
Idle(t) ==
    /\ ~crashed /\ stack[t] = <<>>
    /\ \A c \in In({"reading"}) : conn[c].loop # t

\* What is left of the stack of t when connect_peer has returned done.
Returned(t, done) ==
    LET f == Head(stack[t])
    IN  IF Len(f.rest) = 1 \/ (done /\ f.first)
        THEN Tail(stack[t])
        ELSE <<[f EXCEPT !.rest = Tail(@), !.at = "check"]>> \o Tail(stack[t])

At(t, at) == [stack EXCEPT ![t][1].at = at]

\* connect_seed_peers: the seed nodes in their order.  This node itself is left out, as
\* connect_peer would refuse it (Refused).
ConnectSeedPeers == IF Seeds = <<>> THEN <<>> ELSE <<Try(Seeds, FALSE)>>

Init ==
    /\ peers = <<>>
    /\ sessions = [a \in Addresses |-> 0]
    /\ connectings = {}
    /\ size = 0
    /\ conn = <<>>
    /\ stack = [t \in Threads |-> IF t = 0 THEN ConnectSeedPeers ELSE <<>>]
    /\ addrs = 0
    /\ crashed = FALSE

\* session_manager_.append: the first session of a name stays.
Stored(p, c) == IF sessions[p] = 0 THEN [sessions EXCEPT ![p] = c] ELSE sessions

(***************************************************************************)
(* The connection c of cs is established: conn_cb.  A session whose name   *)
(* is taken is not stored, and with it goes the only reference to the      *)
(* connection.  A node that is not a seed sends two datagrams; if that     *)
(* fails, handle_close runs inside.                                        *)
(***************************************************************************)
MutNeverStored(c, cs, t, below) ==
    /\ sessions' = sessions
    /\ conn' = [cs EXCEPT ![c].st = "dropped"]
    /\ stack' = [stack EXCEPT ![t] = below]

Established(c, cs, t, below) ==
    LET p == cs[c].to
        stored == sessions[p] = 0
    IN  /\ sessions' = Stored(p, c)
        /\ conn' = [cs EXCEPT ![c].st = IF stored THEN "open" ELSE "dropped"]
        /\ stack' = [stack EXCEPT ![t] = below]

Ends == In({"ending", "ended"})

SendFails(c, cs, t, below) ==
    LET p == cs[c].to
    IN  /\ ~IsSeed
        /\ Cardinality(Ends) < MaxEnds
        /\ sessions' = Stored(p, c)
        /\ conn' = [cs EXCEPT ![c].st = "ending"]
        /\ stack' = [stack EXCEPT ![t] = <<End(c, "session")>> \o below]

\* The functor of connect_peer: TcpClient::connect has a connection under way or
\* established at once, or fails and returns nullptr, which is dereferenced.  What is not
\* connected when it returns is kept in connectings_, a connection that was closed
\* in between too.  connectings_ is a map by local ip:port; no two entries have one key,
\* because a connection that is kept there still owns its socket and so its port.
Connect(c, cs, t, below) ==
    \/ /\ conn' = [cs EXCEPT ![c].st = "connecting"]
       /\ connectings' = connectings \cup {c}
       /\ stack' = [stack EXCEPT ![t] = below]
       /\ UNCHANGED <<sessions, crashed>>
    \/ Established(c, cs, t, below) /\ UNCHANGED <<connectings, crashed>>
    \/ /\ SendFails(c, cs, t, below)
       /\ connectings' = connectings \cup {c}
       /\ UNCHANGED crashed
    \/ /\ crashed' = TRUE
       /\ conn' = cs
       /\ stack' = [stack EXCEPT ![t] = below]
       /\ UNCHANGED <<sessions, connectings>>

----------------------------------------------------------------------------
(***************************************************************************)
(* connect_peer.                                                           *)
(***************************************************************************)
MutMayBeLocal(p) == p \in Invalid \/ sessions[p] # 0
Refused(p) == p \in Invalid \/ sessions[p] # 0 \/ p = Local

Check(t) ==
    /\ Running(t, "check")
    /\ LET p == Head(Head(stack[t]).rest)
       IN  stack' = IF Refused(p)
                    THEN [stack EXCEPT ![t] = Returned(t, FALSE)]
                    ELSE At(t, "record")
    /\ UNCHANGED <<peers, sessions, connectings, size, conn, addrs, crashed>>

Record(t) ==
    /\ Running(t, "record")
    /\ LET p == Head(Head(stack[t]).rest)
       IN  peers' = IF Contains(peers, p) THEN peers ELSE Append(peers, p)
    /\ stack' = At(t, "count")
    /\ UNCHANGED <<sessions, connectings, size, conn, addrs, crashed>>

Full == size >= MaxConnectionCount

\* The main loop is used as long as no loop of the pool has registered.
Count(t) ==
    /\ Running(t, "count")
    /\ IF Full
       THEN /\ stack' = [stack EXCEPT ![t] = Returned(t, FALSE)]
            /\ UNCHANGED <<sessions, connectings, size, conn, crashed>>
       ELSE /\ size' = size + 1
            /\ \E l \in IF t = 0 THEN Threads ELSE Loops :
                 LET c == Len(conn) + 1
                     p == Head(Head(stack[t]).rest)
                     cs == Append(conn, [to |-> p, loop |-> l, st |-> "queued"])
                 IN  IF l = t
                     THEN Connect(c, cs, t, Returned(t, TRUE))
                     ELSE /\ conn' = cs
                          /\ stack' = [stack EXCEPT ![t] = Returned(t, TRUE)]
                          /\ UNCHANGED <<sessions, connectings, crashed>>
    /\ UNCHANGED <<peers, addrs>>

\* A loop runs its functors in the order they were queued.
RunFunctor(l) ==
    /\ Idle(l)
    /\ \E c \in In({"queued"}) :
         /\ conn[c].loop = l
         /\ \A d \in In({"queued"}) : conn[d].loop = l => c <= d
         /\ Connect(c, conn, l, <<>>)
    /\ UNCHANGED <<peers, size, addrs>>
----------------------------------------------------------------------------
(***************************************************************************)
(* Events of a connection, on the thread of its loop.                      *)
(***************************************************************************)
\* A connection whose session was not stored is destroyed when conn_cb returns, inside its
\* own handle_handshake, and so is one that handle_close forgot because the datagrams could
\* not be sent: the handler goes on to use it, which ends the process (here at once, in the
\* code after handle_close) or does nothing.
HandshakeDone(c) ==
    LET t == conn[c].loop
    IN  /\ conn[c].st = "connecting"
        /\ Idle(t)
        /\ \/ Established(c, conn, t, <<>>)
           \/ SendFails(c, conn, t, <<>>)
        /\ connectings' = connectings \ {c}
        /\ crashed' \in {FALSE, conn'[c].st # "open"}
        /\ UNCHANGED <<peers, size, addrs>>

\* handle_error: the session was never there.
HandshakeFails(c) ==
    LET t == conn[c].loop
    IN  /\ conn[c].st = "connecting"
        /\ Idle(t)
        /\ Cardinality(Ends) < MaxEnds
        /\ conn' = [conn EXCEPT ![c].st = "ending"]
        /\ connectings' = connectings \ {c}
        /\ stack' = [stack EXCEPT ![t] = <<End(c, "peer")>>]
        /\ UNCHANGED <<peers, sessions, size, addrs, crashed>>

\* handle_close of an open connection: FIN, a send that fails, or the heartbeat timer that
\* closes it with something left to send.  (With nothing to send, close() leaves the
\* connection in WaitClosed, which changes nothing here.)
Closes(c) ==
    LET t == conn[c].loop
    IN  /\ conn[c].st = "open"
        /\ Idle(t)
        /\ Cardinality(Ends) < MaxEnds
        /\ conn' = [conn EXCEPT ![c].st = "ending"]
        /\ stack' = [stack EXCEPT ![t] = <<End(c, "session")>>]
        /\ UNCHANGED <<peers, sessions, connectings, size, addrs, crashed>>

\* handle_error of an open connection, when recv fails: the session stays.
ReadFails(c) ==
    LET t == conn[c].loop
    IN  /\ conn[c].st = "open"
        /\ Idle(t)
        /\ Cardinality(Ends) < MaxEnds
        /\ conn' = [conn EXCEPT ![c].st = "ending"]
        /\ stack' = [stack EXCEPT ![t] = <<End(c, "peer")>>]
        /\ UNCHANGED <<peers, sessions, connectings, size, addrs, crashed>>

\* An AddrDatagram arrives on any connection of loop l.
RecvAddr(l, a) ==
    /\ Idle(l)
    /\ addrs < MaxAddrs
    /\ addrs' = addrs + 1
    /\ stack' = [stack EXCEPT ![l] = <<Try(<<a>>, FALSE)>>]
    /\ UNCHANGED <<peers, sessions, connectings, size, conn, crashed>>

\* Service::handle_read for a connection whose session another thread has removed: it makes
\* a new one, unless there is one of that name again.
ReadGoesOn(c) ==
    /\ ~crashed
    /\ conn[c].st = "reading"
    /\ Established(c, conn, conn[c].loop, <<>>)
    /\ UNCHANGED <<peers, connectings, size, addrs, crashed>>
----------------------------------------------------------------------------
(***************************************************************************)
(* handle_close and handle_error.  The session is removed by the name of   *)
(* the peer, whichever connection it belongs to.  If it is that of another *)
(* open connection, this is destroyed; its own loop may be inside          *)
(* Connection::handle_read at that moment, either with a reference, so     *)
(* that it lives on, or without, and then uses what was destroyed.         *)
(***************************************************************************)
Removed(d) ==
    \/ /\ conn' = [conn EXCEPT ![d].st = "dropped"]
       /\ crashed' \in {FALSE, Idle(conn[d].loop)}
    \/ /\ Idle(conn[d].loop)
       /\ conn' = [conn EXCEPT ![d].st = "reading"]
       /\ UNCHANGED crashed

RemoveSession(t) ==
    /\ Running(t, "session")
    /\ LET p == conn[Head(stack[t]).conn].to
           d == sessions[p]
       IN  /\ sessions' = [sessions EXCEPT ![p] = 0]
           /\ IF d \in In({"open"}) THEN Removed(d) ELSE UNCHANGED <<conn, crashed>>
    /\ stack' = At(t, "peer")
    /\ UNCHANGED <<peers, connectings, size, addrs>>

RemovePeer(t) ==
    /\ Running(t, "peer")
    /\ LET p == conn[Head(stack[t]).conn].to
       IN  \/ \E i \in DOMAIN peers : peers[i] = p /\ peers' = RemoveAt(peers, i)
           \/ ~Contains(peers, p) /\ UNCHANGED peers
    /\ stack' = At(t, "uncount")
    /\ UNCHANGED <<sessions, connectings, size, conn, addrs, crashed>>

MutForgetsCount(t) ==
    /\ Running(t, "uncount")
    /\ conn' = [conn EXCEPT ![Head(stack[t]).conn].st = "ended"]
    /\ stack' = At(t, "maintain")
    /\ UNCHANGED <<peers, sessions, connectings, size, addrs, crashed>>

Uncount(t) ==
    /\ Running(t, "uncount")
    /\ size' = size - 1
    /\ conn' = [conn EXCEPT ![Head(stack[t]).conn].st = "ended"]
    /\ stack' = At(t, "maintain")
    /\ UNCHANGED <<peers, sessions, connectings, addrs, crashed>>

MutNoRetry(t) ==
    /\ Running(t, "maintain")
    /\ stack' = [stack EXCEPT ![t] = Tail(@)]
    /\ UNCHANGED <<peers, sessions, connectings, size, conn, addrs, crashed>>

\* maintain_connection_count: the peers of this moment are tried until one is
\* connected to.  If none is, other nodes are asked for addresses, which may
\* come in as AddrDatagrams.
Maintain(t) ==
    /\ Running(t, "maintain")
    /\ stack' = [stack EXCEPT ![t] =
                   (IF peers = <<>> THEN <<>> ELSE <<Try(peers, TRUE)>>) \o Tail(@)]
    /\ UNCHANGED <<peers, sessions, connectings, size, conn, addrs, crashed>>

Step(t) ==
    \/ Check(t) \/ Record(t) \/ Count(t)
    \/ RemoveSession(t) \/ RemovePeer(t) \/ Uncount(t) \/ Maintain(t)

Next ==
    \/ \E t \in Threads : Step(t) \/ RunFunctor(t)
    \/ \E l \in Loops, a \in Addresses : RecvAddr(l, a)
    \/ \E c \in DOMAIN conn :
         HandshakeDone(c) \/ HandshakeFails(c) \/ Closes(c) \/ ReadFails(c) \/ ReadGoesOn(c)

Spec == Init /\ [][Next]_vars

\* Threads are scheduled, and a handshake comes to an end.
Handshakes(t) ==
    \E c \in DOMAIN conn :
        conn[c].loop = t /\ (HandshakeDone(c) \/ HandshakeFails(c))

Reads(t) == \E c \in DOMAIN conn : conn[c].loop = t /\ ReadGoesOn(c)

Fairness ==
    \A t \in Threads :
        /\ WF_vars(Step(t)) /\ WF_vars(RunFunctor(t)) /\ WF_vars(Reads(t))
        /\ SF_vars(Handshakes(t))

FairSpec == Spec /\ Fairness
----------------------------------------------------------------------------
FrameType ==
    [op : {"try"}, at : {"check", "record", "count"}, rest : Seq(Addresses),
     first : BOOLEAN, conn : {0}]
    \cup [op : {"end"}, at : {"session", "peer", "uncount", "maintain"}, rest : {<<>>},
          first : {FALSE}, conn : Nat]

TypeOK ==
    /\ peers \in Seq(Addresses \ (Invalid \cup {Local}))
    /\ \A a \in Addresses : sessions[a] \in {0} \cup DOMAIN conn
    /\ connectings \subseteq DOMAIN conn
    /\ size \in Nat
    /\ conn \in Seq([to : Addresses, loop : Threads, st : States])
    /\ \A t \in Threads : stack[t] \in Seq(FrameType)
    /\ addrs \in 0..MaxAddrs
    /\ crashed \in BOOLEAN

\* server_session_size_ is the number of connections this node has under way or open, and
\* of those it destroyed without noticing: it is never decremented twice.  So the node never
\* has more than max_connection_count, whichever threads open them at the same time.
Counted ==
    /\ size = Cardinality(Live) + Cardinality(Dropped)
    /\ Cardinality(Live) <= MaxConnectionCount

\* A connection that is being established is kept by connectings_, one that is open by the
\* session of its peer.  One is destroyed without handle_close or handle_error only when
\* the node made another one to the same peer: both passed the check of
\* is_connected_session before either had a session.
KeptAlive ==
    /\ \A c \in In({"connecting"}) : c \in connectings
    /\ \A c \in In({"open"}) : sessions[conn[c].to] = c
    /\ \A c \in Dropped : \E d \in DOMAIN conn \ {c} : conn[d].to = conn[c].to

\* A peer that the node knows, and has neither a session nor a connection under way for,
\* does not wait while there is room: a peer that was recorded when the node was
\* full is tried once a connection ends.
Wanted(a) ==
    /\ Contains(peers, a)
    /\ sessions[a] = 0
    /\ ~ \E c \in Live : conn[c].to = a
    /\ size < MaxConnectionCount
Refills == \A a \in Addresses : Wanted(a) ~> (~Wanted(a) \/ crashed)
============================================================================
