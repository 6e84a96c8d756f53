------------------------- MODULE PeerServiceProofs --------------------------
(***************************************************************************)
(* Proofs about PeerService: for any number of loops, any addresses and    *)
(* any limit on connections.                                               *)
(***************************************************************************)
EXTENDS PeerService, FiniteSetTheorems, SequenceTheorems, TLAPS

(***************************************************************************)
(* The inductive invariant.  handle_close and handle_error decrement the   *)
(* count once because a connection's end is handled by its own loop, in    *)
(* one frame at the top of that loop's stack; and a session always belongs *)
(* to a connection to the peer it is named after.                          *)
(***************************************************************************)
ConnType == [to : Addresses, loop : Threads, st : States]

\* connect_peer, in a list that is not used up; what it is about to record was accepted.
TryFrames ==
    {f \in [op : {"try"}, at : {"check", "record", "count"}, rest : Seq(Addresses),
            first : BOOLEAN, conn : {0}] :
        /\ f.rest # <<>>
        /\ f.at = "record" => Head(f.rest) \notin Invalid \cup {Local}}

\* handle_close or handle_error of a connection of this loop.
EndFrames(t) ==
    {f \in [op : {"end"}, at : {"session", "peer", "uncount", "maintain"}, rest : {<<>>},
            first : {FALSE}, conn : Nat] :
        f.at # "maintain" =>
            /\ f.conn \in DOMAIN conn
            /\ conn[f.conn].st = "ending"
            /\ conn[f.conn].loop = t}

StackOK(t) ==
    \/ stack[t] \in Seq(TryFrames)
    \/ /\ stack[t] \in Seq(FrameType) /\ stack[t] # <<>>
       /\ Head(stack[t]) \in EndFrames(t)
       /\ Tail(stack[t]) \in Seq(TryFrames)

Stacks == \A t \in Threads : StackOK(t)

Typed ==
    /\ peers \in Seq(Addresses \ (Invalid \cup {Local}))
    /\ conn \in Seq(ConnType)
    /\ DOMAIN stack = Threads
    /\ addrs \in 0..MaxAddrs
    /\ crashed \in BOOLEAN

\* A session belongs to a connection to that peer which was established.
SessionOfPeer ==
    \A a \in Addresses : sessions[a] # 0 =>
        /\ sessions[a] \in DOMAIN conn
        /\ conn[sessions[a]].to = a
        /\ conn[sessions[a]].st \in {"open", "ending", "ended"}

Links ==
    /\ sessions \in [Addresses -> Nat]
    /\ connectings \subseteq DOMAIN conn
    /\ SessionOfPeer
    /\ KeptAlive

\* The connections that server_session_size_ stands for.
Held == {c \in DOMAIN conn : conn[c].st # "ended"}

SizeIsHeld == size = Cardinality(Held) /\ size <= MaxConnectionCount

PeerInv == Typed /\ Stacks /\ Links /\ SizeIsHeld
----------------------------------------------------------------------------
(***************************************************************************)
(* Stacks.                                                                 *)
(***************************************************************************)
\* connect_peer runs in a frame of its own.
LEMMA TryOnTop ==
    ASSUME NEW t \in Threads, StackOK(t), NEW at \in {"check", "record", "count"},
           Running(t, at)
    PROVE  /\ stack[t] \in Seq(TryFrames) /\ stack[t] # <<>>
           /\ Head(stack[t]) \in TryFrames /\ Head(stack[t]).at = at
           /\ Tail(stack[t]) \in Seq(TryFrames)
<1>1. Head(stack[t]) \notin EndFrames(t)
  BY DEF Running, EndFrames
<1>2. stack[t] \in Seq(TryFrames) /\ stack[t] # <<>> /\ Head(stack[t]).at = at
  BY <1>1 DEF StackOK, Running
<1> QED
  BY <1>2, HeadTailProperties

\* handle_close and handle_error too.
LEMMA EndOnTop ==
    ASSUME NEW t \in Threads, StackOK(t),
           NEW at \in {"session", "peer", "uncount", "maintain"}, Running(t, at)
    PROVE  /\ stack[t] \in Seq(FrameType) /\ stack[t] # <<>>
           /\ Head(stack[t]) \in EndFrames(t) /\ Head(stack[t]).at = at
           /\ Tail(stack[t]) \in Seq(TryFrames)
<1>1. stack[t] # <<>> /\ Head(stack[t]).at = at
  BY DEF Running
<1>2. Head(stack[t]) \notin TryFrames
  BY <1>1 DEF TryFrames
<1>3. stack[t] \notin Seq(TryFrames)
  BY <1>1, <1>2, HeadTailProperties
<1> QED
  BY <1>1, <1>3 DEF StackOK

\* One frame is a stack.
LEMMA OneFrame ==
    ASSUME NEW S, NEW f \in S
    PROVE  <<f>> \in Seq(S)
OBVIOUS

\* A list of more than one peer has another one.
LEMMA TailNotEmpty ==
    ASSUME NEW S, NEW s \in Seq(S), s # <<>>, Len(s) # 1
    PROVE  Tail(s) \in Seq(S) /\ Tail(s) # <<>>
<1>1. Len(s) \in Nat /\ Len(s) # 0
  BY EmptySeq
<1>2. Tail(s) \in Seq(S) /\ Len(Tail(s)) = Len(s) - 1
  BY HeadTailProperties
<1>3. Len(Tail(s)) # 0
  BY <1>1, <1>2
<1> QED
  BY <1>2, <1>3

\* connect_peer has returned: the next peer, or the frame is left.
LEMMA ReturnedTries ==
    ASSUME NEW t \in Threads, NEW done \in BOOLEAN,
           Head(stack[t]) \in TryFrames, Tail(stack[t]) \in Seq(TryFrames)
    PROVE  Returned(t, done) \in Seq(TryFrames)
<1> DEFINE f == Head(stack[t])
           g == [f EXCEPT !.rest = Tail(@), !.at = "check"]
<1>1. CASE Len(f.rest) = 1 \/ (done /\ f.first)
  BY <1>1 DEF Returned
<1>2. CASE ~(Len(f.rest) = 1 \/ (done /\ f.first))
  <2>1. f.rest \in Seq(Addresses) /\ f.rest # <<>> /\ Len(f.rest) # 1
    BY <1>2 DEF TryFrames
  <2>2. Tail(f.rest) \in Seq(Addresses) /\ Tail(f.rest) # <<>>
    BY <2>1, TailNotEmpty
  <2>3. f \in [op : {"try"}, at : {"check", "record", "count"}, rest : Seq(Addresses),
               first : BOOLEAN, conn : {0}]
    BY Zenon DEF TryFrames
  <2>4. g \in TryFrames
    <3> HIDE DEF f
    <3>1. g \in [op : {"try"}, at : {"check", "record", "count"}, rest : Seq(Addresses),
                 first : BOOLEAN, conn : {0}]
      BY <2>2, <2>3
    <3>2. g.rest = Tail(f.rest) /\ g.at = "check"
      BY <2>3
    <3> QED
      BY <2>2, <3>1, <3>2 DEF TryFrames
  <2>5. Returned(t, done) = <<g>> \o Tail(stack[t])
    BY <1>2 DEF Returned
  <2> QED
    BY <2>4, <2>5
<1> QED
  BY <1>1, <1>2

\* A frame goes on to its next step.
LEMMA FrameMoves ==
    ASSUME NEW t \in Threads, DOMAIN stack = Threads, NEW S, stack[t] \in Seq(S),
           stack[t] # <<>>, NEW at, stack' = At(t, at)
    PROVE  /\ DOMAIN stack' = Threads
           /\ stack'[t] # <<>>
           /\ Head(stack'[t]) = [Head(stack[t]) EXCEPT !.at = at]
           /\ Tail(stack'[t]) = Tail(stack[t])
           /\ \A u \in Threads \ {t} : stack'[u] = stack[u]
<1> DEFINE s == stack[t]
           r == [s EXCEPT ![1].at = at]
<1>1. stack' = [stack EXCEPT ![t] = r]
  BY DEF At
<1>2. stack'[t] = r /\ DOMAIN stack' = Threads /\ \A u \in Threads \ {t} : stack'[u] = stack[u]
  BY <1>1
<1>3. r # <<>> /\ Head(r) = [Head(s) EXCEPT !.at = at] /\ Tail(r) = Tail(s)
  OBVIOUS
<1> QED
  BY <1>2, <1>3

----------------------------------------------------------------------------
(***************************************************************************)
(* Connections.  A step of the node makes a connection or moves one to     *)
(* another state: afterwards c goes to peer p on loop l and is in state s. *)
(***************************************************************************)
Moves(c, p, l, s) ==
    /\ conn' \in Seq(ConnType)
    /\ DOMAIN conn' = DOMAIN conn \cup {c}
    /\ \A d \in DOMAIN conn \ {c} : conn'[d] = conn[d]
    /\ conn'[c].to = p /\ conn'[c].loop = l /\ conn'[c].st = s
    /\ c \in DOMAIN conn => conn[c].to = p /\ conn[c].loop = l

\* c has no session in cs, which is conn or has c in addition.
Fresh(c, cs, p, l) ==
    /\ cs \in Seq(ConnType)
    /\ c \in DOMAIN cs
    /\ DOMAIN cs = DOMAIN conn \cup {c}
    /\ \A d \in DOMAIN conn : cs[d] = conn[d]
    /\ cs[c].to = p /\ cs[c].loop = l
    /\ cs[c].st \in {"queued", "connecting", "reading"}

\* Connections are numbered from 1.
LEMMA ConnNumbers ==
    ASSUME conn \in Seq(ConnType)
    PROVE  /\ DOMAIN conn \subseteq Nat \ {0}
           /\ Len(conn) + 1 \in Nat \ {0}
           /\ Len(conn) + 1 \notin DOMAIN conn
           /\ IsFiniteSet(DOMAIN conn)
           /\ \A c \in DOMAIN conn : conn[c] \in ConnType
<1>1. Len(conn) \in Nat /\ DOMAIN conn = 1..Len(conn)
  BY LenProperties
<1>2. IsFiniteSet(1..Len(conn))
  BY <1>1, FS_Interval
<1> QED
  BY <1>1, <1>2

\* A connection changes its state.
LEMMA ConnMoves ==
    ASSUME conn \in Seq(ConnType), NEW c \in DOMAIN conn, NEW s \in States,
           conn' = [conn EXCEPT ![c].st = s]
    PROVE  Moves(c, conn[c].to, conn[c].loop, s)
<1> DEFINE r == [conn[c] EXCEPT !.st = s]
<1>1. conn[c] \in ConnType /\ c \in 1..Len(conn)
  BY ConnNumbers
<1>2. r \in ConnType /\ r.to = conn[c].to /\ r.loop = conn[c].loop /\ r.st = s
  BY <1>1 DEF ConnType
<1>3. conn' = [conn EXCEPT ![c] = r]
  OBVIOUS
<1> HIDE DEF r
<1>4. conn' \in Seq(ConnType)
  BY <1>1, <1>2, <1>3, ExceptSeq
<1>5. DOMAIN conn' = DOMAIN conn /\ conn'[c] = r /\ \A d \in DOMAIN conn \ {c} : conn'[d] = conn[d]
  BY <1>3
<1> QED
  BY <1>2, <1>4, <1>5 DEF Moves

\* So does one that was just made.
LEMMA FreshMoves ==
    ASSUME conn \in Seq(ConnType), NEW c, NEW cs, NEW p, NEW l, Fresh(c, cs, p, l),
           NEW s \in States, conn' = [cs EXCEPT ![c].st = s]
    PROVE  Moves(c, p, l, s)
<1> DEFINE r == [cs[c] EXCEPT !.st = s]
<1>1. cs \in Seq(ConnType) /\ c \in 1..Len(cs) /\ cs[c] \in ConnType
  BY LenProperties, ElementOfSeq DEF Fresh
<1>2. r \in ConnType /\ r.to = p /\ r.loop = l /\ r.st = s
  BY <1>1 DEF ConnType, Fresh
<1>3. conn' = [cs EXCEPT ![c] = r]
  OBVIOUS
<1> HIDE DEF r
<1>4. conn' \in Seq(ConnType)
  <2>1. [cs EXCEPT ![c] = r] \in Seq(ConnType)
    BY <1>1, <1>2, ExceptSeq, Zenon
  <2> QED
    BY <1>3, <2>1
<1>5. DOMAIN conn' = DOMAIN cs /\ conn'[c] = r /\ \A d \in DOMAIN cs \ {c} : conn'[d] = cs[d]
  BY <1>1, <1>3
<1>6. \A d \in DOMAIN conn \ {c} : conn'[d] = conn[d]
  BY <1>5 DEF Fresh
<1>7. c \in DOMAIN conn => conn[c].to = p /\ conn[c].loop = l
  BY DEF Fresh
<1> QED
  BY <1>2, <1>4, <1>5, <1>6, <1>7 DEF Moves, Fresh

\* connect_peer makes a connection object.
LEMMA AppendFresh ==
    ASSUME conn \in Seq(ConnType), NEW p \in Addresses, NEW l \in Threads
    PROVE  LET c == Len(conn) + 1
               cs == Append(conn, [to |-> p, loop |-> l, st |-> "queued"])
           IN  Fresh(c, cs, p, l) /\ cs[c].st = "queued"
<1> DEFINE r == [to |-> p, loop |-> l, st |-> "queued"]
           c == Len(conn) + 1
           cs == Append(conn, r)
<1>1. r \in ConnType /\ r.to = p /\ r.loop = l /\ r.st = "queued"
  BY DEF ConnType, States
<1> HIDE DEF r
<1>2. /\ cs \in Seq(ConnType) /\ Len(cs) = c /\ cs[c] = r
      /\ \A d \in 1..Len(conn) : cs[d] = conn[d]
  BY <1>1, AppendProperties
<1>3. DOMAIN conn = 1..Len(conn) /\ DOMAIN cs = 1..c /\ Len(conn) \in Nat
  BY <1>2, LenProperties
<1>4. c \in DOMAIN cs /\ DOMAIN cs = DOMAIN conn \cup {c}
  BY <1>3
<1> HIDE DEF c, cs
<1>5. Fresh(c, cs, p, l) /\ cs[c].st = "queued"
  BY <1>1, <1>2, <1>3, <1>4 DEF Fresh
<1> QED
  BY <1>5 DEF c, cs, r

\* A connection that is made or moves on is counted once.
CountedOnce(c) ==
    \/ c \in Held /\ size' = size
    \/ c \notin DOMAIN conn /\ size' = size + 1 /\ size < MaxConnectionCount

\* The count stays right then.
LEMMA MoveIsCounted ==
    ASSUME conn \in Seq(ConnType), SizeIsHeld, NEW c, NEW p, NEW l, NEW s,
           Moves(c, p, l, s), s # "ended", CountedOnce(c)
    PROVE  SizeIsHeld'
<1>1. CASE c \in Held /\ size' = size
  <2>1. Held' = Held
    BY <1>1 DEF Moves, Held
  <2> QED
    BY <1>1, <2>1 DEF SizeIsHeld
<1>2. CASE c \notin DOMAIN conn /\ size' = size + 1 /\ size < MaxConnectionCount
  <2>1. Held' = Held \cup {c} /\ c \notin Held
    BY <1>2 DEF Moves, Held
  <2>2. IsFiniteSet(Held)
    BY ConnNumbers, FS_Subset DEF Held
  <2>3. Cardinality(Held') = Cardinality(Held) + 1 /\ Cardinality(Held) \in Nat
    BY <2>1, <2>2, FS_AddElement, FS_CardinalityType
  <2> QED
    BY <1>2, <2>3, PeerAssumption DEF SizeIsHeld
<1> QED
  BY <1>1, <1>2 DEF CountedOnce

\* A connection that ends is no longer counted.
LEMMA EndIsUncounted ==
    ASSUME conn \in Seq(ConnType), SizeIsHeld, NEW c, NEW p, NEW l,
           Moves(c, p, l, "ended"), c \in Held, size' = size - 1
    PROVE  SizeIsHeld'
<1>1. Held' = Held \ {c}
  BY DEF Moves, Held
<1>2. IsFiniteSet(Held)
  BY ConnNumbers, FS_Subset DEF Held
<1>3. Cardinality(Held') = Cardinality(Held) - 1 /\ Cardinality(Held) \in Nat
  BY <1>1, <1>2, FS_RemoveElement, FS_CardinalityType
<1> QED
  BY <1>3, PeerAssumption DEF SizeIsHeld

\* Sessions, connectings_ and the states of connections, when one is made or moves on: a
\* session is stored only where there is none.
LEMMA MoveKeepsLinks ==
    ASSUME conn \in Seq(ConnType), Links,
           NEW c \in Nat \ {0}, NEW p \in Addresses, NEW l, NEW s, Moves(c, p, l, s),
           \/ sessions' = sessions
           \/ sessions[p] = 0 /\ sessions' = [sessions EXCEPT ![p] = c],
           sessions'[p] = c => s \in {"open", "ending", "ended"},
           s = "open" => sessions'[p] = c,
           s = "dropped" => \E d \in DOMAIN conn \ {c} : conn[d].to = p,
           s = "connecting" => c \in connectings',
           connectings \ {c} \subseteq connectings',
           connectings' \subseteq DOMAIN conn \cup {c},
           c \in DOMAIN conn => conn[c].st # "dropped"
    PROVE  Links'
<1>0. /\ sessions \in [Addresses -> Nat] /\ SessionOfPeer /\ KeptAlive
      /\ DOMAIN conn \subseteq Nat \ {0}
      /\ \A d \in DOMAIN conn : conn[d].to \in Addresses
  BY ConnNumbers DEF Links, ConnType
<1>1. /\ DOMAIN conn' = DOMAIN conn \cup {c}
      /\ \A d \in DOMAIN conn \ {c} : conn'[d] = conn[d]
      /\ conn'[c].to = p /\ conn'[c].st = s
      /\ c \in DOMAIN conn => conn[c].to = p
  BY DEF Moves
<1>2. sessions' \in [Addresses -> Nat] /\ connectings' \subseteq DOMAIN conn'
  BY <1>0, <1>1
<1>3. \A a \in Addresses : a # p => sessions'[a] = sessions[a]
  BY <1>0
<1>4. sessions'[p] = sessions[p] \/ (sessions[p] = 0 /\ sessions'[p] = c)
  BY <1>0
<1>5. SessionOfPeer'
  <2> SUFFICES ASSUME NEW a \in Addresses, sessions'[a] # 0
               PROVE  /\ sessions'[a] \in DOMAIN conn'
                      /\ conn'[sessions'[a]].to = a
                      /\ conn'[sessions'[a]].st \in {"open", "ending", "ended"}
    BY DEF SessionOfPeer
  <2>1. CASE a = p /\ sessions'[p] = c
    BY <1>1, <2>1
  <2>2. CASE sessions'[a] = sessions[a] /\ ~(a = p /\ sessions'[p] = c)
    <3>1. /\ sessions[a] \in DOMAIN conn /\ conn[sessions[a]].to = a
          /\ conn[sessions[a]].st \in {"open", "ending", "ended"}
      BY <1>0, <2>2 DEF SessionOfPeer
    <3>2. sessions[a] # c
      BY <1>1, <2>2, <3>1
    <3> QED
      BY <1>1, <2>2, <3>1, <3>2
  <2> QED
    BY <1>3, <1>4, <2>1, <2>2
<1>6. KeptAlive'
  <2>1. ASSUME NEW d \in DOMAIN conn', conn'[d].st = "connecting"
        PROVE  d \in connectings'
    BY <1>0, <1>1, <2>1 DEF KeptAlive, In
  <2>2. ASSUME NEW d \in DOMAIN conn', conn'[d].st = "open"
        PROVE  sessions'[conn'[d].to] = d
    <3>1. CASE d = c
      BY <1>1, <2>2, <3>1
    <3>2. CASE d # c
      <4>1. d \in DOMAIN conn /\ conn'[d] = conn[d] /\ d # 0
        BY <1>0, <1>1, <3>2
      <4>2. sessions[conn[d].to] = d /\ conn[d].to \in Addresses
        BY <1>0, <2>2, <4>1 DEF KeptAlive, In
      <4> QED
        BY <1>3, <1>4, <4>1, <4>2
    <3> QED
      BY <3>1, <3>2
  <2>3. ASSUME NEW d \in DOMAIN conn', conn'[d].st = "dropped"
        PROVE  \E e \in DOMAIN conn' \ {d} : conn'[e].to = conn'[d].to
    <3>1. CASE d = c
      BY <1>1, <2>3, <3>1
    <3>2. CASE d # c
      <4>1. d \in DOMAIN conn /\ conn'[d] = conn[d]
        BY <1>1, <3>2
      <4>2. PICK e \in DOMAIN conn \ {d} : conn[e].to = conn[d].to
        BY <1>0, <2>3, <4>1 DEF KeptAlive, Dropped, In
      <4> QED
        BY <1>1, <4>1, <4>2
    <3> QED
      BY <3>1, <3>2
  <2> QED
    BY <2>1, <2>2, <2>3 DEF KeptAlive, Dropped, In
<1> QED
  BY <1>2, <1>5, <1>6 DEF Links

\* What a thread does leaves the frames of the others valid, if it moves no connection
\* whose end another thread is handling.
LEMMA OthersKeepStacks ==
    ASSUME Stacks, NEW t \in Threads,
           \A u \in Threads \ {t} : stack'[u] = stack[u],
           DOMAIN conn \subseteq DOMAIN conn',
           \A d \in DOMAIN conn :
               conn[d].st = "ending" /\ conn[d].loop # t => conn'[d] = conn[d],
           StackOK(t)'
    PROVE  Stacks'
<1> SUFFICES ASSUME NEW u \in Threads, u # t PROVE StackOK(u)'
  BY DEF Stacks
<1>1. StackOK(u) /\ stack'[u] = stack[u]
  BY DEF Stacks
<1>2. EndFrames(u) \subseteq EndFrames(u)'
  BY DEF EndFrames
<1> QED
  BY <1>1, <1>2 DEF StackOK

\* A stack of connect_peer's frames is well typed.
LEMMA TriesAreFrames ==
    ASSUME NEW s \in Seq(TryFrames)
    PROVE  s \in Seq(FrameType)
<1>1. TryFrames \subseteq FrameType
  BY DEF TryFrames, FrameType
<1> QED
  BY <1>1, SeqMonotonic

\* A connection of loop t ends: its frame is pushed, or it goes on.
LEMMA EndPushed ==
    ASSUME NEW t \in Threads, NEW c \in Nat, NEW p, Moves(c, p, t, "ending"),
           NEW at \in {"session", "peer"}, NEW below \in Seq(TryFrames),
           stack'[t] = <<End(c, at)>> \o below
    PROVE  StackOK(t)'
<1>1. End(c, at) \in EndFrames(t)'
  BY DEF End, EndFrames, Moves
<1>2. /\ stack'[t] # <<>> /\ Head(stack'[t]) = End(c, at)
      /\ Tail(stack'[t]) = below
  OBVIOUS
<1>3. stack'[t] \in Seq(FrameType)
  <2>1. End(c, at) \in FrameType
    BY DEF End, FrameType
  <2>2. <<End(c, at)>> \in Seq(FrameType)
    BY <2>1, OneFrame
  <2>3. below \in Seq(FrameType)
    BY TriesAreFrames
  <2> QED
    BY <2>2, <2>3, ConcatProperties
<1> QED
  BY <1>1, <1>2, <1>3 DEF StackOK

\* A frame that starts, or goes on with, connect_peer.
LEMMA NewTry ==
    ASSUME NEW list \in Seq(Addresses), list # <<>>, NEW first \in BOOLEAN
    PROVE  Try(list, first) \in TryFrames
BY DEF Try, TryFrames

\* It may record a peer that was accepted.
LEMMA TryGoesOn ==
    ASSUME NEW f \in TryFrames, NEW at \in {"record", "count"},
           at = "record" => Head(f.rest) \notin Invalid \cup {Local}
    PROVE  [f EXCEPT !.at = at] \in TryFrames
BY DEF TryFrames

\* The top frame of t has gone on to its next step.
LEMMA TryStack ==
    ASSUME NEW t \in Threads, DOMAIN stack = Threads,
           stack[t] \in Seq(TryFrames), stack[t] # <<>>, NEW at, stack' = At(t, at),
           [Head(stack[t]) EXCEPT !.at = at] \in TryFrames
    PROVE  StackOK(t)'
<1> DEFINE f == [Head(stack[t]) EXCEPT !.at = at]
<1>1. stack'[t] = [stack[t] EXCEPT ![1].at = at]
  BY DEF At
<1>2. 1 \in 1..Len(stack[t]) /\ Head(stack[t]) = stack[t][1]
  OBVIOUS
<1>3. stack'[t] = [stack[t] EXCEPT ![1] = f]
  BY <1>1, <1>2
<1> HIDE DEF f
<1>4. f \in TryFrames /\ TryFrames' = TryFrames
  BY DEF f, TryFrames
<1>5. stack'[t] \in Seq(TryFrames)
  BY <1>2, <1>3, <1>4, ExceptSeq
<1> QED
  BY <1>4, <1>5 DEF StackOK

\* The stack of one thread is replaced.
LEMMA StackReplaced ==
    ASSUME DOMAIN stack = Threads, NEW t \in Threads, NEW s, stack' = [stack EXCEPT ![t] = s]
    PROVE  /\ DOMAIN stack' = Threads
           /\ stack'[t] = s
           /\ \A u \in Threads \ {t} : stack'[u] = stack[u]
OBVIOUS

----------------------------------------------------------------------------
(***************************************************************************)
(* The steps.                                                              *)
(***************************************************************************)

\* conn_cb, for a connection that was connecting or that connect() established at once, and
\* handle_read for one without a session.
LEMMA EstablishedStep ==
    ASSUME PeerInv, NEW t \in Threads, NEW c \in Nat \ {0}, NEW cs, NEW p \in Addresses,
           Fresh(c, cs, p, t), NEW below \in Seq(TryFrames),
           Established(c, cs, t, below) \/ SendFails(c, cs, t, below),
           UNCHANGED <<peers, addrs>>, crashed' \in BOOLEAN,
           connectings \ {c} \subseteq connectings',
           connectings' \subseteq DOMAIN conn \cup {c},
           CountedOnce(c)
    PROVE  PeerInv'
<1>0. /\ Typed /\ Stacks /\ Links /\ SizeIsHeld
      /\ conn \in Seq(ConnType) /\ DOMAIN stack = Threads
      /\ sessions \in [Addresses -> Nat] /\ SessionOfPeer /\ cs[c].to = p
  BY DEF PeerInv, Typed, Links, Fresh
<1>1. c \in DOMAIN conn => conn[c].st \in {"queued", "connecting", "reading"}
  BY DEF Fresh
<1>2. sessions[p] # c
  <2>1. CASE sessions[p] = c
    <3>1. c \in DOMAIN conn /\ conn[c].st \in {"open", "ending", "ended"}
      BY <1>0, <2>1 DEF SessionOfPeer
    <3> QED
      BY <1>1, <3>1
  <2> QED
    BY <2>1
<1>3. \/ sessions' = sessions /\ sessions[p] # 0
      \/ sessions[p] = 0 /\ sessions' = [sessions EXCEPT ![p] = c]
  BY <1>0 DEF Established, SendFails, Stored
<1>4. ASSUME NEW s \in {"open", "dropped", "ending"}, Moves(c, p, t, s),
             s = "open" => sessions[p] = 0,
             s = "dropped" => sessions[p] # 0,
             StackOK(t)', DOMAIN stack' = Threads,
             \A u \in Threads \ {t} : stack'[u] = stack[u]
      PROVE  PeerInv'
  <2>1. sessions'[p] = c => s \in {"open", "ending", "ended"}
    BY <1>0, <1>2, <1>3, <1>4
  <2>2. s = "open" => sessions'[p] = c
    BY <1>0, <1>3, <1>4
  <2>3. s = "dropped" => \E d \in DOMAIN conn \ {c} : conn[d].to = p
    BY <1>0, <1>2, <1>4 DEF SessionOfPeer
  <2>4. Links'
    <3>1. \/ sessions' = sessions
          \/ sessions[p] = 0 /\ sessions' = [sessions EXCEPT ![p] = c]
      BY <1>3
    <3>2. s # "connecting" /\ (c \in DOMAIN conn => conn[c].st # "dropped")
      BY <1>1
    <3> QED
      BY <1>0, <1>4, <2>1, <2>2, <2>3, <3>1, <3>2, MoveKeepsLinks
  <2>5. SizeIsHeld'
    BY <1>0, <1>4, MoveIsCounted
  <2>6. Stacks'
    <3>1. \A d \in DOMAIN conn :
              conn[d].st = "ending" /\ conn[d].loop # t => conn'[d] = conn[d]
      BY <1>1, <1>4 DEF Moves
    <3>2. DOMAIN conn \subseteq DOMAIN conn'
      BY <1>4 DEF Moves
    <3> QED
      BY <1>0, <1>4, <3>1, <3>2, OthersKeepStacks
  <2>7. Typed'
    BY <1>0, <1>4 DEF Typed, Moves
  <2> QED
    BY <2>4, <2>5, <2>6, <2>7 DEF PeerInv
<1>5. CASE Established(c, cs, t, below)
  <2> DEFINE s == IF sessions[p] = 0 THEN "open" ELSE "dropped"
  <2>1. s \in States /\ s \in {"open", "dropped", "ending"}
    BY DEF States
  <2>2. conn' = [cs EXCEPT ![c].st = s] /\ stack' = [stack EXCEPT ![t] = below]
    BY <1>0, <1>5 DEF Established
  <2>3. (s = "open" => sessions[p] = 0) /\ (s = "dropped" => sessions[p] # 0)
    OBVIOUS
  <2> HIDE DEF s
  <2>4. Moves(c, p, t, s)
    BY <1>0, <2>1, <2>2, FreshMoves
  <2>5. /\ DOMAIN stack' = Threads /\ stack'[t] = below
        /\ \A u \in Threads \ {t} : stack'[u] = stack[u]
    BY <1>0, <2>2, StackReplaced
  <2>6. StackOK(t)'
    <3>1. stack'[t] \in Seq(TryFrames)
      BY <2>5
    <3>2. TryFrames' = TryFrames
      BY DEF TryFrames
    <3> QED
      BY <3>1, <3>2 DEF StackOK
  <2> QED
    BY <1>4, <2>1, <2>3, <2>4, <2>5, <2>6
<1>6. CASE SendFails(c, cs, t, below)
  <2>1. /\ conn' = [cs EXCEPT ![c].st = "ending"]
        /\ stack' = [stack EXCEPT ![t] = <<End(c, "session")>> \o below]
    BY <1>6 DEF SendFails
  <2>2. Moves(c, p, t, "ending")
    <3>1. "ending" \in States
      BY DEF States
    <3> QED
      BY <1>0, <2>1, <3>1, FreshMoves
  <2>3. /\ DOMAIN stack' = Threads /\ stack'[t] = <<End(c, "session")>> \o below
        /\ \A u \in Threads \ {t} : stack'[u] = stack[u]
    BY <1>0, <2>1, StackReplaced
  <2>4. StackOK(t)'
    BY <2>2, <2>3, EndPushed
  <2> QED
    BY <1>4, <2>2, <2>3, <2>4
<1> QED
  BY <1>5, <1>6

\* A connection that waits for its handshake, or for its functor to run.
LEMMA PendingStep ==
    ASSUME PeerInv, NEW t \in Threads, NEW c \in Nat \ {0}, NEW p \in Addresses,
           NEW l, NEW s \in {"queued", "connecting"}, Moves(c, p, l, s),
           c \in DOMAIN conn => conn[c].st \in {"queued", "connecting"},
           NEW below \in Seq(TryFrames), stack' = [stack EXCEPT ![t] = below],
           UNCHANGED <<peers, addrs, sessions>>, crashed' \in BOOLEAN,
           s = "connecting" => c \in connectings',
           connectings \ {c} \subseteq connectings',
           connectings' \subseteq DOMAIN conn \cup {c},
           CountedOnce(c)
    PROVE  PeerInv'
<1>0. /\ Typed /\ Stacks /\ Links /\ SizeIsHeld
      /\ conn \in Seq(ConnType) /\ DOMAIN stack = Threads
      /\ sessions \in [Addresses -> Nat] /\ SessionOfPeer
  BY DEF PeerInv, Typed, Links
<1>1. sessions[p] # c
  <2>1. CASE sessions[p] = c
    <3>1. c \in DOMAIN conn /\ conn[c].st \in {"open", "ending", "ended"}
      BY <1>0, <2>1 DEF SessionOfPeer
    <3> QED
      BY <3>1
  <2> QED
    BY <2>1
<1>2. Links'
  <2>1. /\ sessions'[p] = c => s \in {"open", "ending", "ended"}
        /\ s # "open" /\ s # "dropped" /\ (c \in DOMAIN conn => conn[c].st # "dropped")
    BY <1>1
  <2> QED
    BY <1>0, <2>1, MoveKeepsLinks
<1>3. SizeIsHeld'
  BY <1>0, MoveIsCounted
<1>4. /\ DOMAIN stack' = Threads /\ stack'[t] = below
      /\ \A u \in Threads \ {t} : stack'[u] = stack[u]
  BY <1>0, StackReplaced
<1>5. StackOK(t)'
  <2>1. stack'[t] \in Seq(TryFrames) /\ TryFrames' = TryFrames
    BY <1>4 DEF TryFrames
  <2> QED
    BY <2>1 DEF StackOK
<1>6. Stacks'
  <2>1. \A d \in DOMAIN conn :
            conn[d].st = "ending" /\ conn[d].loop # t => conn'[d] = conn[d]
    BY DEF Moves
  <2>2. DOMAIN conn \subseteq DOMAIN conn'
    BY DEF Moves
  <2> QED
    BY <1>0, <1>4, <1>5, <2>1, <2>2, OthersKeepStacks
<1>7. Typed'
  BY <1>0, <1>4 DEF Typed, Moves
<1> QED
  BY <1>2, <1>3, <1>6, <1>7 DEF PeerInv

\* The functor of connect_peer, run at once or from the queue.
LEMMA ConnectStep ==
    ASSUME PeerInv, NEW t \in Threads, NEW c \in Nat \ {0}, NEW cs, NEW p \in Addresses,
           Fresh(c, cs, p, t), cs[c].st = "queued", NEW below \in Seq(TryFrames),
           Connect(c, cs, t, below), UNCHANGED <<peers, addrs>>, CountedOnce(c)
    PROVE  PeerInv'
<1>0. conn \in Seq(ConnType) /\ connectings \subseteq DOMAIN conn /\ crashed \in BOOLEAN
  BY DEF PeerInv, Typed, Links
<1>1. c \in DOMAIN conn => conn[c].st \in {"queued", "connecting"}
  BY DEF Fresh
<1>2. CASE /\ conn' = [cs EXCEPT ![c].st = "connecting"]
           /\ connectings' = connectings \cup {c}
           /\ stack' = [stack EXCEPT ![t] = below]
           /\ UNCHANGED <<sessions, crashed>>
  <2>1. Moves(c, p, t, "connecting")
    <3>1. "connecting" \in States
      BY DEF States
    <3> QED
      BY <1>0, <1>2, <3>1, FreshMoves
  <2>2. /\ c \in connectings' /\ connectings \ {c} \subseteq connectings'
        /\ connectings' \subseteq DOMAIN conn \cup {c}
    BY <1>0, <1>2
  <2>3. crashed' \in BOOLEAN /\ sessions' = sessions
    BY <1>0, <1>2
  <2> QED
    BY <1>1, <1>2, <2>1, <2>2, <2>3, PendingStep
<1>3. CASE Established(c, cs, t, below) /\ UNCHANGED <<connectings, crashed>>
  <2>1. crashed' \in BOOLEAN
    BY <1>0, <1>3
  <2> QED
    BY <1>0, <1>3, <2>1, EstablishedStep
<1>4. CASE /\ SendFails(c, cs, t, below)
           /\ connectings' = connectings \cup {c}
           /\ UNCHANGED crashed
  <2>1. /\ connectings \ {c} \subseteq connectings'
        /\ connectings' \subseteq DOMAIN conn \cup {c}
    BY <1>0, <1>4
  <2>2. crashed' \in BOOLEAN
    BY <1>0, <1>4
  <2> QED
    BY <1>4, <2>1, <2>2, EstablishedStep
<1>5. CASE /\ crashed' = TRUE
           /\ conn' = cs
           /\ stack' = [stack EXCEPT ![t] = below]
           /\ UNCHANGED <<sessions, connectings>>
  <2>1. Moves(c, p, t, "queued")
    BY <1>5 DEF Fresh, Moves
  <2>2. crashed' \in BOOLEAN /\ sessions' = sessions
    BY <1>5
  <2>3. /\ connectings \ {c} \subseteq connectings'
        /\ connectings' \subseteq DOMAIN conn \cup {c}
    BY <1>0, <1>5
  <2> QED
    BY <1>1, <1>5, <2>1, <2>2, <2>3, PendingStep
<1> QED
  BY <1>2, <1>3, <1>4, <1>5 DEF Connect

\* connect_peer counts the connection and makes it.
LEMMA CountStep ==
    ASSUME PeerInv, NEW t \in Threads, Count(t)
    PROVE  PeerInv'
<1>0. /\ Typed /\ Stacks /\ Links /\ SizeIsHeld /\ StackOK(t)
      /\ conn \in Seq(ConnType) /\ DOMAIN stack = Threads /\ crashed \in BOOLEAN
      /\ connectings \subseteq DOMAIN conn
  BY DEF PeerInv, Typed, Stacks, Links
<1>1. /\ Head(stack[t]) \in TryFrames /\ Tail(stack[t]) \in Seq(TryFrames)
  BY <1>0, TryOnTop DEF Count
<1>2. Returned(t, TRUE) \in Seq(TryFrames) /\ Returned(t, FALSE) \in Seq(TryFrames)
  BY <1>1, ReturnedTries
<1>3. CASE Full
  <2>1. /\ stack' = [stack EXCEPT ![t] = Returned(t, FALSE)]
        /\ UNCHANGED <<sessions, connectings, size, conn, crashed, peers, addrs>>
    BY <1>3 DEF Count
  <2>2. /\ DOMAIN stack' = Threads /\ stack'[t] = Returned(t, FALSE)
        /\ \A u \in Threads \ {t} : stack'[u] = stack[u]
    BY <1>0, <2>1, StackReplaced
  <2>3. StackOK(t)'
    <3>1. stack'[t] \in Seq(TryFrames) /\ TryFrames' = TryFrames
      BY <1>2, <2>2 DEF TryFrames
    <3> QED
      BY <3>1 DEF StackOK
  <2>4. Stacks'
    BY <1>0, <2>1, <2>2, <2>3, OthersKeepStacks
  <2> QED
    BY <1>0, <2>1, <2>2, <2>4
    DEF PeerInv, Typed, Links, SessionOfPeer, KeptAlive, Dropped, In, SizeIsHeld, Held
<1>4. CASE ~Full
  <2> DEFINE c == Len(conn) + 1
             p == Head(Head(stack[t]).rest)
             New(l) == Append(conn, [to |-> p, loop |-> l, st |-> "queued"])
  <2>1. /\ size' = size + 1 /\ UNCHANGED <<peers, addrs>>
        /\ \E l \in Threads :
              IF l = t
              THEN Connect(c, New(l), t, Returned(t, TRUE))
              ELSE /\ conn' = New(l)
                   /\ stack' = [stack EXCEPT ![t] = Returned(t, TRUE)]
                   /\ UNCHANGED <<sessions, connectings, crashed>>
    BY <1>4 DEF Count, Threads
  <2>2. PICK l \in Threads :
              IF l = t
              THEN Connect(c, New(l), t, Returned(t, TRUE))
              ELSE /\ conn' = New(l)
                   /\ stack' = [stack EXCEPT ![t] = Returned(t, TRUE)]
                   /\ UNCHANGED <<sessions, connectings, crashed>>
    BY <2>1
  <2>3. p \in Addresses
    <3>1. Head(stack[t]).rest \in Seq(Addresses) /\ Head(stack[t]).rest # <<>>
      BY <1>1 DEF TryFrames
    <3> QED
      BY <3>1, HeadTailProperties
  <2>4. c \in Nat \ {0} /\ c \notin DOMAIN conn
    BY <1>0, ConnNumbers
  <2>5. size < MaxConnectionCount
    <3>1. IsFiniteSet(Held) /\ Cardinality(Held) \in Nat
      BY <1>0, ConnNumbers, FS_Subset, FS_CardinalityType DEF Held
    <3> QED
      BY <1>0, <1>4, <3>1, PeerAssumption DEF Full, SizeIsHeld
  <2>6. CountedOnce(c)
    BY <2>1, <2>4, <2>5 DEF CountedOnce
  <2>7. Fresh(c, New(l), p, l) /\ New(l)[c].st = "queued"
    BY <1>0, <2>3, AppendFresh
  <2> HIDE DEF c, p, New
  <2>8. CASE l = t
    BY <1>2, <2>1, <2>2, <2>3, <2>4, <2>6, <2>7, <2>8, ConnectStep
  <2>9. CASE l # t
    <3>1. /\ conn' = New(l)
          /\ stack' = [stack EXCEPT ![t] = Returned(t, TRUE)]
          /\ UNCHANGED <<sessions, connectings, crashed>>
      BY <2>2, <2>9
    <3>2. Moves(c, p, l, "queued")
      BY <2>4, <2>7, <3>1 DEF Fresh, Moves
    <3>3. /\ crashed' \in BOOLEAN /\ connectings \ {c} \subseteq connectings'
          /\ connectings' \subseteq DOMAIN conn \cup {c}
      BY <1>0, <3>1
    <3> QED
      BY <1>2, <2>1, <2>3, <2>4, <2>6, <3>1, <3>2, <3>3, PendingStep
  <2> QED
    BY <2>8, <2>9
<1> QED
  BY <1>3, <1>4

\* A loop runs the functor of connect_peer.
LEMMA RunFunctorStep ==
    ASSUME PeerInv, NEW t \in Threads, RunFunctor(t)
    PROVE  PeerInv'
<1>0. conn \in Seq(ConnType)
  BY DEF PeerInv, Typed
<1>1. PICK c \in DOMAIN conn :
          conn[c].st = "queued" /\ conn[c].loop = t /\ Connect(c, conn, t, <<>>)
  BY DEF RunFunctor, In
<1>2. c \in Nat \ {0} /\ conn[c] \in ConnType
  BY <1>0, ConnNumbers
<1>3. conn[c].to \in Addresses
  BY <1>2 DEF ConnType
<1>4. Fresh(c, conn, conn[c].to, t)
  BY <1>0, <1>1 DEF Fresh
<1>5. CountedOnce(c) /\ UNCHANGED <<peers, addrs>>
  BY <1>1 DEF CountedOnce, Held, RunFunctor
<1>6. <<>> \in Seq(TryFrames)
  BY EmptySeq
<1> QED
  BY <1>1, <1>2, <1>3, <1>4, <1>5, <1>6, ConnectStep

\* A handshake is done.
LEMMA HandshakeDoneStep ==
    ASSUME PeerInv, NEW c \in DOMAIN conn, HandshakeDone(c)
    PROVE  PeerInv'
<1>0. conn \in Seq(ConnType) /\ connectings \subseteq DOMAIN conn
  BY DEF PeerInv, Typed, Links
<1>1. c \in Nat \ {0} /\ conn[c] \in ConnType
  BY <1>0, ConnNumbers
<1>2. conn[c].to \in Addresses /\ \E t \in Threads : conn[c].loop = t
  BY <1>1 DEF ConnType
<1>3. PICK t \in Threads : conn[c].loop = t
  BY <1>2
<1>4. /\ conn[c].st = "connecting"
      /\ Established(c, conn, t, <<>>) \/ SendFails(c, conn, t, <<>>)
      /\ connectings' = connectings \ {c}
      /\ UNCHANGED <<peers, size, addrs>>
      /\ crashed' \in {FALSE, conn'[c].st # "open"}
  BY <1>3 DEF HandshakeDone
<1>5. Fresh(c, conn, conn[c].to, t)
  BY <1>0, <1>3, <1>4 DEF Fresh
<1>6. CountedOnce(c)
  BY <1>4 DEF CountedOnce, Held
<1>7. /\ <<>> \in Seq(TryFrames)
      /\ connectings \ {c} \subseteq connectings'
      /\ connectings' \subseteq DOMAIN conn \cup {c}
  BY <1>0, <1>4, EmptySeq
<1>8. crashed' \in BOOLEAN
  BY <1>4
<1> QED
  BY <1>1, <1>2, <1>4, <1>5, <1>6, <1>7, <1>8, EstablishedStep

\* handle_read for a connection whose session was removed.
LEMMA ReadGoesOnStep ==
    ASSUME PeerInv, NEW c \in DOMAIN conn, ReadGoesOn(c)
    PROVE  PeerInv'
<1>0. conn \in Seq(ConnType) /\ connectings \subseteq DOMAIN conn /\ crashed \in BOOLEAN
  BY DEF PeerInv, Typed, Links
<1>1. c \in Nat \ {0} /\ conn[c] \in ConnType
  BY <1>0, ConnNumbers
<1>2. PICK t \in Threads, p \in Addresses : conn[c].loop = t /\ conn[c].to = p
  BY <1>1 DEF ConnType
<1>3. /\ conn[c].st = "reading" /\ Established(c, conn, t, <<>>)
      /\ UNCHANGED <<peers, connectings, size, addrs, crashed>>
  BY <1>2 DEF ReadGoesOn
<1>4. Fresh(c, conn, p, t)
  BY <1>0, <1>2, <1>3 DEF Fresh
<1>5. CountedOnce(c)
  BY <1>3 DEF CountedOnce, Held
<1>6. /\ <<>> \in Seq(TryFrames) /\ crashed' \in BOOLEAN
      /\ connectings \ {c} \subseteq connectings'
      /\ connectings' \subseteq DOMAIN conn \cup {c}
  BY <1>0, <1>3, EmptySeq
<1> QED
  BY <1>1, <1>3, <1>4, <1>5, <1>6, EstablishedStep

\* A connection ends: on a failed handshake, FIN, or an error.
LEMMA EndStep ==
    ASSUME PeerInv, NEW c \in DOMAIN conn,
           HandshakeFails(c) \/ Closes(c) \/ ReadFails(c)
    PROVE  PeerInv'
<1>0. /\ Typed /\ Stacks /\ Links /\ SizeIsHeld
      /\ conn \in Seq(ConnType) /\ DOMAIN stack = Threads
      /\ connectings \subseteq DOMAIN conn
  BY DEF PeerInv, Typed, Links
<1>1. c \in Nat \ {0} /\ conn[c] \in ConnType
  BY <1>0, ConnNumbers
<1>2. PICK t \in Threads, p \in Addresses : conn[c].loop = t /\ conn[c].to = p
  BY <1>1 DEF ConnType
<1>3. PICK at \in {"session", "peer"} : stack' = [stack EXCEPT ![t] = <<End(c, at)>>]
  BY <1>2 DEF HandshakeFails, Closes, ReadFails
<1>4. /\ conn[c].st \in {"connecting", "open"}
      /\ conn' = [conn EXCEPT ![c].st = "ending"]
      /\ connectings' \in {connectings, connectings \ {c}}
      /\ UNCHANGED <<peers, sessions, size, addrs, crashed>>
  BY DEF HandshakeFails, Closes, ReadFails
<1>5. Moves(c, p, t, "ending")
  <2>1. "ending" \in States
    BY DEF States
  <2> QED
    BY <1>0, <1>2, <1>4, <2>1, ConnMoves
<1>6. /\ DOMAIN stack' = Threads /\ stack'[t] = <<End(c, at)>>
      /\ \A u \in Threads \ {t} : stack'[u] = stack[u]
  BY <1>0, <1>2, <1>3, StackReplaced
<1>7. StackOK(t)'
  <2>1. <<>> \in Seq(TryFrames)
    BY EmptySeq
  <2>2. stack'[t] = <<End(c, at)>> \o <<>>
    BY <1>6
  <2> QED
    BY <1>1, <1>2, <1>5, <2>1, <2>2, EndPushed
<1>8. Stacks'
  <2>1. /\ DOMAIN conn \subseteq DOMAIN conn'
        /\ \A d \in DOMAIN conn :
              conn[d].st = "ending" /\ conn[d].loop # t => conn'[d] = conn[d]
    BY <1>2, <1>4, <1>5 DEF Moves
  <2> QED
    BY <1>0, <1>2, <1>6, <1>7, <2>1, OthersKeepStacks
<1>9. Links'
  <2>1. /\ connectings \ {c} \subseteq connectings'
        /\ connectings' \subseteq DOMAIN conn \cup {c}
        /\ conn[c].st # "dropped"
    BY <1>0, <1>4
  <2> QED
    BY <1>0, <1>1, <1>2, <1>4, <1>5, <2>1, MoveKeepsLinks
<1>10. SizeIsHeld'
  <2>1. CountedOnce(c)
    BY <1>4 DEF CountedOnce, Held
  <2> QED
    BY <1>0, <1>5, <2>1, MoveIsCounted
<1>11. Typed'
  BY <1>0, <1>4, <1>5, <1>6 DEF Typed, Moves
<1> QED
  BY <1>8, <1>9, <1>10, <1>11 DEF PeerInv

\* A step that touches only the stack of t keeps the rest of the invariant.
LEMMA StackOnlyStep ==
    ASSUME PeerInv, NEW t \in Threads, DOMAIN stack' = Threads,
           \A u \in Threads \ {t} : stack'[u] = stack[u], StackOK(t)',
           UNCHANGED <<sessions, connectings, size, conn, crashed>>,
           peers' \in Seq(Addresses \ (Invalid \cup {Local})), addrs' \in 0..MaxAddrs
    PROVE  PeerInv'
<1>0. Typed /\ Stacks /\ Links /\ SizeIsHeld
  BY DEF PeerInv
<1>1. Stacks'
  BY <1>0, OthersKeepStacks
<1>2. Typed'
  BY <1>0 DEF Typed
<1>3. Links' /\ SizeIsHeld'
  BY <1>0 DEF Links, SessionOfPeer, KeptAlive, Dropped, In, SizeIsHeld, Held
<1> QED
  BY <1>1, <1>2, <1>3 DEF PeerInv

\* connect_peer's checks.
LEMMA CheckStep ==
    ASSUME PeerInv, NEW t \in Threads, Check(t)
    PROVE  PeerInv'
<1>0. /\ StackOK(t) /\ DOMAIN stack = Threads
      /\ peers \in Seq(Addresses \ (Invalid \cup {Local})) /\ addrs \in 0..MaxAddrs
  BY DEF PeerInv, Typed, Stacks
<1>1. /\ stack[t] \in Seq(TryFrames) /\ stack[t] # <<>>
      /\ Head(stack[t]) \in TryFrames /\ Tail(stack[t]) \in Seq(TryFrames)
  BY <1>0, TryOnTop DEF Check
<1>2. UNCHANGED <<peers, sessions, connectings, size, conn, addrs, crashed>>
  BY DEF Check
<1> DEFINE p == Head(Head(stack[t]).rest)
<1>3. CASE Refused(p)
  <2>1. Returned(t, FALSE) \in Seq(TryFrames)
    BY <1>1, ReturnedTries
  <2>2. stack' = [stack EXCEPT ![t] = Returned(t, FALSE)]
    BY <1>3 DEF Check
  <2>3. /\ DOMAIN stack' = Threads /\ stack'[t] = Returned(t, FALSE)
        /\ \A u \in Threads \ {t} : stack'[u] = stack[u]
    BY <1>0, <2>2, StackReplaced
  <2>4. StackOK(t)'
    <3>1. stack'[t] \in Seq(TryFrames) /\ TryFrames' = TryFrames
      BY <2>1, <2>3 DEF TryFrames
    <3> QED
      BY <3>1 DEF StackOK
  <2> QED
    BY <1>0, <1>2, <2>3, <2>4, StackOnlyStep
<1>4. CASE ~Refused(p)
  <2>1. stack' = At(t, "record")
    BY <1>4 DEF Check
  <2>2. /\ DOMAIN stack' = Threads /\ stack'[t] # <<>>
        /\ Head(stack'[t]) = [Head(stack[t]) EXCEPT !.at = "record"]
        /\ Tail(stack'[t]) = Tail(stack[t])
        /\ \A u \in Threads \ {t} : stack'[u] = stack[u]
    BY <1>0, <1>1, <2>1, FrameMoves
  <2>3. [Head(stack[t]) EXCEPT !.at = "record"] \in TryFrames
    BY <1>1, <1>4, TryGoesOn DEF Refused
  <2>4. StackOK(t)'
    BY <1>0, <1>1, <2>1, <2>3, TryStack
  <2> QED
    BY <1>0, <1>2, <2>2, <2>4, StackOnlyStep
<1> QED
  BY <1>3, <1>4

\* connect_peer records the peer.
LEMMA RecordStep ==
    ASSUME PeerInv, NEW t \in Threads, Record(t)
    PROVE  PeerInv'
<1> DEFINE P == Addresses \ (Invalid \cup {Local})
           p == Head(Head(stack[t]).rest)
<1>0. /\ StackOK(t) /\ DOMAIN stack = Threads /\ peers \in Seq(P) /\ addrs \in 0..MaxAddrs
  BY DEF PeerInv, Typed, Stacks
<1>1. /\ stack[t] \in Seq(TryFrames) /\ stack[t] # <<>>
      /\ Head(stack[t]) \in TryFrames /\ Head(stack[t]).at = "record"
      /\ Tail(stack[t]) \in Seq(TryFrames)
  BY <1>0, TryOnTop DEF Record
<1>2. /\ UNCHANGED <<sessions, connectings, size, conn, addrs, crashed>>
      /\ peers' = IF Contains(peers, p) THEN peers ELSE Append(peers, p)
      /\ stack' = At(t, "count")
  BY DEF Record
<1>3. p \in P
  <2>1. /\ Head(stack[t]).rest \in Seq(Addresses) /\ Head(stack[t]).rest # <<>>
        /\ p \notin Invalid \cup {Local}
    BY <1>1 DEF TryFrames
  <2>2. p \in Addresses
    BY <2>1, HeadTailProperties
  <2> QED
    BY <2>1, <2>2
<1> HIDE DEF P, p
<1>4. peers' \in Seq(P)
  BY <1>0, <1>2, <1>3, AppendProperties
<1>5. /\ DOMAIN stack' = Threads
      /\ \A u \in Threads \ {t} : stack'[u] = stack[u]
  BY <1>0, <1>1, <1>2, FrameMoves
<1>6. [Head(stack[t]) EXCEPT !.at = "count"] \in TryFrames
  BY <1>1, TryGoesOn
<1>7. StackOK(t)'
  BY <1>0, <1>1, <1>2, <1>6, TryStack
<1> QED
  BY <1>0, <1>2, <1>4, <1>5, <1>7, StackOnlyStep DEF P

\* An AddrDatagram starts connect_peer.
LEMMA RecvAddrStep ==
    ASSUME PeerInv, NEW t \in Loops, NEW a \in Addresses, RecvAddr(t, a)
    PROVE  PeerInv'
<1>0. /\ DOMAIN stack = Threads /\ t \in Threads
      /\ peers \in Seq(Addresses \ (Invalid \cup {Local})) /\ addrs \in 0..MaxAddrs
  BY DEF PeerInv, Typed, Threads
<1>1. /\ UNCHANGED <<peers, sessions, connectings, size, conn, crashed>>
      /\ addrs < MaxAddrs /\ addrs' = addrs + 1
      /\ stack' = [stack EXCEPT ![t] = <<Try(<<a>>, FALSE)>>]
  BY DEF RecvAddr
<1>2. /\ DOMAIN stack' = Threads /\ stack'[t] = <<Try(<<a>>, FALSE)>>
      /\ \A u \in Threads \ {t} : stack'[u] = stack[u]
  BY <1>0, <1>1, StackReplaced
<1>3. <<a>> \in Seq(Addresses) /\ <<a>> # <<>>
  OBVIOUS
<1>4. Try(<<a>>, FALSE) \in TryFrames
  BY <1>3, NewTry
<1>5. StackOK(t)'
  <2>0. <<Try(<<a>>, FALSE)>> \in Seq(TryFrames)
    BY <1>4, OneFrame
  <2>1. stack'[t] \in Seq(TryFrames)
    BY <1>2, <2>0
  <2>2. TryFrames' = TryFrames
    BY DEF TryFrames
  <2> QED
    BY <2>1, <2>2 DEF StackOK
<1>6. addrs' \in 0..MaxAddrs
  BY <1>0, <1>1, PeerAssumption
<1> QED
  BY <1>0, <1>1, <1>2, <1>5, <1>6, StackOnlyStep

\* maintain_connection_count starts with the peers of the moment.
LEMMA MaintainStep ==
    ASSUME PeerInv, NEW t \in Threads, Maintain(t)
    PROVE  PeerInv'
<1>0. /\ StackOK(t) /\ DOMAIN stack = Threads
      /\ peers \in Seq(Addresses \ (Invalid \cup {Local})) /\ addrs \in 0..MaxAddrs
  BY DEF PeerInv, Typed, Stacks
<1>1. Tail(stack[t]) \in Seq(TryFrames)
  BY <1>0, EndOnTop DEF Maintain
<1> DEFINE s == (IF peers = <<>> THEN <<>> ELSE <<Try(peers, TRUE)>>) \o Tail(stack[t])
<1>2. /\ UNCHANGED <<peers, sessions, connectings, size, conn, addrs, crashed>>
      /\ stack' = [stack EXCEPT ![t] = s]
  BY DEF Maintain
<1>3. s \in Seq(TryFrames)
  <2>1. CASE peers = <<>>
    BY <1>1, <2>1, ConcatEmptySeq
  <2>2. CASE peers # <<>>
    <3>1. peers \in Seq(Addresses)
      BY <1>0, SeqMonotonic
    <3>2. Try(peers, TRUE) \in TryFrames
      BY <2>2, <3>1, NewTry
    <3>3. <<Try(peers, TRUE)>> \in Seq(TryFrames)
      BY <3>2, OneFrame
    <3> QED
      BY <1>1, <2>2, <3>3, ConcatProperties
  <2> QED
    BY <2>1, <2>2
<1> HIDE DEF s
<1>4. /\ DOMAIN stack' = Threads /\ stack'[t] = s
      /\ \A u \in Threads \ {t} : stack'[u] = stack[u]
  BY <1>0, <1>2, StackReplaced
<1>5. StackOK(t)'
  <2>1. stack'[t] \in Seq(TryFrames) /\ TryFrames' = TryFrames
    BY <1>3, <1>4 DEF TryFrames
  <2> QED
    BY <2>1 DEF StackOK
<1> QED
  BY <1>0, <1>2, <1>4, <1>5, StackOnlyStep

\* A frame of handle_close or handle_error goes on.
LEMMA EndStack ==
    ASSUME NEW t \in Threads, DOMAIN stack = Threads,
           stack[t] \in Seq(FrameType), stack[t] # <<>>, Head(stack[t]) \in EndFrames(t),
           Tail(stack[t]) \in Seq(TryFrames),
           NEW at \in {"peer", "uncount", "maintain"}, stack' = At(t, at),
           NEW c, c = Head(stack[t]).conn,
           \/ at = "maintain"
           \/ c \in DOMAIN conn' /\ conn'[c].st = "ending" /\ conn'[c].loop = t
    PROVE  /\ StackOK(t)' /\ DOMAIN stack' = Threads
           /\ \A u \in Threads \ {t} : stack'[u] = stack[u]
<1> DEFINE f == Head(stack[t])
           g == [f EXCEPT !.at = at]
<1>1. /\ DOMAIN stack' = Threads /\ stack'[t] # <<>> /\ Head(stack'[t]) = g
      /\ Tail(stack'[t]) = Tail(stack[t])
      /\ \A u \in Threads \ {t} : stack'[u] = stack[u]
  BY FrameMoves
<1>2. f \in [op : {"end"}, at : {"session", "peer", "uncount", "maintain"}, rest : {<<>>},
             first : {FALSE}, conn : Nat]
  BY DEF EndFrames
<1>3. stack'[t] = [stack[t] EXCEPT ![1].at = at] /\ f = stack[t][1] /\ 1 \in 1..Len(stack[t])
  BY DEF At
<1>4. stack'[t] = [stack[t] EXCEPT ![1] = g]
  BY <1>3
<1> HIDE DEF f
<1>5. /\ g \in [op : {"end"}, at : {"session", "peer", "uncount", "maintain"}, rest : {<<>>},
                first : {FALSE}, conn : Nat]
      /\ g.at = at /\ g.conn = f.conn
  BY <1>2
<1>6. g \in EndFrames(t)'
  BY <1>5 DEF EndFrames, f
<1>7. g \in FrameType
  BY <1>5 DEF FrameType
<1> HIDE DEF g
<1>8. stack'[t] \in Seq(FrameType)
  BY <1>3, <1>4, <1>7, ExceptSeq
<1>9. TryFrames' = TryFrames
  BY DEF TryFrames
<1> QED
  BY <1>1, <1>6, <1>8, <1>9 DEF StackOK

\* handle_close removes the session of the peer, and with it the connection that the
\* session kept, unless its loop has a reference to it.
LEMMA RemoveSessionStep ==
    ASSUME PeerInv, NEW t \in Threads, RemoveSession(t)
    PROVE  PeerInv'
<1>0. /\ Typed /\ Stacks /\ Links /\ SizeIsHeld /\ StackOK(t)
      /\ conn \in Seq(ConnType) /\ DOMAIN stack = Threads
      /\ sessions \in [Addresses -> Nat] /\ connectings \subseteq DOMAIN conn
      /\ SessionOfPeer /\ KeptAlive /\ crashed \in BOOLEAN
  BY DEF PeerInv, Typed, Stacks, Links
<1>1. /\ stack[t] \in Seq(FrameType) /\ stack[t] # <<>>
      /\ Head(stack[t]) \in EndFrames(t) /\ Head(stack[t]).at = "session"
      /\ Tail(stack[t]) \in Seq(TryFrames)
  BY <1>0, EndOnTop DEF RemoveSession
<1>2. PICK c \in DOMAIN conn :
          c = Head(stack[t]).conn /\ conn[c].st = "ending" /\ conn[c].loop = t
  BY <1>1 DEF EndFrames
<1>3. \A e \in DOMAIN conn : e # 0 /\ conn[e].to \in Addresses
  BY <1>0, ConnNumbers DEF ConnType
<1>4. PICK p \in Addresses : p = conn[c].to
  BY <1>3
<1>5. PICK d \in Nat : d = sessions[p]
  BY <1>0
<1>6. /\ sessions' = [sessions EXCEPT ![p] = 0]
      /\ IF d \in In({"open"}) THEN Removed(d) ELSE UNCHANGED <<conn, crashed>>
      /\ stack' = At(t, "peer")
      /\ UNCHANGED <<peers, connectings, size, addrs>>
  BY <1>2, <1>4, <1>5 DEF RemoveSession
<1>7. /\ sessions' \in [Addresses -> Nat] /\ sessions'[p] = 0
      /\ \A a \in Addresses \ {p} : sessions'[a] = sessions[a]
  BY <1>0, <1>6
<1>8. \A e \in DOMAIN conn : conn[e].st = "open" /\ conn[e].to = p => e = d
  BY <1>0, <1>4, <1>5 DEF KeptAlive, In
\* Whatever becomes of it, every other connection is as before.
<1>9. /\ conn' \in Seq(ConnType) /\ DOMAIN conn' = DOMAIN conn
      /\ \A e \in DOMAIN conn :
            /\ conn'[e].to = conn[e].to
            /\ \/ conn'[e] = conn[e]
               \/ e = d /\ conn[e].st = "open" /\ conn'[e].st \in {"dropped", "reading"}
            /\ conn[e].st = "open" /\ conn[e].to = p => conn'[e].st # "open"
  <2>1. CASE d \in DOMAIN conn /\ conn[d].st = "open"
    <3>1. PICK s \in {"dropped", "reading"} : conn' = [conn EXCEPT ![d].st = s]
      BY <1>6, <2>1 DEF In, Removed
    <3>2. s \in States
      BY DEF States
    <3>3. Moves(d, conn[d].to, conn[d].loop, s)
      BY <1>0, <2>1, <3>1, <3>2, ConnMoves
    <3> QED
      BY <1>8, <2>1, <3>3 DEF Moves
  <2>2. CASE ~(d \in DOMAIN conn /\ conn[d].st = "open")
    <3>1. conn' = conn
      BY <1>6, <2>2 DEF In
    <3> QED
      BY <1>0, <1>8, <2>2, <3>1
  <2> QED
    BY <2>1, <2>2
<1>10. c \in DOMAIN conn' /\ conn'[c].st = "ending" /\ conn'[c].loop = t
  BY <1>2, <1>9
<1>11. /\ StackOK(t)' /\ DOMAIN stack' = Threads
       /\ \A u \in Threads \ {t} : stack'[u] = stack[u]
  BY <1>0, <1>1, <1>2, <1>6, <1>10, EndStack
<1>12. Stacks'
  <2>1. \A e \in DOMAIN conn :
            conn[e].st = "ending" /\ conn[e].loop # t => conn'[e] = conn[e]
    BY <1>9
  <2> QED
    BY <1>0, <1>9, <1>11, <2>1, OthersKeepStacks
<1>13. SessionOfPeer'
  <2> SUFFICES ASSUME NEW a \in Addresses, sessions'[a] # 0
               PROVE  /\ sessions'[a] \in DOMAIN conn'
                      /\ conn'[sessions'[a]].to = a
                      /\ conn'[sessions'[a]].st \in {"open", "ending", "ended"}
    BY DEF SessionOfPeer
  <2>1. a # p /\ sessions'[a] = sessions[a]
    BY <1>7
  <2>2. /\ sessions[a] \in DOMAIN conn /\ conn[sessions[a]].to = a
        /\ conn[sessions[a]].st \in {"open", "ending", "ended"}
    BY <1>0, <2>1 DEF SessionOfPeer
  <2>3. sessions[a] # d
    <3>1. CASE d # 0
      <4>1. conn[d].to = p
        BY <1>0, <1>5, <3>1 DEF SessionOfPeer
      <4> QED
        BY <2>1, <2>2, <4>1
    <3>2. CASE d = 0
      BY <1>3, <2>2, <3>2
    <3> QED
      BY <3>1, <3>2
  <2> QED
    BY <1>9, <2>1, <2>2, <2>3
<1>14. KeptAlive'
  <2>1. ASSUME NEW e \in DOMAIN conn', conn'[e].st = "connecting"
        PROVE  e \in connectings'
    BY <1>0, <1>6, <1>9, <2>1 DEF KeptAlive, In
  <2>2. ASSUME NEW e \in DOMAIN conn', conn'[e].st = "open"
        PROVE  sessions'[conn'[e].to] = e
    <3>1. e \in DOMAIN conn /\ conn'[e] = conn[e] /\ conn[e].st = "open"
      BY <1>9, <2>2
    <3>2. conn[e].to # p /\ conn[e].to \in Addresses
      BY <1>3, <1>9, <2>2, <3>1
    <3>3. sessions[conn[e].to] = e
      BY <1>0, <3>1 DEF KeptAlive, In
    <3> QED
      BY <1>7, <3>1, <3>2, <3>3
  <2>3. ASSUME NEW e \in DOMAIN conn', conn'[e].st = "dropped"
        PROVE  \E x \in DOMAIN conn' \ {e} : conn'[x].to = conn'[e].to
    <3>1. CASE conn[e].st = "dropped"
      <4>1. e \in Dropped
        BY <1>9, <3>1 DEF Dropped, In
      <4>2. PICK x \in DOMAIN conn \ {e} : conn[x].to = conn[e].to
        BY <1>0, <4>1 DEF KeptAlive
      <4> QED
        BY <1>9, <4>1, <4>2
    <3>2. CASE conn[e].st # "dropped"
      <4>1. e \in DOMAIN conn /\ e = d /\ conn[e].st = "open"
        BY <1>9, <2>3, <3>2
      <4>2. conn[e].to = p
        BY <1>0, <1>3, <1>5, <4>1 DEF SessionOfPeer
      <4>3. c # e
        BY <1>2, <4>1
      <4> QED
        BY <1>2, <1>4, <1>9, <4>1, <4>2, <4>3
    <3> QED
      BY <3>1, <3>2
  <2> QED
    BY <2>1, <2>2, <2>3 DEF KeptAlive, Dropped, In
<1>15. Links'
  BY <1>0, <1>6, <1>7, <1>9, <1>13, <1>14 DEF Links
<1>16. SizeIsHeld'
  <2>1. Held' = Held
    BY <1>9 DEF Held
  <2> QED
    BY <1>0, <1>6, <2>1 DEF SizeIsHeld
<1>17. crashed' \in BOOLEAN
  <2>1. CASE UNCHANGED crashed
    BY <1>0, <2>1
  <2>2. CASE crashed' \in {FALSE, Idle(conn[d].loop)}
    BY <2>2 DEF Idle
  <2> QED
    BY <1>6, <2>1, <2>2 DEF Removed
<1>18. Typed'
  BY <1>0, <1>6, <1>9, <1>11, <1>17 DEF Typed
<1> QED
  BY <1>12, <1>15, <1>16, <1>18 DEF PeerInv

\* handle_close or handle_error removes the peer from the list.
LEMMA RemovePeerStep ==
    ASSUME PeerInv, NEW t \in Threads, RemovePeer(t)
    PROVE  PeerInv'
<1> DEFINE P == Addresses \ (Invalid \cup {Local})
<1>0. /\ StackOK(t) /\ DOMAIN stack = Threads /\ peers \in Seq(P) /\ addrs \in 0..MaxAddrs
  BY DEF PeerInv, Typed, Stacks
<1>1. /\ stack[t] \in Seq(FrameType) /\ stack[t] # <<>>
      /\ Head(stack[t]) \in EndFrames(t) /\ Head(stack[t]).at = "peer"
      /\ Tail(stack[t]) \in Seq(TryFrames)
  BY <1>0, EndOnTop DEF RemovePeer
<1>2. PICK c \in DOMAIN conn :
          c = Head(stack[t]).conn /\ conn[c].st = "ending" /\ conn[c].loop = t
  BY <1>1 DEF EndFrames
<1>3. /\ stack' = At(t, "uncount")
      /\ UNCHANGED <<sessions, connectings, size, conn, addrs, crashed>>
  BY DEF RemovePeer
<1> HIDE DEF P
<1>4. peers' \in Seq(P)
  <2>1. CASE UNCHANGED peers
    BY <1>0, <2>1
  <2>2. CASE \E i \in DOMAIN peers : peers' = RemoveAt(peers, i)
    <3>1. PICK i \in 1..Len(peers) : peers' = SubSeq(peers, 1, i - 1) \o SubSeq(peers, i + 1, Len(peers))
      BY <1>0, <2>2, LenProperties DEF RemoveAt
    <3>2. Len(peers) \in Nat /\ \A j \in 1..Len(peers) : peers[j] \in P
      BY <1>0, LenProperties, ElementOfSeq
    <3>3. SubSeq(peers, 1, i - 1) \in Seq(P) /\ SubSeq(peers, i + 1, Len(peers)) \in Seq(P)
      BY <3>2, SubSeqProperties
    <3> QED
      BY <3>1, <3>3, ConcatProperties
  <2> QED
    BY <2>1, <2>2 DEF RemovePeer
<1>5. c \in DOMAIN conn' /\ conn'[c].st = "ending" /\ conn'[c].loop = t
  BY <1>2, <1>3
<1>6. /\ StackOK(t)' /\ DOMAIN stack' = Threads
      /\ \A u \in Threads \ {t} : stack'[u] = stack[u]
  BY <1>0, <1>1, <1>2, <1>3, <1>5, EndStack
<1> QED
  BY <1>0, <1>3, <1>4, <1>6, StackOnlyStep DEF P

\* The count is decremented: the connection has ended.
LEMMA UncountStep ==
    ASSUME PeerInv, NEW t \in Threads, Uncount(t)
    PROVE  PeerInv'
<1>0. /\ Typed /\ Stacks /\ Links /\ SizeIsHeld /\ StackOK(t)
      /\ conn \in Seq(ConnType) /\ DOMAIN stack = Threads /\ connectings \subseteq DOMAIN conn
  BY DEF PeerInv, Typed, Stacks, Links
<1>1. /\ stack[t] \in Seq(FrameType) /\ stack[t] # <<>>
      /\ Head(stack[t]) \in EndFrames(t) /\ Head(stack[t]).at = "uncount"
      /\ Tail(stack[t]) \in Seq(TryFrames)
  BY <1>0, EndOnTop DEF Uncount
<1>2. PICK c \in DOMAIN conn :
          c = Head(stack[t]).conn /\ conn[c].st = "ending" /\ conn[c].loop = t
  BY <1>1 DEF EndFrames
<1>3. /\ size' = size - 1
      /\ conn' = [conn EXCEPT ![c].st = "ended"]
      /\ stack' = At(t, "maintain")
      /\ UNCHANGED <<peers, sessions, connectings, addrs, crashed>>
  BY <1>2 DEF Uncount
<1>4. c \in Nat \ {0} /\ conn[c] \in ConnType
  BY <1>0, ConnNumbers
<1>5. PICK p \in Addresses : p = conn[c].to
  BY <1>4 DEF ConnType
<1>6. Moves(c, p, t, "ended")
  <2>1. "ended" \in States
    BY DEF States
  <2> QED
    BY <1>0, <1>2, <1>3, <1>5, <2>1, ConnMoves
<1>7. SizeIsHeld'
  <2>1. c \in Held
    BY <1>2 DEF Held
  <2> QED
    BY <1>0, <1>3, <1>6, <2>1, EndIsUncounted
<1>8. /\ StackOK(t)' /\ DOMAIN stack' = Threads
      /\ \A u \in Threads \ {t} : stack'[u] = stack[u]
  BY <1>0, <1>1, <1>2, <1>3, EndStack
<1>9. Stacks'
  <2>1. /\ DOMAIN conn \subseteq DOMAIN conn'
        /\ \A d \in DOMAIN conn :
              conn[d].st = "ending" /\ conn[d].loop # t => conn'[d] = conn[d]
    BY <1>2, <1>6 DEF Moves
  <2> QED
    BY <1>0, <1>8, <2>1, OthersKeepStacks
<1>10. Links'
  <2>1. /\ connectings \ {c} \subseteq connectings' /\ connectings' \subseteq DOMAIN conn \cup {c}
        /\ conn[c].st # "dropped"
    BY <1>0, <1>2, <1>3
  <2> QED
    BY <1>0, <1>3, <1>4, <1>6, <2>1, MoveKeepsLinks
<1>11. Typed'
  BY <1>0, <1>3, <1>6, <1>8 DEF Typed, Moves
<1> QED
  BY <1>7, <1>9, <1>10, <1>11 DEF PeerInv

\* No step of the node breaks the invariant.
LEMMA PeerInductive ==
    ASSUME PeerInv, [Next]_vars
    PROVE  PeerInv'
<1>1. CASE UNCHANGED vars
  <2>0. /\ Typed /\ Stacks /\ Links /\ SizeIsHeld
        /\ UNCHANGED <<peers, sessions, connectings, size, conn, stack, addrs, crashed>>
    BY <1>1 DEF PeerInv, vars
  <2>1. Typed'
    BY <2>0 DEF Typed
  <2>2. Stacks'
    BY <2>0 DEF Stacks, StackOK, EndFrames, TryFrames
  <2>3. Links'
    BY <2>0 DEF Links, SessionOfPeer, KeptAlive, Dropped, In
  <2>4. SizeIsHeld'
    BY <2>0 DEF SizeIsHeld, Held
  <2> QED
    BY <2>1, <2>2, <2>3, <2>4 DEF PeerInv
<1>2. ASSUME NEW t \in Threads, Step(t) \/ RunFunctor(t) PROVE PeerInv'
  BY <1>2, CheckStep, RecordStep, CountStep, RemoveSessionStep, RemovePeerStep, UncountStep,
     MaintainStep, RunFunctorStep DEF Step
<1>3. ASSUME NEW l \in Loops, NEW a \in Addresses, RecvAddr(l, a) PROVE PeerInv'
  BY <1>3, RecvAddrStep
<1>4. ASSUME NEW c \in DOMAIN conn,
             \/ HandshakeDone(c) \/ HandshakeFails(c)
             \/ Closes(c) \/ ReadFails(c) \/ ReadGoesOn(c)
      PROVE  PeerInv'
  BY <1>4, HandshakeDoneStep, EndStep, ReadGoesOnStep
<1> QED
  BY <1>1, <1>2, <1>3, <1>4 DEF Next

\* It holds when the node starts.
LEMMA InitPeer ==
    ASSUME Init
    PROVE  PeerInv
<1>1. conn = <<>> /\ DOMAIN conn = {} /\ conn \in Seq(ConnType)
  BY EmptySeq DEF Init
<1>2. Typed
  <2>1. peers \in Seq(Addresses \ (Invalid \cup {Local}))
    BY EmptySeq DEF Init
  <2>2. DOMAIN stack = Threads /\ addrs \in 0..MaxAddrs
    BY PeerAssumption DEF Init
  <2>3. crashed \in BOOLEAN
    BY Zenon DEF Init
  <2> QED
    BY <1>1, <2>1, <2>2, <2>3, Zenon DEF Typed
<1>3. Stacks
  <2>1. <<>> \in Seq(TryFrames)
    BY EmptySeq
  <2>2. ConnectSeedPeers \in Seq(TryFrames)
    <3>1. CASE Seeds = <<>>
      BY <2>1, <3>1 DEF ConnectSeedPeers
    <3>2. CASE Seeds # <<>>
      <4>1. Try(Seeds, FALSE) \in TryFrames
        BY <3>2, NewTry, PeerAssumption
      <4>2. <<Try(Seeds, FALSE)>> \in Seq(TryFrames)
        BY <4>1, OneFrame
      <4> QED
        BY <3>2, <4>2 DEF ConnectSeedPeers
    <3> QED
      BY <3>1, <3>2
  <2> QED
    BY <2>1, <2>2 DEF Init, Stacks, StackOK
<1>4. Links
  BY <1>1 DEF Init, Links, SessionOfPeer, KeptAlive, Dropped, In
<1>5. SizeIsHeld
  <2>1. Held = {}
    BY <1>1 DEF Held
  <2> QED
    BY <2>1, FS_EmptySet, PeerAssumption DEF Init, SizeIsHeld
<1> QED
  BY <1>2, <1>3, <1>4, <1>5 DEF PeerInv

\* Every behaviour of the node keeps the invariant.
THEOREM PeerInvariant == Spec => []PeerInv
BY InitPeer, PeerInductive, PTL DEF Spec
----------------------------------------------------------------------------
(***************************************************************************)
(* What the invariant says.                                                *)
(***************************************************************************)

\* The lists, sessions, counters and stacks keep their types: no peer that is invalid or
\* this node itself is ever recorded, and the count never falls below zero.
THEOREM TypeCorrect == Spec => []TypeOK
<1>1. ASSUME PeerInv PROVE TypeOK
  <2>1. Typed /\ Stacks /\ Links /\ SizeIsHeld /\ conn \in Seq(ConnType)
    BY <1>1 DEF PeerInv, Typed
  <2>2. size \in Nat
    <3>1. IsFiniteSet(Held)
      BY <2>1, ConnNumbers, FS_Subset DEF Held
    <3> QED
      BY <2>1, <3>1, FS_CardinalityType DEF SizeIsHeld
  <2>3. \A t \in Threads : stack[t] \in Seq(FrameType)
    BY <2>1, TriesAreFrames DEF Stacks, StackOK
  <2>4. \A a \in Addresses : sessions[a] \in {0} \cup DOMAIN conn
    BY <2>1 DEF Links, SessionOfPeer
  <2> QED
    BY <2>1, <2>2, <2>3, <2>4 DEF TypeOK, Typed, Links, ConnType
<1> QED
  BY <1>1, PeerInvariant, PTL

\* server_session_size_ counts the connections that are under way or open and those that
\* were destroyed unnoticed, and the limit holds, for any number of threads that open and
\* close connections at the same time.
THEOREM CountIsCorrect == Spec => []Counted
<1>1. ASSUME PeerInv PROVE Counted
  <2>1. conn \in Seq(ConnType) /\ SizeIsHeld
    BY <1>1 DEF PeerInv, Typed
  <2>2. Live \cap Dropped = {} /\ Live \cup Dropped = Held
    BY <2>1, ConnNumbers DEF Live, Dropped, In, Held, ConnType, States
  <2>3. IsFiniteSet(Live) /\ IsFiniteSet(Dropped)
    BY <2>1, ConnNumbers, FS_Subset DEF Live, Dropped, In
  <2>4. Cardinality(Held) = Cardinality(Live) + Cardinality(Dropped)
    <3>1. Cardinality(Live \cup Dropped)
              = Cardinality(Live) + Cardinality(Dropped) - Cardinality(Live \cap Dropped)
      BY <2>3, FS_Union
    <3>2. Cardinality(Live \cap Dropped) = 0
      BY <2>2, FS_EmptySet
    <3>3. Cardinality(Live) \in Nat /\ Cardinality(Dropped) \in Nat
      BY <2>3, FS_CardinalityType
    <3>4. Cardinality(Held) = Cardinality(Live \cup Dropped)
      BY <2>2, Zenon
    <3> HIDE <2>2
    <3> QED
      BY <3>1, <3>2, <3>3, <3>4
  <2>5. Cardinality(Live) \in Nat /\ Cardinality(Dropped) \in Nat
    BY <2>3, FS_CardinalityType
  <2> QED
    BY <2>1, <2>4, <2>5, PeerAssumption DEF SizeIsHeld, Counted
<1> QED
  BY <1>1, PeerInvariant, PTL

\* A connection that is being established or open is referred to; one is destroyed
\* unnoticed only where there was another to the same peer.
THEOREM ConnectionsKept == Spec => []KeptAlive
<1>1. PeerInv => KeptAlive
  BY DEF PeerInv, Links
<1> QED
  BY <1>1, PeerInvariant, PTL
=============================================================================
