----------------------- MODULE SelectiveRepeatProofs ------------------------
(***************************************************************************)
(* Proofs about SlideWindow and SelectiveRepeat, for every BufferSize and  *)
(* WindowSize that the static_assert of client.cc and server.cc allows and *)
(* any number of packets, losses and repetitions.                          *)
(***************************************************************************)
EXTENDS SelectiveRepeat, SequenceTheorems, NaturalsInduction, WellFoundedInduction, TLAPS

(***************************************************************************)
(* The window alone: what in_valid_range decides.                          *)
(***************************************************************************)

\* The room a window has for packets: one byte less than WindowSize when it goes
\* around the end of the buffer.
Room(l, r) == IF l < r THEN WindowSize ELSE WindowSize - 1

\* The window that starts at l.
RightOf(l) == Wrap(l + WindowSize)

\* Positions reduced modulo BufferSize are positions, and as far ahead as they were
\* moved.
LEMMA WrapAhead ==
    ASSUME NEW l \in Position, NEW n \in 0..(BufferSize - 1)
    PROVE  Wrap(l + n) \in Position /\ Ahead(l, Wrap(l + n)) = n
BY WindowAssumption, Z3 DEF Position, Wrap, Ahead

\* Both bounds of a window replaced at once.
LEMMA BothBounds ==
    ASSUME NEW p, NEW q, NEW x, NEW y
    PROVE  [[left |-> p, right |-> q] EXCEPT !.left = x, !.right = y]
             = [left |-> x, right |-> y]
<1>1. [[left |-> p, right |-> q] EXCEPT !.left = x] = [left |-> x, right |-> q]
  OBVIOUS
<1>2. [[left |-> x, right |-> q] EXCEPT !.right = y] = [left |-> x, right |-> y]
  OBVIOUS
<1>q. QED BY <1>1, <1>2

\* in_valid_range on a packet of at least one and at most WindowSize bytes is the
\* test that the packet lies in the window, with the room the window has.
THEOREM RangeMeansInside ==
    ASSUME NEW l \in Position, NEW s \in Position, NEW n \in 1..WindowSize
    PROVE  InValidRange(l, RightOf(l), s, Wrap(s + n))
             <=> Ahead(l, s) + n <= Room(l, RightOf(l))
<1>1. CASE l + WindowSize < BufferSize
  BY <1>1, WindowAssumption, Z3 DEF Position, Wrap, Ahead, InValidRange, Room, RightOf
<1>2. CASE l + WindowSize >= BufferSize
  <2>1. CASE s >= l
    BY <1>2, <2>1, WindowAssumption, Z3
       DEF Position, Wrap, Ahead, InValidRange, Room, RightOf
  <2>2. CASE s < l
    BY <1>2, <2>2, WindowAssumption, Z3
       DEF Position, Wrap, Ahead, InValidRange, Room, RightOf
  <2>q. QED BY <2>1, <2>2 DEF Position
<1>q. QED BY <1>1, <1>2, WindowAssumption DEF Position

\* A copy of a packet that was received before, up to WindowSize bytes back, is never
\* taken for new data: this is what 2 * WindowSize < BufferSize is for.
THEOREM OldRefused ==
    ASSUME NEW l \in Position, NEW k \in 1..WindowSize, NEW n \in 1..WindowSize
    PROVE  LET s == Wrap(l + BufferSize - k)
           IN  s \in Position /\ ~InValidRange(l, RightOf(l), s, Wrap(s + n))
<1> DEFINE s == Wrap(l + BufferSize - k)
<1>1. BufferSize - k \in 0..(BufferSize - 1)
  BY WindowAssumption
<1>2. s \in Position /\ Ahead(l, s) = BufferSize - k
  <2>1. l + BufferSize - k = l + (BufferSize - k)
    BY WindowAssumption DEF Position
  <2>q. QED BY <1>1, <2>1, WrapAhead
<1>3. ~(Ahead(l, s) + n <= Room(l, RightOf(l)))
  BY <1>2, WindowAssumption DEF Room
<1>q. QED BY <1>2, <1>3, RangeMeansInside

\* An ack up to the last byte the window let the sender send moves the window to it
\* (move_if_valid), and an older one leaves the window alone.
THEOREM AckMovesWindow ==
    ASSUME NEW l \in Position, NEW a \in Position, NEW w,
           w = [left |-> l, right |-> RightOf(l)]
    PROVE  /\ Ahead(l, a) <= Room(l, RightOf(l))
                => MoveIfValid(w, a) = [left |-> a, right |-> RightOf(a)]
           /\ Ahead(l, a) > WindowSize => MoveIfValid(w, a) = w
<1>1. ASSUME Ahead(l, a) <= Room(l, RightOf(l))
      PROVE  MoveIfValid(w, a) = [left |-> a, right |-> RightOf(a)]
  <2>1. Wrap(l + Ahead(l, a)) = a
    BY WindowAssumption DEF Position, Wrap, Ahead
  <2>2. Wrap(RightOf(l) + Ahead(l, a)) = RightOf(a)
    BY <1>1, WindowAssumption DEF Position, Wrap, Ahead, RightOf, Room
  <2>3. Moved(w, Ahead(l, a)) = [left |-> a, right |-> RightOf(a)]
    <3>1. w.left = l /\ w.right = RightOf(l)
      OBVIOUS
    <3>2. Moved(w, Ahead(l, a)) = [left |-> Wrap(l + Ahead(l, a)),
                                   right |-> Wrap(RightOf(l) + Ahead(l, a))]
      <4>1. Moved(w, Ahead(l, a)) =
              [[left |-> l, right |-> RightOf(l)] EXCEPT
                 !.left = Wrap(l + Ahead(l, a)),
                 !.right = Wrap(RightOf(l) + Ahead(l, a))]
        BY <3>1, Zenon DEF Moved
      <4>q. QED BY <4>1, BothBounds, Zenon
    <3>q. QED BY <2>1, <2>2, <3>2
  <2>4. CASE a = l
    BY <2>3, <2>4, WindowAssumption DEF MoveIfValid, InValidRange, Position, Wrap, Ahead, RightOf
  <2>5. CASE a # l
    <3>1. Ahead(l, a) \in 1..WindowSize
      BY <1>1, <2>5, WindowAssumption DEF Position, Ahead, Room
    <3>2. Ahead(l, l) + Ahead(l, a) <= Room(l, RightOf(l))
      BY <1>1, <3>1 DEF Ahead, Position
    <3>3. InValidRange(l, RightOf(l), l, a)
      BY <2>1, <3>1, <3>2, RangeMeansInside
    <3>q. QED BY <2>3, <3>3 DEF MoveIfValid
  <2>q. QED BY <2>4, <2>5
<1>2. ASSUME Ahead(l, a) > WindowSize
      PROVE  MoveIfValid(w, a) = w
  <2>1. ~InValidRange(l, RightOf(l), l, a)
    BY <1>2, WindowAssumption DEF Position, Wrap, Ahead, InValidRange, RightOf
  <2>q. QED BY <2>1 DEF MoveIfValid
<1>q. QED BY <1>1, <1>2
----------------------------------------------------------------------------
(***************************************************************************)
(* Numbers of bytes and their positions in the buffer.                     *)
(***************************************************************************)

\* The position of the byte that follows the first b bytes.
Pos(b) == b % BufferSize

\* Of two numbers with one remainder, neither is more laps ahead than the other.
LEMMA SameLap ==
    ASSUME NEW q \in Nat, NEW p \in Nat, NEW r \in Position, NEW t \in Position,
           q * BufferSize + r = p * BufferSize + t
    PROVE  ~(q < p)
<1>0. BufferSize \in Nat
  BY WindowAssumption
<1>1. SUFFICES ASSUME q < p PROVE FALSE
  OBVIOUS
<1>2. PICK k \in Nat : p = q + 1 + k
  <2>1. p - (q + 1) \in Nat /\ p = q + 1 + (p - (q + 1))
    BY <1>1
  <2> QED
    BY <2>1
<1>3. /\ p * BufferSize = q * BufferSize + BufferSize + k * BufferSize
      /\ q * BufferSize \in Nat /\ k * BufferSize \in Nat
  BY <1>0, <1>2
<1> QED
  BY <1>0, <1>3 DEF Position

\* The remainder is the only one.
LEMMA Remainder ==
    ASSUME NEW b \in Nat, NEW q \in Nat, NEW r \in Position, b = q * BufferSize + r
    PROVE  Pos(b) = r
<1> DEFINE p == b \div BufferSize
           t == b % BufferSize
<1>0. BufferSize \in Nat /\ BufferSize > 0
  BY WindowAssumption
<1>1. p \in Nat /\ t \in Position /\ b = p * BufferSize + t
  BY <1>0 DEF Position
<1> HIDE DEF p, t
<1>2. p = q
  BY <1>1, SameLap
<1>3. t = r
  <2>1. q * BufferSize \in Nat
    BY <1>0
  <2> QED
    BY <1>1, <1>2, <2>1 DEF Position
<1> QED
  BY <1>3 DEF Pos, t

\* Positions are in the buffer, and go around it.
LEMMA PosAdd ==
    ASSUME NEW b \in Nat, NEW n \in 0..(BufferSize - 1)
    PROVE  Pos(b) \in Position /\ Pos(b + n) = Wrap(Pos(b) + n)
<1> DEFINE q == b \div BufferSize
           r == Pos(b)
<1>0. BufferSize \in Nat /\ BufferSize > 0
  BY WindowAssumption
<1>1. q \in Nat /\ r \in Position /\ b = q * BufferSize + r
  BY <1>0 DEF Pos, Position
<1> HIDE DEF q, r
<1>2. q * BufferSize \in Nat /\ (q + 1) * BufferSize = q * BufferSize + BufferSize
  BY <1>0, <1>1
<1>3. Pos(b + n) = Wrap(r + n)
  <2>1. CASE r + n < BufferSize
    <3>1. r + n \in Position /\ b + n = q * BufferSize + (r + n)
      BY <1>0, <1>1, <1>2, <2>1 DEF Position
    <3> QED
      BY <1>1, <2>1, <3>1, Remainder DEF Wrap
  <2>2. CASE ~(r + n < BufferSize)
    <3>1. PICK p \in Nat : p = q + 1
      BY <1>1
    <3>2. PICK t \in Position : t = r + n - BufferSize
      BY <1>0, <1>1, <2>2 DEF Position
    <3>3. b + n \in Nat /\ b + n = p * BufferSize + t
      <4>1. p * BufferSize = q * BufferSize + BufferSize
        BY <1>2, <3>1
      <4> DEFINE x == q * BufferSize
                 y == p * BufferSize
      <4>2. x \in Nat /\ y = x + BufferSize /\ b = x + r
        BY <1>1, <1>2, <4>1
      <4> HIDE DEF x, y
      <4>3. b + n \in Nat /\ b + n = y + t
        BY <1>0, <1>1, <3>2, <4>2 DEF Position
      <4> QED
        BY <4>3 DEF y
    <3>4. Pos(b + n) = t
      BY <3>3, Remainder
    <3> QED
      BY <1>0, <1>1, <2>2, <3>2, <3>4 DEF Wrap, Position
  <2> QED
    BY <2>1, <2>2
<1> QED
  BY <1>1, <1>3 DEF r

\* How far ahead a position is says which byte it stands for.
LEMMA PosAhead ==
    ASSUME NEW a \in Nat, NEW b \in Nat, a <= b, b < a + BufferSize
    PROVE  Ahead(Pos(a), Pos(b)) = b - a
<1>1. b - a \in 0..(BufferSize - 1) /\ a + (b - a) = b
  BY WindowAssumption
<1>2. Pos(a) \in Position /\ Pos(b) = Wrap(Pos(a) + (b - a))
  BY <1>1, PosAdd
<1> QED
  BY <1>1, <1>2, WrapAhead

\* Less than a lap apart, two bytes have two positions.
LEMMA PosDiffer ==
    ASSUME NEW a \in Nat, NEW b \in Nat, a < b + BufferSize, b < a + BufferSize, Pos(a) = Pos(b)
    PROVE  a = b
<1>0. Pos(a) \in Position /\ BufferSize \in Nat /\ BufferSize > 0
  BY PosAdd, WindowAssumption
<1>1. Ahead(Pos(a), Pos(a)) = 0
  BY <1>0 DEF Ahead, Position
<1>2. CASE a <= b
  BY <1>1, <1>2, PosAhead
<1>3. CASE b <= a
  BY <1>1, <1>3, PosAhead
<1> QED
  BY <1>2, <1>3

\* Every position stands for one of the next BufferSize bytes.
LEMMA PosOf ==
    ASSUME NEW a \in Nat, NEW x \in Position
    PROVE  Ahead(Pos(a), x) \in 0..(BufferSize - 1) /\ Pos(a + Ahead(Pos(a), x)) = x
<1>0. Pos(a) \in Position
  BY PosAdd, WindowAssumption
<1>1. Ahead(Pos(a), x) \in 0..(BufferSize - 1) /\ Wrap(Pos(a) + Ahead(Pos(a), x)) = x
  BY <1>0, WindowAssumption DEF Ahead, Wrap, Position
<1> QED
  BY <1>1, PosAdd
----------------------------------------------------------------------------
(***************************************************************************)
(* The inductive invariant.  Positions and window bounds are remainders of *)
(* numbers of bytes that nobody knows; the invariant says of which.  Below *)
(*    t  is the sender's list of timers,                                   *)
(*    a  the number of bytes the sender knows to be acknowledged,          *)
(*    s  the number of bytes sent,                                         *)
(*    w  the receive window,                                               *)
(*    d  the number of bytes the receiver's user has read, and             *)
(*    q  the datagrams under way, data or acks.                            *)
(***************************************************************************)

\* A packet has the bytes after the first From up to End.
From(p) == p.first - 1
End(p) == p.first + p.len - 1

WindowType ==
    [left : Position, right : Position, read : Position, readable : Nat,
     bits : SUBSET Position, buffer : [Position -> 0..Total]]

\* The timers are those of the packets that are not acknowledged, in order, and no more
\* than a window is.
TimersOK(t, a, s) ==
    /\ t \in Seq(Packets) /\ a \in Nat /\ s \in Nat
    /\ a <= s /\ s <= a + WindowSize /\ s <= Total
    /\ \A i \in DOMAIN t :
          t[i].seq = Pos(From(t[i])) /\ a <= From(t[i]) /\ End(t[i]) <= s
    /\ \A i, j \in DOMAIN t : i < j => End(t[i]) <= From(t[j])
    /\ \A b \in a..(s - 1) : \E i \in DOMAIN t : From(t[i]) <= b /\ b < End(t[i])

\* The send window starts at a, and what was sent fits into it.
SenderOK(a) ==
    /\ sw = [left |-> Pos(a), right |-> RightOf(Pos(a))]
    /\ seq = Pos(sent)
    /\ sent - a <= Room(sw.left, sw.right)

\* n falls between two packets.
Uncut(t, n) == \A i \in DOMAIN t : n <= From(t[i]) \/ End(t[i]) <= n

\* How many bytes an ack is for.
AckNo(a, x) == a + Ahead(Pos(a), x)

\* Acks under way are for bytes that have been read, for whole packets, and in order.
AcksOK(t, a, d, q) ==
    /\ q \in Seq(Position) /\ Len(q) <= Channel
    /\ \A i \in DOMAIN q : AckNo(a, q[i]) <= d /\ Uncut(t, AckNo(a, q[i]))
    /\ \A i, j \in DOMAIN q : i < j => AckNo(a, q[i]) <= AckNo(a, q[j])

AllIn(bits, p) == \A b \in From(p)..(End(p) - 1) : Pos(b) \in bits
NoneIn(bits, p) == \A b \in From(p)..(End(p) - 1) : Pos(b) \notin bits

\* What lies ahead of a window that has got r bytes is there in whole packets.
WholePackets(t, r, bits) ==
    \A i \in DOMAIN t : r <= From(t[i]) => AllIn(bits, t[i]) \/ NoneIn(bits, t[i])

\* Only bytes of r..(s - 1) are stored ahead of the window, each at its position.
StoredAhead(s, r, bits, buffer) ==
    \A x \in bits : \E b \in r..(s - 1) : x = Pos(b) /\ buffer[x] = b + 1

\* The window starts at a packet and the bytes not read are in the buffer.
WindowOK(t, a, s, w, d) ==
    LET r == d + w.readable
    IN  /\ w \in WindowType /\ d \in Nat
        /\ a <= d /\ r <= s
        /\ w.left = Pos(r) /\ w.right = RightOf(Pos(r)) /\ w.read = Pos(d)
        /\ \A b \in d..(r - 1) : w.buffer[Pos(b)] = b + 1
        /\ StoredAhead(s, r, w.bits, w.buffer)
        /\ Uncut(t, r)
        /\ WholePackets(t, r, w.bits)

\* The window has not got further than WindowSize beyond the start of p.
Fits(s, w, d, p) ==
    /\ d + w.readable <= From(p) + WindowSize
    /\ \A b \in (d + w.readable)..(s - 1) : Pos(b) \in w.bits => b < From(p) + WindowSize

\* p has a timer, or was acknowledged.
Known(t, a, p) ==
    /\ p.seq = Pos(From(p))
    /\ (\E i \in DOMAIN t : t[i] = p) \/ End(p) <= a

\* A datagram is overtaken neither by others nor by the window by more than WindowSize.
DataOK(t, a, s, w, d, q) ==
    /\ q \in Seq(Packets) /\ Len(q) <= Channel
    /\ \A j \in DOMAIN q : Known(t, a, q[j]) /\ Fits(s, w, d, q[j])
    /\ \A i, j \in DOMAIN q : i < j => End(q[i]) <= From(q[j]) + WindowSize

\* The user has got the first bytes, in order.
InOrder(f) == f \in Seq(1..Total) /\ \A i \in DOMAIN f : f[i] = i

ProtocolInv ==
    /\ TimersOK(timers, Acked, sent) /\ SenderOK(Acked)
    /\ AcksOK(timers, Acked, Len(delivered), acks)
    /\ WindowOK(timers, Acked, sent, rw, Len(delivered))
    /\ DataOK(timers, Acked, sent, rw, Len(delivered), data)
    /\ InOrder(delivered)
----------------------------------------------------------------------------
(***************************************************************************)
(* Facts that every step uses.                                             *)
(***************************************************************************)

\* What the assumptions say of the constants.
LEMMA Sizing ==
    /\ BufferSize \in Nat /\ WindowSize \in Nat /\ WindowSize > 0 /\ Total \in Nat
    /\ 2 * WindowSize < BufferSize /\ Channel \in Nat
BY WindowAssumption, ProtocolAssumption

\* The bytes of a packet.
LEMMA PacketNumbers ==
    ASSUME NEW p \in Packets
    PROVE  /\ From(p) \in Nat /\ End(p) \in Nat /\ p.len \in 1..(WindowSize - 1)
           /\ p.first = From(p) + 1 /\ End(p) = From(p) + p.len /\ From(p) < End(p)
           /\ p.seq \in Position
<1>1. p.seq \in Position /\ p.first \in 1..Total /\ p.len \in Sizes
  BY DEF Packets
<1>2. p.len \in 1..(WindowSize - 1) /\ WindowSize \in Nat /\ Total \in Nat
  BY <1>1, ProtocolAssumption, WindowAssumption
<1> QED
  BY <1>1, <1>2 DEF From, End

\* The packets of a list.
LEMMA PacketsIn ==
    ASSUME NEW q \in Seq(Packets)
    PROVE  /\ Len(q) \in Nat /\ DOMAIN q = 1..Len(q)
           /\ \A i \in DOMAIN q : /\ q[i] \in Packets
                                  /\ From(q[i]) \in Nat /\ End(q[i]) \in Nat
                                  /\ From(q[i]) < End(q[i])
<1>1. Len(q) \in Nat /\ DOMAIN q = 1..Len(q) /\ \A i \in DOMAIN q : q[i] \in Packets
  BY LenProperties, ElementOfSeq
<1> QED
  BY <1>1, PacketNumbers

\* The bytes of a timer's packet, and where they are.
LEMMA TimerNumbers ==
    ASSUME NEW t, NEW a, NEW s, TimersOK(t, a, s), NEW i \in DOMAIN t
    PROVE  /\ t[i] \in Packets /\ t[i].seq = Pos(From(t[i]))
           /\ From(t[i]) \in Nat /\ End(t[i]) \in Nat /\ From(t[i]) < End(t[i])
           /\ a <= From(t[i]) /\ End(t[i]) <= s
<1>1. t \in Seq(Packets) /\ t[i].seq = Pos(From(t[i])) /\ a <= From(t[i]) /\ End(t[i]) <= s
  BY DEF TimersOK
<1> QED
  BY <1>1, PacketsIn

\* The invariant after a step, with the primes where they belong.
LEMMA Primed ==
    ProtocolInv' <=>
      /\ TimersOK(timers', Acked', sent') /\ SenderOK(Acked)'
      /\ AcksOK(timers', Acked', Len(delivered'), acks')
      /\ WindowOK(timers', Acked', sent', rw', Len(delivered'))
      /\ DataOK(timers', Acked', sent', rw', Len(delivered'), data')
      /\ InOrder(delivered')
BY DEF ProtocolInv

\* The numbers of the two ends: nobody is more than a window ahead.
LEMMA Numbers ==
    ASSUME NEW t, NEW a, NEW s, NEW w, NEW d, TimersOK(t, a, s), WindowOK(t, a, s, w, d)
    PROVE  /\ a \in Nat /\ s \in Nat /\ d \in Nat /\ w.readable \in Nat
           /\ d + w.readable \in Nat
           /\ a <= d /\ d <= d + w.readable /\ d + w.readable <= s
           /\ s <= a + WindowSize /\ s <= Total
<1>1. w.readable \in Nat
  BY DEF WindowOK, WindowType
<1>2. a \in Nat /\ s \in Nat /\ s <= a + WindowSize /\ s <= Total
  BY DEF TimersOK
<1>3. d \in Nat /\ a <= d /\ d + w.readable <= s
  BY DEF WindowOK
<1> QED
  BY <1>1, <1>2, <1>3

\* A packet under way was sent.
LEMMA KnownSent ==
    ASSUME NEW t, NEW a, NEW s, TimersOK(t, a, s), NEW p \in Packets, Known(t, a, p)
    PROVE  End(p) <= s
<1>0. a \in Nat /\ s \in Nat /\ a <= s /\ End(p) \in Nat
  BY PacketNumbers DEF TimersOK
<1>1. CASE End(p) <= a
  BY <1>0, <1>1
<1>2. CASE \E i \in DOMAIN t : t[i] = p
  BY <1>2, TimerNumbers
<1> QED
  BY <1>1, <1>2 DEF Known

\* What an ack is for.
LEMMA AckNumber ==
    ASSUME NEW a \in Nat, NEW x \in Position
    PROVE  /\ AckNo(a, x) \in Nat /\ a <= AckNo(a, x) /\ AckNo(a, x) < a + BufferSize
           /\ Pos(AckNo(a, x)) = x
<1>1. Ahead(Pos(a), x) \in 0..(BufferSize - 1) /\ Pos(a + Ahead(Pos(a), x)) = x
  BY PosOf
<1>2. BufferSize \in Nat
  BY Sizing
<1> QED
  BY <1>1, <1>2 DEF AckNo
----------------------------------------------------------------------------
(***************************************************************************)
(* Datagrams taken from or put on the way.                                 *)
(***************************************************************************)

\* The rest of a sequence.
LEMMA Rest ==
    ASSUME NEW S, NEW q \in Seq(S), q # <<>>
    PROVE  /\ Tail(q) \in Seq(S) /\ Len(q) \in Nat /\ Len(q) > 0 /\ Len(Tail(q)) = Len(q) - 1
           /\ 1 \in DOMAIN q /\ Head(q) = q[1] /\ Head(q) \in S
           /\ \A i \in DOMAIN Tail(q) :
                 i \in Nat /\ 0 < i /\ i + 1 \in DOMAIN q /\ Tail(q)[i] = q[i + 1]
<1>1. Len(q) \in Nat /\ Len(q) > 0 /\ DOMAIN q = 1..Len(q)
  BY EmptySeq, LenProperties
<1>2. Tail(q) \in Seq(S) /\ Len(Tail(q)) = Len(q) - 1
      /\ \A i \in 1..Len(Tail(q)) : Tail(q)[i] = q[i + 1]
  BY HeadTailProperties
<1>3. DOMAIN Tail(q) = 1..(Len(q) - 1)
  BY <1>2, LenProperties
<1>4. Head(q) = q[1] /\ q[1] \in S
  BY <1>1, ElementOfSeq
<1> QED
  BY <1>1, <1>2, <1>3, <1>4

\* An ack is taken off the way.
LEMMA AcksTail ==
    ASSUME NEW t, NEW a, NEW d, NEW q, AcksOK(t, a, d, q), q # <<>>
    PROVE  AcksOK(t, a, d, Tail(q))
<1>1. q \in Seq(Position) /\ Len(q) <= Channel /\ Channel \in Nat
  BY Sizing DEF AcksOK
<1>2. Tail(q) \in Seq(Position) /\ Len(Tail(q)) <= Channel
  BY <1>1, Rest
<1>3. \A i \in DOMAIN Tail(q) :
         i \in Nat /\ 0 < i /\ i + 1 \in DOMAIN q /\ Tail(q)[i] = q[i + 1]
  BY <1>1, Rest
<1>4. \A i \in DOMAIN Tail(q) : AckNo(a, Tail(q)[i]) <= d /\ Uncut(t, AckNo(a, Tail(q)[i]))
  BY <1>3 DEF AcksOK
<1>5. ASSUME NEW i \in DOMAIN Tail(q), NEW j \in DOMAIN Tail(q), i < j
      PROVE  AckNo(a, Tail(q)[i]) <= AckNo(a, Tail(q)[j])
  <2>1. i + 1 < j + 1 /\ i + 1 \in DOMAIN q /\ j + 1 \in DOMAIN q
    BY <1>3, <1>5
  <2>2. AckNo(a, q[i + 1]) <= AckNo(a, q[j + 1])
    BY <2>1 DEF AcksOK
  <2> QED
    BY <1>3, <2>2
<1> QED
  BY <1>2, <1>4, <1>5 DEF AcksOK

\* An ack for all that was read.
LEMMA AcksPut ==
    ASSUME NEW t, NEW a, NEW s, TimersOK(t, a, s), NEW d \in Nat, a <= d, d <= s,
           Uncut(t, d), NEW q, AcksOK(t, a, d, q)
    PROVE  AcksOK(t, a, d, Put(q, Pos(d)))
<1>1. q \in Seq(Position) /\ Len(q) <= Channel /\ Channel \in Nat /\ a \in Nat
  BY Sizing DEF AcksOK, TimersOK
<1>2. CASE ~(Len(q) < Channel)
  BY <1>2 DEF Put
<1>3. CASE Len(q) < Channel
  <2> DEFINE u == Append(q, Pos(d))
  <2>1. Pos(d) \in Position
    BY PosAdd, Sizing
  <2>2. /\ u \in Seq(Position) /\ Len(u) = Len(q) + 1 /\ Len(q) \in Nat
        /\ DOMAIN q = 1..Len(q) /\ DOMAIN u = 1..(Len(q) + 1)
        /\ u[Len(q) + 1] = Pos(d) /\ \A i \in DOMAIN q : u[i] = q[i]
    BY <1>1, <2>1, AppendProperties, LenProperties
  <2> HIDE DEF u
  <2>3. AckNo(a, Pos(d)) = d
    <3>1. d < a + BufferSize
      BY <1>1, Sizing DEF TimersOK
    <3>2. Ahead(Pos(a), Pos(d)) = d - a
      BY <1>1, <3>1, PosAhead
    <3> QED
      BY <1>1, <3>2 DEF AckNo
  <2>4. ASSUME NEW i \in DOMAIN u
        PROVE  AckNo(a, u[i]) <= d /\ Uncut(t, AckNo(a, u[i]))
    <3>1. CASE i \in DOMAIN q
      BY <2>2, <3>1 DEF AcksOK
    <3>2. CASE i = Len(q) + 1
      BY <2>2, <2>3, <3>2
    <3> QED
      BY <2>2, <3>1, <3>2
  <2>5. ASSUME NEW i \in DOMAIN u, NEW j \in DOMAIN u, i < j
        PROVE  AckNo(a, u[i]) <= AckNo(a, u[j])
    <3>0. i \in DOMAIN q
      BY <2>2, <2>5
    <3>1. CASE j \in DOMAIN q
      BY <2>2, <2>5, <3>0, <3>1 DEF AcksOK
    <3>2. CASE j = Len(q) + 1
      BY <2>2, <2>3, <2>4, <3>2
    <3> QED
      BY <2>2, <3>1, <3>2
  <2>6. u \in Seq(Position) /\ Len(u) <= Channel
    BY <1>1, <1>3, <2>2
  <2>7. AcksOK(t, a, d, u)
    BY <2>4, <2>5, <2>6 DEF AcksOK
  <2> QED
    BY <1>3, <2>7 DEF Put, u
<1> QED
  BY <1>2, <1>3

\* More was read.
LEMMA AcksRead ==
    ASSUME NEW t, NEW a \in Nat, NEW d \in Nat, NEW e \in Nat, d <= e, NEW q, AcksOK(t, a, d, q)
    PROVE  AcksOK(t, a, e, q)
<1>1. q \in Seq(Position)
  BY DEF AcksOK
<1>2. ASSUME NEW i \in DOMAIN q PROVE AckNo(a, q[i]) <= e
  <2>1. q[i] \in Position
    BY <1>1, ElementOfSeq, LenProperties
  <2>2. AckNo(a, q[i]) \in Nat /\ AckNo(a, q[i]) <= d
    BY <2>1, AckNumber DEF AcksOK
  <2> QED
    BY <2>2
<1> QED
  BY <1>2 DEF AcksOK

\* A data packet is taken off the way.
LEMMA DataTail ==
    ASSUME NEW t, NEW a, NEW s, NEW w, NEW d, NEW q, DataOK(t, a, s, w, d, q), q # <<>>
    PROVE  DataOK(t, a, s, w, d, Tail(q))
<1>1. q \in Seq(Packets) /\ Len(q) <= Channel /\ Channel \in Nat
  BY Sizing DEF DataOK
<1>2. Tail(q) \in Seq(Packets) /\ Len(Tail(q)) <= Channel
  BY <1>1, Rest
<1>3. \A i \in DOMAIN Tail(q) :
         i \in Nat /\ 0 < i /\ i + 1 \in DOMAIN q /\ Tail(q)[i] = q[i + 1]
  BY <1>1, Rest
<1>4. \A i \in DOMAIN Tail(q) : Known(t, a, Tail(q)[i]) /\ Fits(s, w, d, Tail(q)[i])
  BY <1>3 DEF DataOK
<1>5. ASSUME NEW i \in DOMAIN Tail(q), NEW j \in DOMAIN Tail(q), i < j
      PROVE  End(Tail(q)[i]) <= From(Tail(q)[j]) + WindowSize
  <2>1. i + 1 < j + 1 /\ i + 1 \in DOMAIN q /\ j + 1 \in DOMAIN q
    BY <1>3, <1>5
  <2>2. End(q[i + 1]) <= From(q[j + 1]) + WindowSize
    BY <2>1 DEF DataOK
  <2> QED
    BY <1>3, <2>2
<1> QED
  BY <1>2, <1>4, <1>5 DEF DataOK

\* A packet that is not acknowledged fits the receive window.
LEMMA NewFits ==
    ASSUME NEW t, NEW a, NEW s, TimersOK(t, a, s), NEW w, NEW d, WindowOK(t, a, s, w, d),
           NEW p \in Packets, a <= From(p)
    PROVE  Fits(s, w, d, p) /\ s <= From(p) + WindowSize
<1>1. s <= From(p) + WindowSize /\ From(p) \in Nat
  BY Numbers, PacketNumbers, Sizing
<1>2. d + w.readable <= From(p) + WindowSize
  BY <1>1, Numbers, Sizing
<1>3. \A b \in (d + w.readable)..(s - 1) : b < From(p) + WindowSize
  BY <1>1, Numbers, Sizing
<1> QED
  BY <1>1, <1>2, <1>3 DEF Fits

\* A packet with a timer is sent, for the first time or again.
LEMMA DataPut ==
    ASSUME NEW t, NEW a, NEW s, TimersOK(t, a, s), NEW w, NEW d, WindowOK(t, a, s, w, d),
           NEW q, DataOK(t, a, s, w, d, q), NEW k \in DOMAIN t
    PROVE  DataOK(t, a, s, w, d, Put(q, t[k]))
<1> DEFINE p == t[k]
<1>1. q \in Seq(Packets) /\ Len(q) <= Channel /\ Channel \in Nat
  BY Sizing DEF DataOK
<1>2. p \in Packets /\ a <= From(p) /\ Known(t, a, p)
  BY TimerNumbers DEF Known
<1>3. Fits(s, w, d, p) /\ s <= From(p) + WindowSize /\ From(p) \in Nat
  BY <1>2, NewFits, PacketNumbers
<1>4. CASE ~(Len(q) < Channel)
  BY <1>4 DEF Put
<1>5. CASE Len(q) < Channel
  <2> DEFINE u == Append(q, p)
  <2>1. /\ u \in Seq(Packets) /\ Len(u) = Len(q) + 1 /\ Len(q) \in Nat
        /\ DOMAIN q = 1..Len(q) /\ DOMAIN u = 1..(Len(q) + 1)
        /\ u[Len(q) + 1] = p /\ \A i \in DOMAIN q : u[i] = q[i]
    BY <1>1, <1>2, AppendProperties, LenProperties
  <2> HIDE DEF u, p
  <2>2. ASSUME NEW i \in DOMAIN u
        PROVE  Known(t, a, u[i]) /\ Fits(s, w, d, u[i])
    <3>1. CASE i \in DOMAIN q
      BY <2>1, <3>1 DEF DataOK
    <3>2. CASE i = Len(q) + 1
      BY <1>2, <1>3, <2>1, <3>2
    <3> QED
      BY <2>1, <3>1, <3>2
  <2>3. ASSUME NEW i \in DOMAIN u, NEW j \in DOMAIN u, i < j
        PROVE  End(u[i]) <= From(u[j]) + WindowSize
    <3>0. i \in DOMAIN q
      BY <2>1, <2>3
    <3>1. CASE j \in DOMAIN q
      BY <2>1, <2>3, <3>0, <3>1 DEF DataOK
    <3>2. CASE j = Len(q) + 1
      <4>1. q[i] \in Packets /\ Known(t, a, q[i]) /\ End(q[i]) \in Nat
        BY <1>1, <3>0, PacketsIn DEF DataOK
      <4>2. End(q[i]) <= s
        BY <4>1, KnownSent
      <4>3. s \in Nat
        BY DEF TimersOK
      <4> QED
        BY <1>3, <2>1, <3>0, <3>2, <4>1, <4>2, <4>3, Sizing
    <3> QED
      BY <2>1, <3>1, <3>2
  <2>4. u \in Seq(Packets) /\ Len(u) <= Channel
    BY <1>1, <1>5, <2>1
  <2>5. DataOK(t, a, s, w, d, u)
    BY <2>2, <2>3, <2>4 DEF DataOK
  <2> QED
    BY <1>5, <2>5 DEF Put, u, p
<1> QED
  BY <1>4, <1>5
----------------------------------------------------------------------------
(***************************************************************************)
(* A packet is submitted.                                                  *)
(***************************************************************************)

\* The bytes after s have no position in the bits of a window.
LEMMA FreeAhead ==
    ASSUME NEW r \in Nat, NEW s \in Nat, NEW bits, NEW buffer, StoredAhead(s, r, bits, buffer),
           NEW b \in Nat, s <= b, b < r + BufferSize
    PROVE  Pos(b) \notin bits
<1>1. SUFFICES ASSUME Pos(b) \in bits PROVE FALSE
  OBVIOUS
<1>2. PICK c \in r..(s - 1) : Pos(b) = Pos(c)
  BY <1>1 DEF StoredAhead
<1>3. c \in Nat /\ b < c + BufferSize /\ c < b + BufferSize /\ c < b
  BY <1>2, Sizing
<1> QED
  BY <1>2, <1>3, PosDiffer

\* p follows what was sent, and fits the send window.
LEMMA Submitted ==
    ASSUME NEW t, NEW a, NEW s, TimersOK(t, a, s), NEW p \in Packets,
           From(p) = s, p.seq = Pos(s), End(p) <= a + WindowSize, End(p) <= Total
    PROVE  TimersOK(Append(t, p), a, End(p))
<1> DEFINE u == Append(t, p)
           e == End(p)
<1>1. /\ t \in Seq(Packets) /\ a \in Nat /\ s \in Nat /\ a <= s /\ e \in Nat /\ s < e
      /\ e <= a + WindowSize /\ e <= Total
  BY PacketNumbers DEF TimersOK
<1>2. /\ u \in Seq(Packets) /\ Len(u) = Len(t) + 1 /\ Len(t) \in Nat
      /\ DOMAIN t = 1..Len(t) /\ DOMAIN u = 1..(Len(t) + 1)
      /\ u[Len(t) + 1] = p /\ \A i \in DOMAIN t : u[i] = t[i]
  BY <1>1, AppendProperties, LenProperties
<1> HIDE DEF u
<1>3. ASSUME NEW i \in DOMAIN u
      PROVE  u[i].seq = Pos(From(u[i])) /\ a <= From(u[i]) /\ End(u[i]) <= e
  <2>1. CASE i \in DOMAIN t
    BY <1>1, <1>2, <2>1, TimerNumbers
  <2>2. CASE i = Len(t) + 1
    BY <1>1, <1>2, <2>2
  <2> QED
    BY <1>2, <2>1, <2>2
<1>4. ASSUME NEW i \in DOMAIN u, NEW j \in DOMAIN u, i < j
      PROVE  End(u[i]) <= From(u[j])
  <2>0. i \in DOMAIN t
    BY <1>2, <1>4
  <2>1. CASE j \in DOMAIN t
    BY <1>2, <1>4, <2>0, <2>1 DEF TimersOK
  <2>2. CASE j = Len(t) + 1
    BY <1>2, <2>0, <2>2, TimerNumbers
  <2> QED
    BY <1>2, <2>1, <2>2
<1>5. ASSUME NEW b \in a..(e - 1)
      PROVE  \E i \in DOMAIN u : From(u[i]) <= b /\ b < End(u[i])
  <2>1. CASE b < s
    <3>1. PICK i \in DOMAIN t : From(t[i]) <= b /\ b < End(t[i])
      BY <1>1, <2>1 DEF TimersOK
    <3> QED
      BY <1>2, <3>1
  <2>2. CASE s <= b
    BY <1>1, <1>2, <2>2
  <2> QED
    BY <1>1, <2>1, <2>2
<1>6. TimersOK(u, a, e)
  <2> HIDE DEF e
  <2> QED
    BY <1>1, <1>2, <1>3, <1>4, <1>5 DEF TimersOK
<1> QED
  BY <1>6 DEF u

\* Nothing changes for acks, the window and packets under way.
LEMMA SubmittedAcks ==
    ASSUME NEW t, NEW a, NEW s, TimersOK(t, a, s), NEW p \in Packets, From(p) = s,
           NEW n \in Nat, n <= s, Uncut(t, n)
    PROVE  Uncut(Append(t, p), n)
<1> DEFINE u == Append(t, p)
<1>1. t \in Seq(Packets)
  BY DEF TimersOK
<1>2. /\ Len(t) \in Nat /\ DOMAIN t = 1..Len(t) /\ DOMAIN u = 1..(Len(t) + 1)
      /\ u[Len(t) + 1] = p /\ \A i \in DOMAIN t : u[i] = t[i]
  BY <1>1, AppendProperties, LenProperties
<1> HIDE DEF u
<1>3. ASSUME NEW i \in DOMAIN u PROVE n <= From(u[i]) \/ End(u[i]) <= n
  <2>1. CASE i \in DOMAIN t
    BY <1>2, <2>1 DEF Uncut
  <2>2. CASE i = Len(t) + 1
    BY <1>2, <2>2
  <2> QED
    BY <1>2, <2>1, <2>2
<1> QED
  BY <1>3 DEF Uncut, u

\* A new packet leaves the receive window as it is: no byte of it is stored.
LEMMA SubmittedWindow ==
    ASSUME NEW t, NEW a, NEW s, TimersOK(t, a, s), NEW w, NEW d, WindowOK(t, a, s, w, d),
           NEW p \in Packets, From(p) = s, End(p) <= a + WindowSize
    PROVE  WindowOK(Append(t, p), a, End(p), w, d)
<1> DEFINE u == Append(t, p)
           e == End(p)
           r == d + w.readable
<1>1. /\ a \in Nat /\ s \in Nat /\ d \in Nat /\ r \in Nat /\ a <= d /\ d <= r /\ r <= s
      /\ e \in Nat /\ s < e /\ e <= a + WindowSize
  BY Numbers, PacketNumbers
<1>2. /\ w \in WindowType /\ w.left = Pos(r) /\ w.right = RightOf(Pos(r)) /\ w.read = Pos(d)
      /\ \A b \in d..(r - 1) : w.buffer[Pos(b)] = b + 1
      /\ StoredAhead(s, r, w.bits, w.buffer) /\ Uncut(t, r) /\ WholePackets(t, r, w.bits)
  BY DEF WindowOK
<1>3. Uncut(u, r)
  BY <1>1, <1>2, SubmittedAcks
<1> HIDE DEF r
<1>4. StoredAhead(e, r, w.bits, w.buffer)
  <2>1. r..(s - 1) \subseteq r..(e - 1)
    BY <1>1
  <2> QED
    BY <1>2, <2>1 DEF StoredAhead
<1>5. /\ Len(t) \in Nat /\ DOMAIN t = 1..Len(t) /\ DOMAIN u = 1..(Len(t) + 1)
      /\ u[Len(t) + 1] = p /\ \A i \in DOMAIN t : u[i] = t[i]
  BY AppendProperties, LenProperties DEF TimersOK
<1>6. NoneIn(w.bits, p)
  <2>1. \A b \in From(p)..(End(p) - 1) : b \in Nat /\ s <= b /\ b < r + BufferSize
    BY <1>1, Sizing
  <2> QED
    BY <1>1, <1>2, <2>1, FreeAhead DEF NoneIn
<1> HIDE DEF u
<1>7. WholePackets(u, r, w.bits)
  <2>1. ASSUME NEW i \in DOMAIN u, r <= From(u[i])
        PROVE  AllIn(w.bits, u[i]) \/ NoneIn(w.bits, u[i])
    <3>1. CASE i \in DOMAIN t
      BY <1>2, <1>5, <2>1, <3>1 DEF WholePackets
    <3>2. CASE i = Len(t) + 1
      BY <1>5, <1>6, <3>2
    <3> QED
      BY <1>5, <3>1, <3>2
  <2> QED
    BY <2>1 DEF WholePackets
<1>8. r <= e
  BY <1>1
<1> HIDE DEF e
<1>9. WindowOK(u, a, e, w, d)
  BY <1>1, <1>2, <1>3, <1>4, <1>7, <1>8 DEF WindowOK, r
<1> QED
  BY <1>9 DEF u, e

\* A new packet leaves the packets under way as they are.
LEMMA SubmittedData ==
    ASSUME NEW t, NEW a, NEW s, TimersOK(t, a, s), NEW w, NEW d, WindowOK(t, a, s, w, d),
           NEW p \in Packets, From(p) = s, End(p) <= a + WindowSize,
           NEW q, DataOK(t, a, s, w, d, q)
    PROVE  DataOK(Append(t, p), a, End(p), w, d, q)
<1> DEFINE u == Append(t, p)
           e == End(p)
           r == d + w.readable
<1>1. /\ a \in Nat /\ s \in Nat /\ d \in Nat /\ r \in Nat /\ a <= d /\ d <= r /\ r <= s
      /\ e \in Nat /\ s < e /\ e <= a + WindowSize
  BY Numbers, PacketNumbers
<1>2. StoredAhead(s, r, w.bits, w.buffer)
  BY DEF WindowOK
<1>3. /\ Len(t) \in Nat /\ DOMAIN t = 1..Len(t) /\ DOMAIN u = 1..(Len(t) + 1)
      /\ u[Len(t) + 1] = p /\ \A i \in DOMAIN t : u[i] = t[i]
  BY AppendProperties, LenProperties DEF TimersOK
<1> HIDE DEF u
<1>4. ASSUME NEW j \in DOMAIN q PROVE Known(u, a, q[j]) /\ Fits(e, w, d, q[j])
  <2>1. Known(t, a, q[j]) /\ Fits(s, w, d, q[j])
    BY DEF DataOK
  <2>2. Known(u, a, q[j])
    BY <1>3, <2>1 DEF Known
  <2>3. ASSUME NEW b \in r..(e - 1), Pos(b) \in w.bits
        PROVE  b < From(q[j]) + WindowSize
    <3>1. CASE b < s
      BY <1>1, <2>1, <2>3, <3>1 DEF Fits
    <3>2. CASE s <= b
      <4>1. b \in Nat /\ b < r + BufferSize
        BY <1>1, Sizing
      <4> HIDE DEF r
      <4> QED
        BY <1>1, <1>2, <2>3, <3>2, <4>1, FreeAhead
    <3> QED
      BY <1>1, <3>1, <3>2
  <2> HIDE DEF e
  <2> QED
    BY <2>1, <2>2, <2>3 DEF Fits
<1> HIDE DEF e
<1>5. DataOK(u, a, e, w, d, q)
  BY <1>4 DEF DataOK
<1> QED
  BY <1>5 DEF u, e
----------------------------------------------------------------------------
(***************************************************************************)
(* An ack arrives.                                                         *)
(***************************************************************************)

\* A set of numbers that is not empty has a least one.
LEMMA LeastExists ==
    ASSUME NEW S \in SUBSET Nat, S # {}
    PROVE  \E e \in S : \A d \in S : e <= d
<1>1. PICK e \in S : \A d \in S : ~(<<d, e>> \in OpToRel(<, Nat))
  BY NatLessThanWellFounded, WFMin
<1>2. ASSUME NEW d \in S PROVE e <= d
  <2>1. <<d, e>> \notin OpToRel(<, Nat)
    BY <1>1
  <2>2. ~(d < e)
    BY <2>1 DEF OpToRel
  <2> QED
    BY <2>2
<1> QED
  BY <1>2

\* cancel_timer stops at a packet that starts at the ack, if there is one.
LEMMA CancelStops ==
    ASSUME NEW x, timers \in Seq(Packets)
    PROVE  \/ /\ \A i \in DOMAIN timers : timers[i].seq # x
              /\ CancelTimer(x) = <<>>
           \/ \E k \in DOMAIN timers :
                 /\ timers[k].seq = x
                 /\ CancelTimer(x) = SubSeq(timers, k, Len(timers))
<1> DEFINE I == {i \in 1..Len(timers) : timers[i].seq = x}
           rest == SelectInSeq(timers, LAMBDA p : p.seq = x)
<1>1. Len(timers) \in Nat /\ DOMAIN timers = 1..Len(timers)
  BY LenProperties
<1>2. rest = IF I # {} THEN Min(I) ELSE 0
  BY DEF SelectInSeq
<1>3. CancelTimer(x) = IF rest = 0 THEN <<>> ELSE SubSeq(timers, rest, Len(timers))
  BY DEF CancelTimer
<1>4. \A i : i \in I <=> i \in DOMAIN timers /\ timers[i].seq = x
  BY <1>1
<1>5. I \in SUBSET Nat /\ 0 \notin I
  BY <1>1
<1> HIDE DEF I, rest
<1>6. CASE I = {}
  BY <1>2, <1>3, <1>4, <1>6
<1>7. CASE I # {}
  <2>1. \E e \in I : \A d \in I : e <= d
    BY <1>5, <1>7, LeastExists
  <2>2. Min(I) \in I
    BY <2>1 DEF Min
  <2> QED
    BY <1>2, <1>3, <1>4, <1>5, <1>7, <2>2
<1> QED
  BY <1>6, <1>7

\* The timers u are left of t: those of the bytes from n on.
Left(u, t, n) ==
    /\ \A i \in DOMAIN u : \E j \in DOMAIN t : u[i] = t[j]
    /\ \A j \in DOMAIN t : (\E i \in DOMAIN u : u[i] = t[j]) \/ End(t[j]) <= n

\* An ack that falls between two packets cancels the timers of the packets before it
\* and leaves the others.
LEMMA Cancelled ==
    ASSUME NEW a, NEW s, TimersOK(timers, a, s), NEW n \in Nat, a <= n, n <= s,
           Uncut(timers, n)
    PROVE  TimersOK(CancelTimer(Pos(n)), n, s) /\ Left(CancelTimer(Pos(n)), timers, n)
<1> DEFINE t == timers
           u == CancelTimer(Pos(n))
<1>0. /\ t \in Seq(Packets) /\ a \in Nat /\ s \in Nat /\ s <= a + WindowSize /\ s <= Total
      /\ s <= n + WindowSize
  BY Sizing DEF TimersOK
<1>1. Len(t) \in Nat /\ DOMAIN t = 1..Len(t)
  BY <1>0, LenProperties
\* The packet that starts at the ack is the one of byte n.
<1>2. \A i \in DOMAIN t : t[i].seq = Pos(n) <=> From(t[i]) = n
  <2>1. SUFFICES ASSUME NEW i \in DOMAIN t, t[i].seq = Pos(n) PROVE From(t[i]) = n
    BY TimerNumbers
  <2>2. t[i].seq = Pos(From(t[i])) /\ From(t[i]) \in Nat /\ a <= From(t[i]) /\ From(t[i]) < s
    BY TimerNumbers, <1>0
  <2>3. n < From(t[i]) + BufferSize /\ From(t[i]) < n + BufferSize
    BY <1>0, <2>2, Sizing
  <2> QED
    BY <2>1, <2>2, <2>3, PosDiffer
<1>3. CASE (\A i \in DOMAIN t : t[i].seq # Pos(n)) /\ u = <<>>
  <2>1. n = s
    <3>1. SUFFICES ASSUME n < s PROVE FALSE
      BY <1>0
    <3>2. PICK i \in DOMAIN t : From(t[i]) <= n /\ n < End(t[i])
      BY <1>0, <3>1 DEF TimersOK
    <3>3. From(t[i]) = n
      BY <3>2, TimerNumbers DEF Uncut
    <3> QED
      BY <1>2, <1>3, <3>3
  <2>2. <<>> \in Seq(Packets) /\ DOMAIN <<>> = {}
    BY EmptySeq
  <2>3. TimersOK(u, n, s)
    BY <1>0, <1>3, <2>1, <2>2 DEF TimersOK
  <2>4. Left(u, t, n)
    BY <1>3, <2>1, <2>2, TimerNumbers DEF Left
  <2> QED
    BY <2>3, <2>4
<1>4. ASSUME NEW k \in DOMAIN t, t[k].seq = Pos(n), u = SubSeq(t, k, Len(t))
      PROVE  TimersOK(u, n, s) /\ Left(u, t, n)
  <2>1. From(t[k]) = n
    BY <1>2, <1>4
  <2>2. k \in Nat /\ 1 <= k /\ k <= Len(t)
    BY <1>1
  <2>3. /\ u \in Seq(Packets) /\ Len(u) = Len(t) - k + 1
        /\ \A i \in 1..(Len(t) - k + 1) : u[i] = t[k + i - 1]
    <3>1. \A i \in k..Len(t) : t[i] \in Packets
      BY <1>0, <1>1, <2>2, PacketsIn
    <3> QED
      BY <1>1, <1>4, <2>2, <3>1, SubSeqProperties
  <2>4. DOMAIN u = 1..(Len(t) - k + 1)
    BY <2>3, LenProperties
  <2>5. \A i \in DOMAIN u : k + i - 1 \in DOMAIN t /\ u[i] = t[k + i - 1] /\ k <= k + i - 1
    BY <1>1, <2>2, <2>3, <2>4
  <2>6. \A j \in DOMAIN t : k <= j => j - k + 1 \in DOMAIN u /\ u[j - k + 1] = t[j]
    <3>1. ASSUME NEW j \in DOMAIN t, k <= j
          PROVE  j - k + 1 \in DOMAIN u /\ u[j - k + 1] = t[j]
      <4>1. j - k + 1 \in 1..(Len(t) - k + 1) /\ k + (j - k + 1) - 1 = j
        BY <1>1, <2>2, <3>1
      <4> QED
        BY <2>3, <2>4, <4>1
    <3> QED
      BY <3>1
  <2>7. \A j \in DOMAIN t : j < k => End(t[j]) <= n
    BY <2>1 DEF TimersOK
  <2> HIDE DEF t, u
  <2>8. \A j \in DOMAIN t : k <= j => n <= From(t[j])
    <3>1. ASSUME NEW j \in DOMAIN t, k < j PROVE n <= From(t[j])
      <4>1. End(t[k]) <= From(t[j])
        BY <3>1 DEF TimersOK, t
      <4>2. From(t[k]) < End(t[k]) /\ End(t[k]) \in Nat /\ From(t[j]) \in Nat
        BY TimerNumbers DEF t
      <4> QED
        BY <2>1, <4>1, <4>2
    <3> QED
      BY <1>1, <2>1, <2>2, <3>1
  <2>9. \A i \in DOMAIN u :
           u[i].seq = Pos(From(u[i])) /\ n <= From(u[i]) /\ End(u[i]) <= s
    <3>1. \A j \in DOMAIN t : t[j].seq = Pos(From(t[j])) /\ End(t[j]) <= s
      BY TimerNumbers DEF t
    <3> QED
      BY <2>5, <2>8, <3>1
  <2>10. ASSUME NEW i \in DOMAIN u, NEW j \in DOMAIN u, i < j PROVE End(u[i]) <= From(u[j])
    <3>1. k + i - 1 < k + j - 1
      BY <2>2, <2>4, <2>10
    <3>2. End(t[k + i - 1]) <= From(t[k + j - 1])
      BY <2>5, <3>1 DEF TimersOK, t
    <3> QED
      BY <2>5, <3>2
  <2>11. ASSUME NEW b \in n..(s - 1)
         PROVE  \E i \in DOMAIN u : From(u[i]) <= b /\ b < End(u[i])
    <3>1. PICK j \in DOMAIN t : From(t[j]) <= b /\ b < End(t[j])
      <4>1. b \in a..(s - 1)
        BY <1>0
      <4> QED
        BY <4>1 DEF TimersOK, t
    <3>2. k <= j
      <4>1. End(t[j]) \in Nat /\ j \in Nat
        BY <1>1, TimerNumbers DEF t
      <4> QED
        BY <2>2, <2>7, <3>1, <4>1
    <3> QED
      BY <2>6, <3>1, <3>2
  <2>12. TimersOK(u, n, s)
    BY <1>0, <2>3, <2>9, <2>10, <2>11 DEF TimersOK
  <2>13. \A j \in DOMAIN t : (\E i \in DOMAIN u : u[i] = t[j]) \/ End(t[j]) <= n
    <3>1. \A j \in DOMAIN t : j < k \/ k <= j
      BY <1>1, <2>2
    <3> QED
      BY <2>6, <2>7, <3>1
  <2>14. \A i \in DOMAIN u : \E j \in DOMAIN t : u[i] = t[j]
    BY <2>5
  <2> QED
    BY <2>12, <2>13, <2>14 DEF Left
<1>5. \/ (\A i \in DOMAIN t : t[i].seq # Pos(n)) /\ u = <<>>
      \/ \E k \in DOMAIN t : t[k].seq = Pos(n) /\ u = SubSeq(t, k, Len(t))
  BY <1>0, CancelStops
<1>6. CASE \E k \in DOMAIN t : t[k].seq = Pos(n) /\ u = SubSeq(t, k, Len(t))
  <2>1. PICK k \in DOMAIN t : t[k].seq = Pos(n) /\ u = SubSeq(t, k, Len(t))
    BY <1>6
  <2> QED
    BY <1>4, <2>1, Zenon
<1> QED
  BY <1>3, <1>5, <1>6, Zenon

\* What was said of all timers holds of those left.
LEMMA LeftUncut ==
    ASSUME NEW u, NEW t, NEW n, Left(u, t, n), NEW m, Uncut(t, m)
    PROVE  Uncut(u, m)
BY DEF Left, Uncut

\* The receive window does not depend on the timers that were cancelled.
LEMMA LeftWindow ==
    ASSUME NEW u, NEW t, NEW a, NEW n, Left(u, t, n), NEW s, NEW w, NEW d,
           WindowOK(t, a, s, w, d), n <= d
    PROVE  WindowOK(u, n, s, w, d)
<1>1. Uncut(u, d + w.readable)
  BY LeftUncut DEF WindowOK
<1>2. WholePackets(u, d + w.readable, w.bits)
  BY DEF WindowOK, WholePackets, Left
<1> QED
  BY <1>1, <1>2 DEF WindowOK

\* A packet under way whose timer was cancelled has been acknowledged.
LEMMA LeftData ==
    ASSUME NEW u, NEW t, NEW a \in Nat, NEW n \in Nat, a <= n, Left(u, t, n),
           NEW s, NEW w, NEW d, NEW q, DataOK(t, a, s, w, d, q)
    PROVE  DataOK(u, n, s, w, d, q)
<1>1. ASSUME NEW j \in DOMAIN q PROVE Known(u, n, q[j])
  <2>1. Known(t, a, q[j]) /\ End(q[j]) \in Nat
    BY PacketsIn DEF DataOK
  <2>2. CASE End(q[j]) <= a
    BY <2>1, <2>2 DEF Known
  <2>3. CASE \E i \in DOMAIN t : t[i] = q[j]
    BY <2>1, <2>3 DEF Known, Left
  <2> QED
    BY <2>1, <2>2, <2>3 DEF Known
<1> QED
  BY <1>1 DEF DataOK

\* Later acks stand for the same bytes.
LEMMA LeftAcks ==
    ASSUME NEW u, NEW t, NEW a \in Nat, NEW d \in Nat, d < a + BufferSize,
           NEW q, AcksOK(t, a, d, q), q # <<>>,
           Left(u, t, AckNo(a, Head(q)))
    PROVE  AcksOK(u, AckNo(a, Head(q)), d, Tail(q))
<1> DEFINE n == AckNo(a, Head(q))
           h == Tail(q)
<1>1. AcksOK(t, a, d, h) /\ q \in Seq(Position) /\ h \in Seq(Position)
  BY AcksTail DEF AcksOK
<1>2. n \in Nat /\ a <= n
  BY <1>1, Rest, AckNumber
<1>3. ASSUME NEW i \in DOMAIN h PROVE AckNo(n, h[i]) = AckNo(a, h[i])
  <2>1. i + 1 \in DOMAIN q /\ h[i] = q[i + 1] /\ 1 \in DOMAIN q /\ Head(q) = q[1] /\ 1 < i + 1
    BY <1>1, Rest
  <2>2. n <= AckNo(a, h[i])
    BY <2>1 DEF AcksOK
  <2>3. h[i] \in Position
    BY <1>1, ElementOfSeq, LenProperties
  <2>4. PICK m \in Nat : m = AckNo(a, h[i]) /\ Pos(m) = h[i] /\ m < a + BufferSize
    BY <2>3, AckNumber
  <2> HIDE DEF n
  <2>5. m < n + BufferSize
    BY <1>2, <2>4, Sizing
  <2>6. Ahead(Pos(n), Pos(m)) = m - n
    BY <1>2, <2>2, <2>4, <2>5, PosAhead
  <2> QED
    BY <1>2, <2>4, <2>6 DEF AckNo
<1> HIDE DEF n, h
<1>4. \A i \in DOMAIN h : Uncut(u, AckNo(a, h[i]))
  <2>1. Left(u, t, n)
    BY DEF n
  <2> QED
    BY <1>1, <2>1, LeftUncut DEF AcksOK
<1>5. AcksOK(u, n, d, h)
  BY <1>1, <1>3, <1>4 DEF AcksOK
<1> QED
  BY <1>5 DEF n, h
----------------------------------------------------------------------------
(***************************************************************************)
(* A data packet arrives.                                                  *)
(***************************************************************************)

\* The positions that set_flag_if_valid sets.
Got(p) == {Wrap(p.seq + i) : i \in 0..(p.len - 1)}

\* What the buffer holds then.
Written(p, buffer) ==
    [x \in Position |-> IF x \in Got(p) THEN p.first + Ahead(p.seq, x) ELSE buffer[x]]

\* The positions of a packet, and the numbers written to them, are those of its bytes.
LEMMA GotBytes ==
    ASSUME NEW p \in Packets, p.seq = Pos(From(p))
    PROVE  /\ \A x \in Got(p) : \E b \in From(p)..(End(p) - 1) : x = Pos(b)
           /\ \A b \in From(p)..(End(p) - 1) :
                 /\ Pos(b) \in Got(p) /\ Pos(b) \in Position
                 /\ p.first + Ahead(p.seq, Pos(b)) = b + 1
<1>1. /\ From(p) \in Nat /\ End(p) = From(p) + p.len /\ p.len \in Nat /\ p.len < BufferSize
      /\ p.first = From(p) + 1
  BY PacketNumbers, Sizing
<1>2. \A i \in 0..(p.len - 1) : Pos(From(p) + i) = Wrap(p.seq + i)
  <2>1. \A i \in 0..(p.len - 1) : i \in 0..(BufferSize - 1)
    BY <1>1, Sizing
  <2> QED
    BY <1>1, <2>1, PosAdd
<1>3. ASSUME NEW x \in Got(p) PROVE \E b \in From(p)..(End(p) - 1) : x = Pos(b)
  <2>1. PICK i \in 0..(p.len - 1) : x = Wrap(p.seq + i)
    BY DEF Got
  <2>2. From(p) + i \in From(p)..(End(p) - 1)
    BY <1>1
  <2> QED
    BY <1>2, <2>1, <2>2
<1>4. ASSUME NEW b \in From(p)..(End(p) - 1)
      PROVE  /\ Pos(b) \in Got(p) /\ Pos(b) \in Position
             /\ p.first + Ahead(p.seq, Pos(b)) = b + 1
  <2>1. /\ b - From(p) \in 0..(p.len - 1) /\ From(p) + (b - From(p)) = b /\ b \in Nat
        /\ From(p) <= b /\ b < From(p) + BufferSize
    BY <1>1, Sizing
  <2>2. Pos(b) \in Got(p)
    <3>1. Pos(b) = Wrap(p.seq + (b - From(p)))
      BY <1>2, <2>1
    <3> QED
      BY <2>1, <3>1 DEF Got
  <2>3. Pos(b) \in Position
    BY <2>1, PosAdd, Sizing
  <2>4. Ahead(p.seq, Pos(b)) = b - From(p)
    BY <1>1, <2>1, PosAhead
  <2> QED
    BY <1>1, <2>1, <2>2, <2>3, <2>4
<1> QED
  BY <1>3, <1>4

\* The run of bits from the left bound ends where one is missing.
LEMMA RunStops ==
    ASSUME NEW left, NEW bits, NEW m \in 0..(BufferSize - 1), Wrap(left + m) \notin bits
    PROVE  /\ Run(left, bits) \in 0..m
           /\ \A i \in 0..(Run(left, bits) - 1) : Wrap(left + i) \in bits
           /\ Wrap(left + Run(left, bits)) \notin bits
<1> DEFINE S == {k \in 0..m : Wrap(left + k) \notin bits}
           P(k) == /\ \A i \in 0..(k - 1) : Wrap(left + i) \in bits
                   /\ Wrap(left + k) \notin bits
<1>0. m \in Nat /\ m < BufferSize /\ BufferSize \in Nat
  BY Sizing
<1>1. S \in SUBSET Nat /\ m \in S
  BY <1>0
<1>2. PICK e \in S : \A k \in S : e <= k
  <2> HIDE DEF S
  <2> QED
    BY <1>1, LeastExists
<1>3. e \in 0..BufferSize /\ e \in Nat /\ Wrap(left + e) \notin bits
  BY <1>0
<1>4. ASSUME NEW i \in 0..(e - 1) PROVE Wrap(left + i) \in bits
  <2>1. i \in 0..m /\ ~(e <= i)
    BY <1>0, <1>3
  <2> QED
    BY <1>2, <2>1
<1>5. \E k \in 0..BufferSize : P(k)
  BY <1>3, <1>4
<1>6. Run(left, bits) = CHOOSE k \in 0..BufferSize : P(k)
  BY DEF Run
<1> DEFINE n == Run(left, bits)
<1>7. n \in 0..BufferSize /\ P(n)
  <2> HIDE DEF P
  <2> QED
    BY <1>5, <1>6
<1> HIDE DEF n
<1>8. n <= m
  <2>1. SUFFICES ASSUME m < n PROVE FALSE
    BY <1>0, <1>7
  <2>2. m \in 0..(n - 1)
    BY <1>0, <1>7, <2>1
  <2> QED
    BY <1>7, <2>2
<1> QED
  BY <1>0, <1>7, <1>8 DEF n

\* The packet p in the buffer of w: all that is ahead of r is there in whole packets, and
\* only p is new.
TakenOK(t, s, w, d, r, p) ==
    LET B == w.bits \cup Got(p)
        F == Written(p, w.buffer)
    IN  /\ B \subseteq Position /\ F \in [Position -> 0..Total]
        /\ StoredAhead(s, r, B, F) /\ WholePackets(t, r, B)
        /\ \A b \in d..(r - 1) : F[Pos(b)] = b + 1
        /\ \A b \in r..(s - 1) : Pos(b) \in B => Pos(b) \in w.bits \/ b < End(p)

\* A packet that set_flag_if_valid takes and whose timer runs goes into free places.
LEMMA StoredUnion ==
    ASSUME NEW t, NEW a, NEW s, TimersOK(t, a, s), NEW w, NEW d, WindowOK(t, a, s, w, d),
           NEW p, NEW k \in DOMAIN t, t[k] = p,
           NEW r, r = d + w.readable, r <= From(p)
    PROVE  TakenOK(t, s, w, d, r, p)
<1> DEFINE B == w.bits \cup Got(p)
           F == Written(p, w.buffer)
<1>0. /\ a \in Nat /\ s \in Nat /\ d \in Nat /\ r \in Nat /\ a <= d /\ d <= r /\ r <= s
      /\ s <= a + WindowSize /\ s <= Total /\ Total \in Nat
      /\ BufferSize \in Nat /\ WindowSize \in Nat /\ 2 * WindowSize < BufferSize
  BY Numbers, Sizing
<1>1. /\ p \in Packets /\ p.seq = Pos(From(p)) /\ From(p) \in Nat /\ End(p) \in Nat
      /\ r <= From(p) /\ From(p) < End(p) /\ End(p) <= s
  BY TimerNumbers
<1>2. /\ w.bits \subseteq Position /\ w.buffer \in [Position -> 0..Total]
      /\ StoredAhead(s, r, w.bits, w.buffer)
      /\ \A b \in d..(r - 1) : w.buffer[Pos(b)] = b + 1
      /\ WholePackets(t, r, w.bits)
  BY DEF WindowOK, WindowType
\* Bytes that are not read or are stored have positions of their own.
<1>3. \A b, c \in d..(s - 1) : Pos(b) = Pos(c) => b = c
  <2>1. \A b, c \in d..(s - 1) :
           b \in Nat /\ c \in Nat /\ b < c + BufferSize /\ c < b + BufferSize
    BY <1>0
  <2> QED
    BY <2>1, PosDiffer
<1>4. \A b \in From(p)..(End(p) - 1) :
         /\ Pos(b) \in Got(p) /\ Pos(b) \in Position /\ b \in r..(s - 1) /\ b \in d..(s - 1)
         /\ p.first + Ahead(p.seq, Pos(b)) = b + 1
  <2>1. \A b \in From(p)..(End(p) - 1) : b \in r..(s - 1) /\ b \in d..(s - 1)
    BY <1>0, <1>1
  <2> QED
    BY <1>1, <2>1, GotBytes
<1>5. \A x \in Got(p) : \E b \in From(p)..(End(p) - 1) : x = Pos(b)
  BY <1>1, GotBytes
<1>6. \A b \in d..(s - 1) : Pos(b) \in Got(p) <=> b \in From(p)..(End(p) - 1)
  BY <1>3, <1>4, <1>5
<1>7. \A b \in d..(s - 1) : Pos(b) \in Position
  <2>1. \A b \in d..(s - 1) : b \in Nat
    BY <1>0
  <2> QED
    BY <1>0, <2>1, PosAdd
<1>8. /\ \A x \in Position \ Got(p) : F[x] = w.buffer[x]
      /\ \A b \in From(p)..(End(p) - 1) : F[Pos(b)] = b + 1
  BY <1>4 DEF Written
<1>9. F \in [Position -> 0..Total]
  <2>1. \A x \in Got(p) : p.first + Ahead(p.seq, x) \in 0..Total
    <3>1. \A b \in From(p)..(End(p) - 1) : b + 1 \in 0..Total
      BY <1>0, <1>1
    <3> QED
      BY <1>4, <1>5, <3>1
  <2> QED
    BY <1>2, <2>1 DEF Written
<1>10. B \subseteq Position
  BY <1>2, <1>4, <1>5
<1> HIDE DEF F
<1>11. ASSUME NEW x \in B PROVE \E b \in r..(s - 1) : x = Pos(b) /\ F[x] = b + 1
  <2>1. CASE x \in Got(p)
    BY <1>4, <1>5, <1>8, <2>1
  <2>2. CASE x \in w.bits /\ x \notin Got(p)
    <3>1. PICK b \in r..(s - 1) : x = Pos(b) /\ w.buffer[x] = b + 1
      BY <1>2, <2>2 DEF StoredAhead
    <3> QED
      BY <1>2, <1>8, <2>2, <3>1
  <2> QED
    BY <2>1, <2>2
<1>12. ASSUME NEW b \in d..(r - 1) PROVE F[Pos(b)] = b + 1
  <2>1. b \in d..(s - 1) /\ b \notin From(p)..(End(p) - 1)
    BY <1>0, <1>1
  <2> QED
    BY <1>2, <1>6, <1>7, <1>8, <2>1
<1>13. ASSUME NEW i \in DOMAIN t, r <= From(t[i]) PROVE AllIn(B, t[i]) \/ NoneIn(B, t[i])
  <2>1. CASE i = k
    BY <1>4, <2>1 DEF AllIn
  <2>2. CASE i # k
    <3>0. From(t[i]) \in Nat /\ End(t[i]) \in Nat /\ End(t[i]) <= s
      BY TimerNumbers
    <3>1. End(t[i]) <= From(p) \/ End(p) <= From(t[i])
      <4>1. i \in Nat /\ k \in Nat
        BY LenProperties DEF TimersOK
      <4>2. i < k \/ k < i
        BY <2>2, <4>1
      <4> QED
        BY <4>2 DEF TimersOK
    <3>2. \A b \in From(t[i])..(End(t[i]) - 1) : Pos(b) \notin Got(p)
      <4>1. \A b \in From(t[i])..(End(t[i]) - 1) :
               b \in d..(s - 1) /\ b \notin From(p)..(End(p) - 1)
        BY <1>0, <1>1, <1>13, <3>0, <3>1
      <4> QED
        BY <1>6, <4>1
    <3>3. AllIn(w.bits, t[i]) \/ NoneIn(w.bits, t[i])
      BY <1>2, <1>13 DEF WholePackets
    <3> QED
      BY <3>2, <3>3 DEF AllIn, NoneIn
  <2> QED
    BY <2>1, <2>2
<1>14. ASSUME NEW b \in r..(s - 1), Pos(b) \in B PROVE Pos(b) \in w.bits \/ b < End(p)
  <2>1. b \in d..(s - 1)
    BY <1>0
  <2>2. CASE Pos(b) \in Got(p)
    BY <1>0, <1>1, <1>6, <2>1, <2>2
  <2> QED
    BY <1>14, <2>2
<1>15. StoredAhead(s, r, B, F) /\ WholePackets(t, r, B)
  BY <1>11, <1>13 DEF StoredAhead, WholePackets
<1> QED
  BY <1>9, <1>10, <1>12, <1>14, <1>15 DEF F, TakenOK

\* From r on the bits of n bytes are set, and no more; what is left once the window has
\* moved over them.
Gapless(r, B, n) ==
    (\A i \in 0..(n - 1) : Wrap(Pos(r) + i) \in B) /\ Wrap(Pos(r) + n) \notin B

Beyond(r, B, n) == B \ {Wrap(Pos(r) + i) : i \in 0..(n - 1)}

\* The window moves over the n bytes that are there without a gap: it stops at a packet,
\* and what is left ahead of it is there in whole packets.
LEMMA Advance ==
    ASSUME NEW t, NEW a, NEW s, TimersOK(t, a, s), NEW r \in Nat, a <= r, r <= s,
           NEW B, NEW F, StoredAhead(s, r, B, F), WholePackets(t, r, B), Uncut(t, r),
           NEW n \in Nat, r + n <= s, Gapless(r, B, n)
    PROVE  /\ StoredAhead(s, r + n, Beyond(r, B, n), F)
           /\ \A b \in r..(r + n - 1) : Pos(b) \in B /\ F[Pos(b)] = b + 1
           /\ Uncut(t, r + n)
           /\ WholePackets(t, r + n, Beyond(r, B, n))
<1> DEFINE over == {Wrap(Pos(r) + i) : i \in 0..(n - 1)}
           C == Beyond(r, B, n)
<1>0. /\ a \in Nat /\ s \in Nat /\ s <= a + WindowSize /\ n \in Nat /\ r + n <= s
      /\ BufferSize \in Nat /\ WindowSize \in Nat /\ 2 * WindowSize < BufferSize
  BY Sizing DEF TimersOK
<1>1. \A i \in 0..n : Wrap(Pos(r) + i) = Pos(r + i)
  <2>1. \A i \in 0..n : i \in 0..(BufferSize - 1)
    BY <1>0
  <2> QED
    BY <2>1, PosAdd
<1>2. \A b, c \in r..s : Pos(b) = Pos(c) => b = c
  <2>1. \A b, c \in r..s :
           b \in Nat /\ c \in Nat /\ b < c + BufferSize /\ c < b + BufferSize
    BY <1>0
  <2> QED
    BY <2>1, PosDiffer
<1>3. /\ \A b \in r..(r + n - 1) : Pos(b) \in over /\ Pos(b) \in B
      /\ Pos(r + n) \notin B
  <2>1. ASSUME NEW b \in r..(r + n - 1) PROVE Pos(b) \in over /\ Pos(b) \in B
    <3>1. b - r \in 0..(n - 1) /\ b - r \in 0..n /\ r + (b - r) = b
      BY <1>0
    <3>2. Wrap(Pos(r) + (b - r)) = Pos(b)
      BY <1>1, <3>1
    <3> QED
      BY <3>1, <3>2 DEF Gapless
  <2>2. n \in 0..n
    BY <1>0
  <2> QED
    BY <1>1, <2>1, <2>2 DEF Gapless
<1>4. \A b \in (r + n)..s : Pos(b) \notin over
  <2>1. ASSUME NEW b \in (r + n)..s, Pos(b) \in over PROVE FALSE
    <3>1. PICK i \in 0..(n - 1) : Pos(b) = Wrap(Pos(r) + i)
      BY <2>1
    <3>2. i \in 0..n /\ r + i \in r..s /\ b \in r..s /\ b # r + i
      BY <1>0
    <3> QED
      BY <1>1, <1>2, <3>1, <3>2
  <2> QED
    BY <2>1
<1>5. \A b \in r..(s - 1) : Pos(b) \in B => F[Pos(b)] = b + 1
  <2>1. \A b \in r..(s - 1) : b \in r..s
    BY <1>0
  <2> QED
    BY <1>2, <2>1 DEF StoredAhead
<1>c. C = B \ over
  BY DEF Beyond
<1> HIDE DEF over, C
<1>6. ASSUME NEW x \in C PROVE \E b \in (r + n)..(s - 1) : x = Pos(b) /\ F[x] = b + 1
  <2>1. PICK b \in r..(s - 1) : x = Pos(b) /\ F[x] = b + 1
    BY <1>c DEF StoredAhead
  <2>2. b \notin r..(r + n - 1)
    BY <1>3, <1>c, <2>1
  <2>3. b \in (r + n)..(s - 1)
    BY <1>0, <2>2
  <2> QED
    BY <2>1, <2>3
<1>7. \A b \in r..(r + n - 1) : Pos(b) \in B /\ F[Pos(b)] = b + 1
  <2>1. \A b \in r..(r + n - 1) : b \in r..(s - 1)
    BY <1>0
  <2> QED
    BY <1>3, <1>5, <2>1
<1>8. ASSUME NEW i \in DOMAIN t PROVE r + n <= From(t[i]) \/ End(t[i]) <= r + n
  <2>0. From(t[i]) \in Nat /\ End(t[i]) \in Nat
    BY TimerNumbers
  <2>1. SUFFICES ASSUME From(t[i]) < r + n, r + n < End(t[i]) PROVE FALSE
    BY <1>0, <2>0
  <2>2. r <= From(t[i])
    BY <1>0, <2>0, <2>1 DEF Uncut
  <2>3. AllIn(B, t[i]) \/ NoneIn(B, t[i])
    BY <2>2 DEF WholePackets
  <2>4. From(t[i]) \in r..(r + n - 1) /\ From(t[i]) \in From(t[i])..(End(t[i]) - 1)
        /\ r + n \in From(t[i])..(End(t[i]) - 1)
    BY <1>0, <2>0, <2>1, <2>2
  <2> QED
    BY <1>3, <2>3, <2>4 DEF AllIn, NoneIn
<1>9. ASSUME NEW i \in DOMAIN t, r + n <= From(t[i]) PROVE AllIn(C, t[i]) \/ NoneIn(C, t[i])
  <2>0. From(t[i]) \in Nat /\ End(t[i]) \in Nat /\ End(t[i]) <= s
    BY TimerNumbers
  <2>1. AllIn(B, t[i]) \/ NoneIn(B, t[i])
    BY <1>0, <1>9, <2>0 DEF WholePackets
  <2>2. \A b \in From(t[i])..(End(t[i]) - 1) : Pos(b) \notin over
    <3>1. \A b \in From(t[i])..(End(t[i]) - 1) : b \in (r + n)..s
      BY <1>0, <1>9, <2>0
    <3> QED
      BY <1>4, <3>1
  <2> QED
    BY <1>c, <2>1, <2>2 DEF AllIn, NoneIn
<1>10. StoredAhead(s, r + n, C, F) /\ Uncut(t, r + n) /\ WholePackets(t, r + n, C)
  BY <1>6, <1>8, <1>9 DEF StoredAhead, Uncut, WholePackets
<1> QED
  BY <1>7, <1>10 DEF C

\* The fields of the window after set_flag_if_valid has taken a packet.
LEMMA StoreFields ==
    ASSUME NEW w \in WindowType, NEW p \in Packets,
           InValidRange(w.left, w.right, p.seq, Wrap(p.seq + p.len))
    PROVE  LET n == Run(w.left, w.bits \cup Got(p))
           IN  SetFlagIfValid(w, p.seq, p.len, p.first) =
                 [left |-> Wrap(w.left + n), right |-> Wrap(w.right + n), read |-> w.read,
                  readable |-> w.readable + n,
                  bits |-> (w.bits \cup Got(p)) \ {Wrap(w.left + i) : i \in 0..(n - 1)},
                  buffer |-> Written(p, w.buffer)]
<1> DEFINE n == Run(w.left, w.bits \cup Got(p))
           B == (w.bits \cup Got(p)) \ {Wrap(w.left + i) : i \in 0..(n - 1)}
           F == Written(p, w.buffer)
<1>1. SetFlagIfValid(w, p.seq, p.len, p.first) =
        [Moved(w, n) EXCEPT
           !.bits = (@ \cup Got(p)) \ {Wrap(w.left + i) : i \in 0..(n - 1)},
           !.buffer = [x \in Position |->
                          IF x \in Got(p) THEN p.first + Ahead(p.seq, x) ELSE @[x]],
           !.readable = @ + n]
  BY DEF SetFlagIfValid, Got
<1>2. Moved(w, n) = [w EXCEPT !.left = Wrap(w.left + n), !.right = Wrap(w.right + n)]
  BY DEF Moved
<1>3. Moved(w, n).bits = w.bits /\ Moved(w, n).buffer = w.buffer
      /\ Moved(w, n).readable = w.readable
  BY <1>2 DEF WindowType
<1>4. SetFlagIfValid(w, p.seq, p.len, p.first) =
        [Moved(w, n) EXCEPT !.bits = B, !.buffer = F, !.readable = w.readable + n]
  BY <1>1, <1>2, <1>3 DEF Written, WindowType
<1> HIDE DEF n, B, F
<1>5. [Moved(w, n) EXCEPT !.bits = B, !.buffer = F, !.readable = w.readable + n] =
        [left |-> Wrap(w.left + n), right |-> Wrap(w.right + n), read |-> w.read,
         readable |-> w.readable + n, bits |-> B, buffer |-> F]
  <2> DEFINE x == Wrap(w.left + n)
             y == Wrap(w.right + n)
             z == w.readable + n
  <2>1. w = [left |-> w.left, right |-> w.right, read |-> w.read, readable |-> w.readable,
             bits |-> w.bits, buffer |-> w.buffer]
    BY DEF WindowType
  <2>2. PICK l, g, e, m, c, f :
           /\ w = [left |-> l, right |-> g, read |-> e, readable |-> m,
                   bits |-> c, buffer |-> f]
           /\ e = w.read
    BY <2>1
  <2>3. Moved(w, n) = [[w EXCEPT !.left = x] EXCEPT !.right = y]
    BY <1>2
  <2> HIDE DEF x, y, z
  <2>4. [w EXCEPT !.left = x] =
          [left |-> x, right |-> g, read |-> e, readable |-> m, bits |-> c, buffer |-> f]
    BY <2>2
  <2>5. Moved(w, n) =
          [left |-> x, right |-> y, read |-> e, readable |-> m, bits |-> c, buffer |-> f]
    BY <2>3, <2>4
  <2>6. [Moved(w, n) EXCEPT !.bits = B] =
          [left |-> x, right |-> y, read |-> e, readable |-> m, bits |-> B, buffer |-> f]
    BY <2>5
  <2>7. [[left |-> x, right |-> y, read |-> e, readable |-> m, bits |-> B, buffer |-> f]
           EXCEPT !.buffer = F] =
          [left |-> x, right |-> y, read |-> e, readable |-> m, bits |-> B, buffer |-> F]
    OBVIOUS
  <2>8. [[left |-> x, right |-> y, read |-> e, readable |-> m, bits |-> B, buffer |-> F]
           EXCEPT !.readable = z] =
          [left |-> x, right |-> y, read |-> e, readable |-> z, bits |-> B, buffer |-> F]
    OBVIOUS
  <2>9. [Moved(w, n) EXCEPT !.bits = B, !.buffer = F, !.readable = z] =
          [left |-> x, right |-> y, read |-> w.read, readable |-> z, bits |-> B,
           buffer |-> F]
    BY <2>2, <2>6, <2>7, <2>8
  <2> QED
    BY <2>9 DEF x, y, z
<1> QED
  BY <1>4, <1>5 DEF n, B, F

\* A packet that starts before the window is refused (OldRefused).
LEMMA OldIsRefused ==
    ASSUME NEW r \in Nat, NEW p \in Packets, p.seq = Pos(From(p)), From(p) < r,
           r <= From(p) + WindowSize
    PROVE  ~InValidRange(Pos(r), RightOf(Pos(r)), p.seq, Wrap(p.seq + p.len))
<1>1. From(p) \in Nat /\ p.len \in 1..WindowSize /\ WindowSize \in Nat /\ BufferSize \in Nat
      /\ 2 * WindowSize < BufferSize
  BY PacketNumbers, Sizing
<1>2. PICK k \in 1..WindowSize : r = From(p) + k
  <2>1. r - From(p) \in 1..WindowSize /\ r = From(p) + (r - From(p))
    BY <1>1
  <2> QED
    BY <2>1
<1>3. Pos(r) = Wrap(p.seq + k) /\ p.seq \in Position
  <2>1. k \in 0..(BufferSize - 1)
    BY <1>1
  <2> QED
    BY <1>1, <1>2, <2>1, PosAdd
<1>4. Pos(r) \in Position /\ Wrap(Pos(r) + BufferSize - k) = p.seq
  BY <1>1, <1>3 DEF Wrap, Position
<1> QED
  BY <1>1, <1>4, OldRefused

\* set_flag_if_valid on a packet under way, taken or not.
LEMMA Stored ==
    ASSUME NEW t, NEW a, NEW s, TimersOK(t, a, s), NEW w, NEW d, WindowOK(t, a, s, w, d),
           NEW p \in Packets, Known(t, a, p), Fits(s, w, d, p)
    PROVE  LET v == SetFlagIfValid(w, p.seq, p.len, p.first)
           IN  /\ WindowOK(t, a, s, v, d)
               /\ \A q \in Packets :
                     Fits(s, w, d, q) /\ End(p) <= From(q) + WindowSize => Fits(s, v, d, q)
<1> DEFINE v == SetFlagIfValid(w, p.seq, p.len, p.first)
           valid == InValidRange(w.left, w.right, p.seq, Wrap(p.seq + p.len))
           r == d + w.readable
<1>0. /\ a \in Nat /\ s \in Nat /\ d \in Nat /\ r \in Nat /\ a <= d /\ d <= r /\ r <= s
      /\ s <= a + WindowSize /\ w.readable \in Nat
      /\ BufferSize \in Nat /\ WindowSize \in Nat /\ 2 * WindowSize < BufferSize
  BY Numbers, Sizing
<1>1. CASE ~valid
  <2>1. v = w
    BY <1>1 DEF SetFlagIfValid
  <2> QED
    BY <2>1
<1>2. CASE valid
  <2>1. /\ w \in WindowType /\ w.left = Pos(r) /\ w.right = RightOf(Pos(r))
        /\ w.read = Pos(d) /\ Uncut(t, r)
    BY DEF WindowOK
  <2>2. /\ p.seq = Pos(From(p)) /\ From(p) \in Nat /\ End(p) \in Nat /\ From(p) < End(p)
        /\ r <= From(p) + WindowSize
    BY PacketNumbers DEF Known, Fits
  <2>3. r <= From(p)
    <3> HIDE DEF r
    <3> QED
      BY <1>0, <1>2, <2>1, <2>2, OldIsRefused
  <2>4. PICK k \in DOMAIN t : t[k] = p
    <3>1. ~(End(p) <= a)
      BY <1>0, <2>2, <2>3
    <3> QED
      BY <3>1 DEF Known
  <2> DEFINE B == w.bits \cup Got(p)
             F == Written(p, w.buffer)
             n == Run(w.left, B)
             C == Beyond(r, B, n)
  <2>5. /\ B \subseteq Position /\ F \in [Position -> 0..Total]
        /\ StoredAhead(s, r, B, F) /\ WholePackets(t, r, B)
        /\ \A b \in d..(r - 1) : F[Pos(b)] = b + 1
        /\ \A b \in r..(s - 1) : Pos(b) \in B => Pos(b) \in w.bits \/ b < End(p)
    <3>1. r = d + w.readable
      OBVIOUS
    <3> HIDE DEF r
    <3>2. TakenOK(t, s, w, d, r, p)
      BY <2>3, <2>4, <3>1, StoredUnion
    <3> QED
      BY <3>2 DEF TakenOK
  <2>6. v = [left |-> Wrap(Pos(r) + n), right |-> Wrap(RightOf(Pos(r)) + n),
             read |-> w.read, readable |-> w.readable + n, bits |-> C, buffer |-> F]
    BY <1>2, <2>1, StoreFields DEF Beyond
  <2> HIDE DEF v, r, B, F
  <2>7. n \in 0..(s - r) /\ Gapless(r, B, n)
    <3>1. s - r \in 0..(BufferSize - 1) /\ s < r + BufferSize
      BY <1>0
    <3>2. Pos(s) \notin B
      BY <1>0, <2>5, <3>1, FreeAhead
    <3>3. Wrap(Pos(r) + (s - r)) = Pos(s)
      <4>1. r + (s - r) = s
        BY <1>0
      <4> QED
        BY <1>0, <3>1, <4>1, PosAdd
    <3> QED
      BY <2>1, <3>1, <3>2, <3>3, RunStops DEF Gapless
  <2>9. C \subseteq B
    BY DEF Beyond
  <2> HIDE DEF n
  <2>8. /\ StoredAhead(s, r + n, C, F) /\ Uncut(t, r + n) /\ WholePackets(t, r + n, C)
        /\ \A b \in r..(r + n - 1) : Pos(b) \in B /\ F[Pos(b)] = b + 1
    <3>1. a <= r /\ n \in Nat /\ r + n <= s
      BY <1>0, <2>7
    <3> QED
      BY <1>0, <2>1, <2>5, <2>7, <3>1, Advance
  <2> HIDE DEF C
  <2>10. /\ n \in Nat /\ n <= WindowSize /\ n \in 0..(BufferSize - 1) /\ r + n \in Nat
         /\ r + n <= s
    BY <1>0, <2>7
  <2>11. /\ Wrap(Pos(r) + n) = Pos(r + n) /\ Pos(r + n) \in Position
         /\ Wrap(RightOf(Pos(r)) + n) = RightOf(Pos(r + n))
         /\ RightOf(Pos(r + n)) \in Position
    <3>1. /\ Pos(r) \in Position /\ Pos(r + n) = Wrap(Pos(r) + n) /\ Pos(r + n) \in Position
      <4>1. 0 \in 0..(BufferSize - 1)
        BY <1>0
      <4> QED
        BY <1>0, <2>10, <4>1, PosAdd
    <3>2. PICK x \in Position : x = Pos(r)
      BY <3>1
    <3>3. Wrap(RightOf(x) + n) = RightOf(Wrap(x + n)) /\ RightOf(Wrap(x + n)) \in Position
      BY <1>0, <2>10 DEF Wrap, RightOf, Position
    <3> QED
      BY <3>1, <3>2, <3>3
  <2>12. /\ v.left = Pos(r + n) /\ v.right = RightOf(Pos(r + n)) /\ v.read = Pos(d)
         /\ v.readable = w.readable + n /\ v.bits = C /\ v.buffer = F
    BY <2>1, <2>6, <2>11
  <2>13. v \in WindowType
    <3>1. Pos(d) \in Position /\ w.readable + n \in Nat /\ C \in SUBSET Position
      BY <1>0, <2>5, <2>9, <2>10, PosAdd
    <3> QED
      BY <2>1, <2>5, <2>6, <2>11, <3>1 DEF WindowType
  <2>14. d + v.readable = r + n
    BY <1>0, <2>10, <2>12 DEF r
  <2>15. \A b \in d..(r + n - 1) : F[Pos(b)] = b + 1
    <3>1. \A b \in d..(r + n - 1) : b \in d..(r - 1) \/ b \in r..(r + n - 1)
      BY <1>0, <2>10
    <3> QED
      BY <2>5, <2>8, <3>1
  <2>16. WindowOK(t, a, s, v, d)
    <3> DEFINE e == r + n
    <3>1. d + v.readable = e /\ e <= s /\ v.left = Pos(e) /\ v.right = RightOf(Pos(e))
      BY <2>10, <2>12, <2>14
    <3>2. \A b \in d..(e - 1) : v.buffer[Pos(b)] = b + 1
      BY <1>0, <2>10, <2>12, <2>15
    <3>3. StoredAhead(s, e, v.bits, v.buffer) /\ Uncut(t, e) /\ WholePackets(t, e, v.bits)
      BY <2>8, <2>12
    <3> HIDE DEF e
    <3> QED
      BY <1>0, <2>12, <2>13, <3>1, <3>2, <3>3 DEF WindowOK
  <2>17. ASSUME NEW q \in Packets, Fits(s, w, d, q), End(p) <= From(q) + WindowSize
         PROVE  Fits(s, v, d, q)
    <3>0. From(q) \in Nat
      BY PacketNumbers
    <3>1. ASSUME NEW b \in r..(s - 1), Pos(b) \in B PROVE b < From(q) + WindowSize
      <4>1. CASE Pos(b) \in w.bits
        BY <2>17, <4>1 DEF Fits, r
      <4>2. CASE b < End(p)
        BY <1>0, <2>2, <2>17, <3>0, <4>2
      <4> QED
        BY <2>5, <3>1, <4>1, <4>2
    <3>2. r + n <= From(q) + WindowSize
      <4>1. CASE n = 0
        BY <1>0, <2>17, <4>1 DEF Fits, r
      <4>2. CASE n # 0
        <5>1. r + n - 1 \in r..(r + n - 1) /\ r + n - 1 \in r..(s - 1)
          BY <1>0, <2>10, <4>2
        <5>2. r + n - 1 < From(q) + WindowSize
          BY <2>8, <3>1, <5>1
        <5> QED
          BY <1>0, <2>10, <3>0, <5>2
      <4> QED
        BY <4>1, <4>2
    <3>3. \A b \in (r + n)..(s - 1) : Pos(b) \in v.bits => b < From(q) + WindowSize
      <4>1. \A b \in (r + n)..(s - 1) : b \in r..(s - 1)
        BY <1>0, <2>10
      <4> QED
        BY <2>9, <2>12, <3>1, <4>1
    <3> QED
      BY <2>14, <3>2, <3>3 DEF Fits
  <2> QED
    BY <2>16, <2>17 DEF v
<1> QED
  BY <1>1, <1>2

\* The datagrams behind the one that was received.
LEMMA StoredData ==
    ASSUME NEW t, NEW a, NEW s, TimersOK(t, a, s), NEW w, NEW d, WindowOK(t, a, s, w, d),
           NEW q, DataOK(t, a, s, w, d, q), q # <<>>,
           NEW v, v = SetFlagIfValid(w, Head(q).seq, Head(q).len, Head(q).first)
    PROVE  WindowOK(t, a, s, v, d) /\ DataOK(t, a, s, v, d, Tail(q))
<1> DEFINE p == Head(q)
           h == Tail(q)
<1>1. q \in Seq(Packets) /\ DataOK(t, a, s, w, d, h)
  BY DataTail DEF DataOK
<1>2. /\ 1 \in DOMAIN q /\ p = q[1] /\ p \in Packets /\ h \in Seq(Packets)
      /\ \A i \in DOMAIN h : i \in Nat /\ 0 < i /\ i + 1 \in DOMAIN q /\ h[i] = q[i + 1]
  BY <1>1, Rest
<1>3. Known(t, a, p) /\ Fits(s, w, d, p)
  BY <1>2 DEF DataOK
<1> HIDE DEF p, h
<1>4. v = SetFlagIfValid(w, p.seq, p.len, p.first)
  BY DEF p
<1>5. /\ WindowOK(t, a, s, v, d)
      /\ \A c \in Packets :
            Fits(s, w, d, c) /\ End(p) <= From(c) + WindowSize => Fits(s, v, d, c)
  BY <1>2, <1>3, <1>4, Stored
<1>6. ASSUME NEW i \in DOMAIN h PROVE Fits(s, v, d, h[i])
  <2>1. h[i] \in Packets /\ Fits(s, w, d, h[i])
    BY <1>1, <1>2, PacketsIn DEF DataOK
  <2>2. 1 < i + 1
    BY <1>2
  <2>3. End(p) <= From(h[i]) + WindowSize
    BY <1>2, <2>2 DEF DataOK
  <2> QED
    BY <1>5, <2>1, <2>3
<1>7. DataOK(t, a, s, v, d, h)
  BY <1>1, <1>6 DEF DataOK
<1> QED
  BY <1>5, <1>7 DEF h
----------------------------------------------------------------------------
(***************************************************************************)
(* The read callback takes all there is.                                   *)
(***************************************************************************)

\* recv_all returns the bytes that follow those read, also around the end of the buffer.
LEMMA UnreadBytes ==
    ASSUME NEW t, NEW a, NEW s, TimersOK(t, a, s), NEW w, NEW d, WindowOK(t, a, s, w, d)
    PROVE  Unread(w) = [i \in 1..w.readable |-> d + i]
<1> DEFINE m == w.readable
           n == IF m = 0 THEN 0 ELSE IF w.read <= w.left THEN m ELSE BufferSize - w.read + w.left
<1>0. /\ d \in Nat /\ m \in Nat /\ d + m \in Nat /\ m <= WindowSize /\ m < BufferSize
      /\ BufferSize \in Nat /\ WindowSize \in Nat
  BY Numbers, Sizing
<1>1. /\ w.read = Pos(d) /\ w.left = Pos(d + m) /\ w.read \in Position /\ w.left \in Position
      /\ \A b \in d..(d + m - 1) : w.buffer[Pos(b)] = b + 1
  BY DEF WindowOK, WindowType
<1>2. n = m
  <2>1. Ahead(w.read, w.left) = m
    <3>1. Ahead(Pos(d), Pos(d + m)) = (d + m) - d
      <4>1. d <= d + m /\ d + m < d + BufferSize
        BY <1>0
      <4> QED
        BY <1>0, <4>1, PosAhead
    <3> QED
      BY <1>0, <1>1, <3>1
  <2> HIDE DEF m
  <2> QED
    BY <1>0, <1>1, <2>1 DEF Ahead, Position
<1>3. \A i \in 1..m : w.buffer[Wrap(w.read + i - 1)] = d + i
  <2>1. ASSUME NEW i \in 1..m PROVE w.buffer[Wrap(w.read + i - 1)] = d + i
    <3>1. /\ i - 1 \in 0..(BufferSize - 1) /\ d + (i - 1) \in d..(d + m - 1)
          /\ w.read + i - 1 = w.read + (i - 1) /\ d + (i - 1) + 1 = d + i
      BY <1>0, <1>1 DEF Position
    <3>2. Pos(d + (i - 1)) = Wrap(w.read + (i - 1))
      BY <1>0, <1>1, <3>1, PosAdd
    <3> QED
      BY <1>1, <3>1, <3>2
  <2> QED
    BY <2>1
<1>4. Unread(w) = [i \in 1..n |-> w.buffer[Wrap(w.read + i - 1)]]
  BY DEF Unread
<1> HIDE DEF n
<1>5. Unread(w) = [i \in 1..m |-> w.buffer[Wrap(w.read + i - 1)]]
  BY <1>2, <1>4
<1> QED
  BY <1>3, <1>5

\* The window after it.
LEMMA AllRead ==
    ASSUME NEW t, NEW a, NEW s, TimersOK(t, a, s), NEW w, NEW d, WindowOK(t, a, s, w, d),
           NEW e, e = d + w.readable
    PROVE  /\ WindowOK(t, a, s, RecvAll(w), e)
           /\ \A p : Fits(s, w, d, p) => Fits(s, RecvAll(w), e, p)
<1> DEFINE v == RecvAll(w)
<1>0. d \in Nat /\ w.readable \in Nat /\ e \in Nat /\ a \in Nat /\ a <= e /\ e <= s
  BY Numbers
<1>1. /\ w \in WindowType /\ w.left = Pos(e) /\ w.right = RightOf(Pos(e))
      /\ StoredAhead(s, e, w.bits, w.buffer) /\ Uncut(t, e) /\ WholePackets(t, e, w.bits)
  BY DEF WindowOK
<1>2. CASE w.readable = 0
  <2>1. v = w /\ e = d
    BY <1>0, <1>2 DEF RecvAll
  <2> QED
    BY <2>1
<1>3. CASE w.readable # 0
  <2>1. v = [w EXCEPT !.read = w.left, !.readable = 0]
    BY <1>3 DEF RecvAll
  <2>2. /\ v \in WindowType /\ v.left = w.left /\ v.right = w.right /\ v.read = w.left
        /\ v.readable = 0 /\ v.bits = w.bits /\ v.buffer = w.buffer
    <3> HIDE DEF v
    <3>1. w.left \in Position /\ 0 \in Nat
      BY <1>1 DEF WindowType
    <3>2. /\ v.left = w.left /\ v.right = w.right /\ v.read = w.left
          /\ v.readable = 0 /\ v.bits = w.bits /\ v.buffer = w.buffer
      BY <1>1, <2>1 DEF WindowType
    <3>3. v \in WindowType
      BY <1>1, <2>1, <3>1 DEF WindowType
    <3> QED
      BY <3>2, <3>3
  <2> HIDE DEF v
  <2>3. e + v.readable = e
    BY <1>0, <2>2
  <2>4. \A b \in e..(e - 1) : FALSE
    BY <1>0
  <2>5. WindowOK(t, a, s, v, e)
    BY <1>0, <1>1, <2>2, <2>3, <2>4 DEF WindowOK
  <2>6. \A p : Fits(s, w, d, p) => Fits(s, v, e, p)
    BY <2>2, <2>3 DEF Fits
  <2> QED
    BY <2>5, <2>6 DEF v
<1> QED
  BY <1>2, <1>3

\* What the user has after it.
LEMMA Grown ==
    ASSUME NEW f, InOrder(f), NEW n \in Nat, Len(f) + n <= Total
    PROVE  LET g == f \o [i \in 1..n |-> Len(f) + i]
           IN  InOrder(g) /\ Len(g) = Len(f) + n
<1> DEFINE u == [i \in 1..n |-> Len(f) + i]
           g == f \o u
<1>1. f \in Seq(1..Total) /\ Len(f) \in Nat /\ DOMAIN f = 1..Len(f) /\ Total \in Nat
      /\ \A i \in DOMAIN f : f[i] = i
  BY LenProperties, Sizing DEF InOrder
<1>2. \A i \in 1..n : Len(f) + i \in 1..Total
  BY <1>1
<1>3. u \in Seq(1..Total) /\ Len(u) = n /\ \A i \in 1..n : u[i] = Len(f) + i
  <2>1. u \in [1..n -> 1..Total]
    BY <1>2
  <2>2. u \in Seq(1..Total)
    BY <2>1, SeqDef
  <2>3. DOMAIN u = 1..n
    OBVIOUS
  <2>4. Len(u) = n
    BY <2>2, <2>3, LenProperties
  <2> QED
    BY <2>2, <2>4
<1> HIDE DEF u
<1>4. /\ g \in Seq(1..Total) /\ Len(g) = Len(f) + n
      /\ \A i \in 1..(Len(f) + n) : g[i] = IF i <= Len(f) THEN f[i] ELSE u[i - Len(f)]
  BY <1>1, <1>3, ConcatProperties
<1> HIDE DEF g
<1>5. DOMAIN g = 1..(Len(f) + n)
  BY <1>4, LenProperties
<1>6. ASSUME NEW i \in DOMAIN g PROVE g[i] = i
  <2>1. CASE i <= Len(f)
    BY <1>1, <1>4, <1>5, <2>1
  <2>2. CASE ~(i <= Len(f))
    <3>1. i - Len(f) \in 1..n /\ Len(f) + (i - Len(f)) = i
      BY <1>1, <1>5, <2>2
    <3> QED
      BY <1>3, <1>4, <1>5, <2>2, <3>1
  <2> QED
    BY <2>1, <2>2
<1> QED
  BY <1>4, <1>6 DEF InOrder, g, u
----------------------------------------------------------------------------
(***************************************************************************)
(* The steps.                                                              *)
(***************************************************************************)

\* The invariant holds initially.
LEMMA InitInv == Init => ProtocolInv
<1> SUFFICES ASSUME Init PROVE ProtocolInv
  OBVIOUS
<1>0. /\ BufferSize \in Nat /\ WindowSize \in Nat /\ WindowSize > 0 /\ Total \in Nat
      /\ 2 * WindowSize < BufferSize /\ Channel \in Nat /\ 0 \in Position
  BY Sizing DEF Position
<1>1. Pos(0) = 0 /\ RightOf(0) = WindowSize
  <2>1. 0 = 0 * BufferSize + 0
    BY <1>0
  <2> QED
    BY <1>0, <2>1, Remainder DEF RightOf, Wrap
<1>2. /\ sw = [left |-> 0, right |-> WindowSize] /\ seq = 0 /\ timers = <<>> /\ sent = 0
      /\ rw = NewWindow /\ delivered = <<>> /\ data = <<>> /\ acks = <<>>
  BY DEF Init
<1>3. Acked = 0
  BY <1>2 DEF Acked, Ahead
<1>4. Len(delivered) = 0 /\ DOMAIN <<>> = {} /\ \A S : <<>> \in Seq(S)
  BY <1>2, EmptySeq
<1>5. TimersOK(timers, 0, 0)
  BY <1>0, <1>2, <1>4 DEF TimersOK
<1>6. SenderOK(0)
  BY <1>0, <1>1, <1>2 DEF SenderOK, Room
<1>7. AcksOK(timers, 0, 0, acks) /\ DataOK(timers, 0, 0, rw, 0, data) /\ InOrder(delivered)
  BY <1>0, <1>2, <1>4 DEF AcksOK, DataOK, InOrder
<1>8. WindowOK(timers, 0, 0, rw, 0)
  <2>1. /\ rw.left = 0 /\ rw.right = WindowSize /\ rw.read = 0 /\ rw.readable = 0
        /\ rw.bits = {}
    BY <1>2 DEF NewWindow
  <2>2. rw \in WindowType
    <3>1. WindowSize \in Position /\ [x \in Position |-> 0] \in [Position -> 0..Total]
      BY <1>0 DEF Position
    <3> QED
      BY <1>0, <1>2, <3>1 DEF WindowType, NewWindow
  <2>3. Uncut(timers, 0) /\ WholePackets(timers, 0, {}) /\ StoredAhead(0, 0, {}, rw.buffer)
    BY <1>2, <1>4 DEF Uncut, WholePackets, StoredAhead
  <2> QED
    BY <1>0, <1>1, <2>1, <2>2, <2>3 DEF WindowOK
<1> QED
  BY <1>2, <1>3, <1>4, <1>5, <1>6, <1>7, <1>8 DEF ProtocolInv

\* While the sender does nothing its numbers stay.
LEMMA SenderKept ==
    ASSUME UNCHANGED sender, ProtocolInv
    PROVE  /\ timers' = timers /\ sent' = sent /\ Acked' = Acked
           /\ TimersOK(timers, Acked, sent) /\ SenderOK(Acked)'
<1>1. UNCHANGED <<sw, seq, timers, sent>>
  BY DEF sender
<1>2. Acked' = Acked
  BY <1>1 DEF Acked
<1>3. TimersOK(timers, Acked, sent) /\ SenderOK(Acked)
  BY DEF ProtocolInv
<1> QED
  BY <1>1, <1>2, <1>3 DEF SenderOK

\* Nothing happens.
LEMMA StutterInv ==
    ASSUME ProtocolInv, UNCHANGED vars
    PROVE  ProtocolInv'
<1>1. UNCHANGED sender /\ UNCHANGED <<rw, delivered, data, acks>>
  BY DEF vars, sender
<1>2. /\ AcksOK(timers, Acked, Len(delivered), acks)
      /\ WindowOK(timers, Acked, sent, rw, Len(delivered))
      /\ DataOK(timers, Acked, sent, rw, Len(delivered), data) /\ InOrder(delivered)
  BY DEF ProtocolInv
<1> QED
  BY <1>1, <1>2, SenderKept, Primed

\* An ack is lost.
LEMMA LoseAckInv ==
    ASSUME ProtocolInv, LoseAck
    PROVE  ProtocolInv'
<1>1. /\ UNCHANGED sender /\ UNCHANGED <<rw, delivered, data>>
      /\ acks # <<>> /\ acks' = Tail(acks)
  BY DEF LoseAck, receiver
<1>2. /\ AcksOK(timers, Acked, Len(delivered), acks)
      /\ WindowOK(timers, Acked, sent, rw, Len(delivered))
      /\ DataOK(timers, Acked, sent, rw, Len(delivered), data) /\ InOrder(delivered)
  BY DEF ProtocolInv
<1>3. AcksOK(timers, Acked, Len(delivered), Tail(acks))
  BY <1>1, <1>2, AcksTail
<1> QED
  BY <1>1, <1>2, <1>3, SenderKept, Primed

\* A data packet is lost.
LEMMA LoseDataInv ==
    ASSUME ProtocolInv, LoseData
    PROVE  ProtocolInv'
<1>1. /\ UNCHANGED sender /\ UNCHANGED <<rw, delivered, acks>>
      /\ data # <<>> /\ data' = Tail(data)
  BY DEF LoseData, receiver
<1>2. /\ AcksOK(timers, Acked, Len(delivered), acks)
      /\ WindowOK(timers, Acked, sent, rw, Len(delivered))
      /\ DataOK(timers, Acked, sent, rw, Len(delivered), data) /\ InOrder(delivered)
  BY DEF ProtocolInv
<1>3. DataOK(timers, Acked, sent, rw, Len(delivered), Tail(data))
  BY <1>1, <1>2, DataTail
<1> QED
  BY <1>1, <1>2, <1>3, SenderKept, Primed

\* A timer sends its packet again.
LEMMA ResendInv ==
    ASSUME ProtocolInv, NEW i \in DOMAIN timers, Resend(i)
    PROVE  ProtocolInv'
<1>1. /\ UNCHANGED sender /\ UNCHANGED <<rw, delivered, acks>>
      /\ data' = Put(data, timers[i])
  BY DEF Resend, receiver, Put
<1>2. /\ AcksOK(timers, Acked, Len(delivered), acks)
      /\ WindowOK(timers, Acked, sent, rw, Len(delivered))
      /\ DataOK(timers, Acked, sent, rw, Len(delivered), data) /\ InOrder(delivered)
  BY DEF ProtocolInv
<1>3. DataOK(timers, Acked, sent, rw, Len(delivered), data')
  BY <1>1, <1>2, SenderKept, DataPut
<1> QED
  BY <1>1, <1>2, <1>3, SenderKept, Primed

\* The read callback, on the window w with the datagrams q under way.
LEMMA ReadAll ==
    ASSUME ProtocolInv, UNCHANGED sender, NEW w, NEW q,
           WindowOK(timers, Acked, sent, w, Len(delivered)),
           DataOK(timers, Acked, sent, w, Len(delivered), q),
           delivered' = delivered \o Unread(w)
    PROVE  /\ delivered' = delivered \o [i \in 1..w.readable |-> Len(delivered) + i]
           /\ Len(delivered') = Len(delivered) + w.readable
           /\ InOrder(delivered')
           /\ WindowOK(timers, Acked, sent, RecvAll(w), Len(delivered'))
           /\ DataOK(timers, Acked, sent, RecvAll(w), Len(delivered'), q)
           /\ AcksOK(timers, Acked, Len(delivered'), acks)
<1> DEFINE d == Len(delivered)
           m == w.readable
           a == Acked
<1>1. /\ TimersOK(timers, a, sent) /\ AcksOK(timers, a, d, acks) /\ InOrder(delivered)
  BY DEF ProtocolInv
<1>2. /\ d \in Nat /\ m \in Nat /\ d + m \in Nat /\ d <= d + m /\ d + m <= Total /\ a \in Nat
  BY <1>1, Numbers, Sizing
<1>3. Unread(w) = [i \in 1..m |-> d + i]
  BY <1>1, UnreadBytes
<1>4. delivered' = delivered \o [i \in 1..m |-> d + i]
  BY <1>3
<1>5. InOrder(delivered') /\ Len(delivered') = d + m
  BY <1>1, <1>2, <1>4, Grown
<1> HIDE DEF d, a
<1>6. PICK e : e = d + m /\ e = Len(delivered')
  BY <1>5
<1>7. /\ WindowOK(timers, a, sent, RecvAll(w), e)
      /\ \A p : Fits(sent, w, d, p) => Fits(sent, RecvAll(w), e, p)
  BY <1>1, <1>6, AllRead DEF d, a
<1>8. DataOK(timers, a, sent, RecvAll(w), e, q)
  <2>1. DataOK(timers, a, sent, w, d, q)
    BY DEF d, a
  <2> QED
    BY <1>7, <2>1 DEF DataOK
<1>9. AcksOK(timers, a, e, acks)
  BY <1>1, <1>2, <1>6, AcksRead
<1> QED
  BY <1>4, <1>5, <1>6, <1>7, <1>8, <1>9 DEF d, a

\* The read callback runs for an ack of the other direction.
LEMMA ReadCallbackInv ==
    ASSUME ProtocolInv, ReadCallback
    PROVE  ProtocolInv'
<1>1. /\ UNCHANGED sender /\ UNCHANGED <<data, acks>>
      /\ delivered' = delivered \o Unread(rw) /\ rw' = RecvAll(rw)
  BY DEF ReadCallback
<1>2. /\ WindowOK(timers, Acked, sent, rw, Len(delivered))
      /\ DataOK(timers, Acked, sent, rw, Len(delivered), data)
  BY DEF ProtocolInv
<1>3. /\ InOrder(delivered')
      /\ WindowOK(timers, Acked, sent, rw', Len(delivered'))
      /\ DataOK(timers, Acked, sent, rw', Len(delivered'), data)
      /\ AcksOK(timers, Acked, Len(delivered'), acks)
  BY <1>1, <1>2, ReadAll
<1> QED
  BY <1>1, <1>3, SenderKept, Primed

\* The window after a packet is stored.
LEMMA StoreHead ==
    ASSUME ProtocolInv, data # <<>>
    PROVE  /\ WindowOK(timers, Acked, sent, Store(Head(data)), Len(delivered))
           /\ DataOK(timers, Acked, sent, Store(Head(data)), Len(delivered), Tail(data))
<1>1. /\ TimersOK(timers, Acked, sent) /\ WindowOK(timers, Acked, sent, rw, Len(delivered))
      /\ DataOK(timers, Acked, sent, rw, Len(delivered), data)
  BY DEF ProtocolInv
<1> QED
  BY <1>1, StoredData DEF Store

\* A data packet is stored and its ack is dropped.
LEMMA RecvNoAckInv ==
    ASSUME ProtocolInv, RecvNoAck
    PROVE  ProtocolInv'
<1>1. /\ UNCHANGED sender /\ UNCHANGED <<delivered, acks>>
      /\ data # <<>> /\ rw' = Store(Head(data)) /\ data' = Tail(data)
  BY DEF RecvNoAck
<1>2. AcksOK(timers, Acked, Len(delivered), acks) /\ InOrder(delivered)
  BY DEF ProtocolInv
<1> QED
  BY <1>1, <1>2, StoreHead, SenderKept, Primed

\* A data packet is stored, read and acknowledged.
LEMMA RecvDataInv ==
    ASSUME ProtocolInv, RecvData
    PROVE  ProtocolInv'
<1> DEFINE w == Store(Head(data))
<1>1. /\ UNCHANGED sender /\ data # <<>> /\ data' = Tail(data)
      /\ acks' = Put(acks, w.left) /\ delivered' = delivered \o Unread(w) /\ rw' = RecvAll(w)
  BY DEF RecvData
<1>2. /\ WindowOK(timers, Acked, sent, w, Len(delivered))
      /\ DataOK(timers, Acked, sent, w, Len(delivered), Tail(data))
  BY <1>1, StoreHead
<1> HIDE DEF w
<1>3. /\ Len(delivered') = Len(delivered) + w.readable
      /\ InOrder(delivered')
      /\ WindowOK(timers, Acked, sent, rw', Len(delivered'))
      /\ DataOK(timers, Acked, sent, rw', Len(delivered'), data')
      /\ AcksOK(timers, Acked, Len(delivered'), acks)
  BY <1>1, <1>2, ReadAll
<1>4. TimersOK(timers, Acked, sent)
  BY DEF ProtocolInv
<1>5. PICK e : /\ e = Len(delivered') /\ e = Len(delivered) + w.readable
               /\ e \in Nat /\ Acked <= e /\ e <= sent
  BY <1>2, <1>3, <1>4, Numbers
<1>6. w.left = Pos(e) /\ Uncut(timers, e)
  BY <1>2, <1>5 DEF WindowOK
<1>7. AcksOK(timers, Acked, e, Put(acks, Pos(e)))
  BY <1>3, <1>4, <1>5, <1>6, AcksPut
<1> QED
  BY <1>1, <1>3, <1>5, <1>6, <1>7, SenderKept, Primed

\* handle_packet accepts a packet of n bytes.
LEMMA SendDataInv ==
    ASSUME ProtocolInv, NEW n \in Sizes, SendData(n)
    PROVE  ProtocolInv'
<1> DEFINE p == [seq |-> seq, first |-> sent + 1, len |-> n]
           a == Acked
           s == sent
           d == Len(delivered)
           u == Append(timers, p)
           e == End(p)
<1>0. /\ BufferSize \in Nat /\ WindowSize \in Nat /\ 2 * WindowSize < BufferSize
      /\ Total \in Nat /\ n \in 1..(WindowSize - 1) /\ n \in Nat
  BY Sizing, ProtocolAssumption
<1>1. /\ s + n <= Total /\ InValidRange(sw.left, sw.right, seq, Wrap(seq + n))
      /\ timers' = u /\ data' = Put(data, p) /\ sent' = s + n
      /\ seq' = IF BufferSize - seq > n THEN seq + n ELSE n - (BufferSize - seq)
      /\ UNCHANGED <<sw, rw, delivered, acks>>
  BY DEF SendData, receiver
<1>2. /\ TimersOK(timers, a, s) /\ SenderOK(a) /\ AcksOK(timers, a, d, acks)
      /\ WindowOK(timers, a, s, rw, d) /\ DataOK(timers, a, s, rw, d, data)
      /\ InOrder(delivered)
  BY DEF ProtocolInv
<1>3. a \in Nat /\ s \in Nat /\ a <= s /\ s <= a + WindowSize /\ d \in Nat /\ d <= s
  BY <1>2, Numbers, <1>0
<1>4. /\ sw = [left |-> Pos(a), right |-> RightOf(Pos(a))] /\ seq = Pos(s)
      /\ sw.left = Pos(a) /\ sw.right = RightOf(Pos(a))
      /\ Pos(a) \in Position /\ Pos(s) \in Position
  <2>1. 0 \in 0..(BufferSize - 1)
    BY <1>0
  <2> QED
    BY <1>2, <1>3, <2>1, PosAdd DEF SenderOK
<1>5. (s + n) - a <= Room(Pos(a), RightOf(Pos(a)))
  <2>1. Ahead(Pos(a), Pos(s)) = s - a
    <3>1. s < a + BufferSize
      BY <1>0, <1>3
    <3> QED
      BY <1>3, <3>1, PosAhead
  <2>2. n \in 1..WindowSize
    BY <1>0
  <2>3. Ahead(Pos(a), Pos(s)) + n <= Room(Pos(a), RightOf(Pos(a)))
    BY <1>1, <1>4, <2>2, RangeMeansInside
  <2>4. Room(Pos(a), RightOf(Pos(a))) \in Int
    BY <1>0 DEF Room
  <2> HIDE DEF a, s
  <2> QED
    BY <1>0, <1>3, <2>1, <2>3, <2>4
<1>6. s + n <= a + WindowSize
  BY <1>0, <1>3, <1>5 DEF Room
<1>7. /\ p \in Packets /\ From(p) = s /\ End(p) = s + n /\ p.seq = Pos(s)
  <2>1. /\ p.seq = seq /\ p.first = s + 1 /\ p.len = n
    OBVIOUS
  <2>2. s + 1 \in 1..Total /\ (s + 1) - 1 = s /\ (s + 1) + n - 1 = s + n
    BY <1>0, <1>1, <1>3
  <2>3. p \in Packets
    BY <1>4, <2>2 DEF Packets
  <2> QED
    BY <1>4, <2>1, <2>2, <2>3 DEF From, End
<1> HIDE DEF p, s, d
<1>8. seq' = Pos(s + n)
  <2>1. n \in 0..(BufferSize - 1)
    BY <1>0
  <2>2. Pos(s + n) = Wrap(Pos(s) + n)
    BY <1>3, <2>1, PosAdd
  <2> QED
    BY <1>0, <1>1, <1>4, <2>2 DEF Wrap, Position
<1>9. Acked' = a
  <2> HIDE DEF a
  <2>1. Ahead(Pos(a), Pos(s + n)) = (s + n) - a
    <3>1. s + n \in Nat /\ a <= s + n /\ s + n < a + BufferSize
      BY <1>0, <1>3, <1>6
    <3>2. PICK c \in Nat : c = s + n
      BY <3>1
    <3>3. Ahead(Pos(a), Pos(c)) = c - a
      BY <1>3, <3>1, <3>2, PosAhead
    <3> QED
      BY <3>2, <3>3
  <2>2. Acked' = sent' - Ahead(sw'.left, seq')
    BY DEF Acked
  <2>3. sw' = sw
    BY <1>1
  <2>4. Acked' = (s + n) - Ahead(Pos(a), Pos(s + n))
    BY <1>1, <1>4, <1>8, <2>2, <2>3
  <2> QED
    BY <1>0, <1>3, <2>1, <2>4
<1> HIDE DEF a, u
<1>10. e = s + n /\ sent' = e /\ e <= a + WindowSize /\ e <= Total
  BY <1>1, <1>6, <1>7 DEF s
<1>11. TimersOK(u, a, e)
  BY <1>2, <1>7, <1>10, Submitted DEF u
<1>12. WindowOK(u, a, e, rw, d) /\ DataOK(u, a, e, rw, d, data)
  BY <1>2, <1>7, <1>10, SubmittedWindow, SubmittedData DEF u
<1>13. DataOK(u, a, e, rw, d, Put(data, p))
  <2>1. Len(timers) + 1 \in DOMAIN u /\ u[Len(timers) + 1] = p
    BY <1>2, <1>7, AppendProperties, LenProperties DEF u, TimersOK
  <2> QED
    BY <1>11, <1>12, <2>1, DataPut
<1>14. AcksOK(u, a, d, acks)
  <2>1. ASSUME NEW i \in DOMAIN acks PROVE Uncut(u, AckNo(a, acks[i]))
    <3>1. acks[i] \in Position
      BY <1>2, ElementOfSeq, LenProperties DEF AcksOK
    <3>2. PICK m \in Nat : m = AckNo(a, acks[i]) /\ m <= d /\ Uncut(timers, m)
      BY <1>2, <1>3, <3>1, AckNumber DEF AcksOK
    <3>3. m <= s
      BY <1>3, <3>2
    <3>4. Uncut(u, m)
      BY <1>2, <1>7, <3>2, <3>3, SubmittedAcks DEF u
    <3> QED
      BY <3>2, <3>4
  <2> QED
    BY <1>2, <2>1 DEF AcksOK
<1>15. SenderOK(a)'
  <2>1. sw' = [left |-> Pos(a), right |-> RightOf(Pos(a))] /\ sw'.left = Pos(a)
        /\ sw'.right = RightOf(Pos(a)) /\ seq' = Pos(sent')
    <3>1. sw' = sw /\ sent' = s + n
      BY <1>1
    <3>2. seq' = Pos(sent')
      BY <1>8, <3>1
    <3> QED
      BY <1>4, <3>1, <3>2
  <2>2. sent' - a <= Room(Pos(a), RightOf(Pos(a)))
    <3>1. sent' = s + n
      BY <1>1
    <3> QED
      BY <1>5, <3>1
  <2>3. SenderOK(a)' <=> /\ sw' = [left |-> Pos(Acked'), right |-> RightOf(Pos(Acked'))]
                         /\ seq' = Pos(sent')
                         /\ sent' - Acked' <= Room(sw'.left, sw'.right)
    BY DEF SenderOK, a
  <2> QED
    BY <1>9, <2>1, <2>2, <2>3
<1>16. SenderOK(Acked)'
  BY <1>15 DEF a
<1>17. Len(delivered') = d /\ rw' = rw /\ acks' = acks /\ InOrder(delivered')
  BY <1>1, <1>2 DEF d
<1> HIDE DEF e
<1> QED
  BY <1>1, <1>9, <1>10, <1>11, <1>12, <1>13, <1>14, <1>16, <1>17, Primed

\* An ack moves the send window and cancels timers.
LEMMA RecvAckInv ==
    ASSUME ProtocolInv, RecvAck
    PROVE  ProtocolInv'
<1> DEFINE a == Acked
           s == sent
           d == Len(delivered)
           x == Head(acks)
           m == AckNo(a, x)
           u == CancelTimer(x)
<1>0. BufferSize \in Nat /\ WindowSize \in Nat /\ 2 * WindowSize < BufferSize
  BY Sizing
<1>1. /\ acks # <<>> /\ sw' = MoveIfValid(sw, x) /\ timers' = u /\ acks' = Tail(acks)
      /\ UNCHANGED <<seq, sent, rw, delivered, data>>
  BY DEF RecvAck, receiver
<1>2. /\ TimersOK(timers, a, s) /\ SenderOK(a) /\ AcksOK(timers, a, d, acks)
      /\ WindowOK(timers, a, s, rw, d) /\ DataOK(timers, a, s, rw, d, data)
      /\ InOrder(delivered)
  BY DEF ProtocolInv
<1>3. a \in Nat /\ s \in Nat /\ a <= s /\ s <= a + WindowSize /\ d \in Nat /\ d <= s
      /\ d < a + BufferSize
  BY <1>2, Numbers, <1>0
<1>4. /\ sw = [left |-> Pos(a), right |-> RightOf(Pos(a))] /\ seq = Pos(s)
      /\ s - a <= Room(Pos(a), RightOf(Pos(a))) /\ Pos(a) \in Position
  <2>1. 0 \in 0..(BufferSize - 1)
    BY <1>0
  <2> QED
    BY <1>2, <1>3, <2>1, PosAdd DEF SenderOK
<1>5. x \in Position /\ 1 \in DOMAIN acks /\ x = acks[1]
  BY <1>1, <1>2, Rest DEF AcksOK
<1>6. /\ m \in Nat /\ a <= m /\ Pos(m) = x /\ m <= d /\ Uncut(timers, m)
  <2>1. m \in Nat /\ a <= m /\ Pos(m) = x
    BY <1>3, <1>5, AckNumber
  <2>2. m <= d /\ Uncut(timers, m)
    BY <1>2, <1>5 DEF AcksOK
  <2> QED
    BY <2>1, <2>2
<1>7. Ahead(Pos(a), x) = m - a
  <2> HIDE DEF a, d, m
  <2>1. m < a + BufferSize
    BY <1>0, <1>3, <1>6
  <2> QED
    BY <1>3, <1>6, <2>1, PosAhead
<1> HIDE DEF a, s, d, x, m, u
<1>8. m <= s
  BY <1>3, <1>6
<1>9. sw' = [left |-> Pos(m), right |-> RightOf(Pos(m))]
  <2>1. Ahead(Pos(a), x) <= Room(Pos(a), RightOf(Pos(a)))
    <3>1. PICK g \in Int : g = Room(Pos(a), RightOf(Pos(a)))
      BY <1>0 DEF Room
    <3> QED
      BY <1>3, <1>4, <1>6, <1>7, <1>8, <3>1
  <2> QED
    BY <1>1, <1>4, <1>5, <1>6, <2>1, AckMovesWindow
<1>10. Acked' = m
  <2>1. Acked' = sent' - Ahead(sw'.left, seq')
    BY DEF Acked
  <2>2. sw'.left = Pos(m) /\ seq' = Pos(s) /\ sent' = s
    BY <1>1, <1>4, <1>9 DEF s
  <2>3. Ahead(Pos(m), Pos(s)) = s - m
    <3>1. s < m + BufferSize
      BY <1>0, <1>3, <1>6
    <3> QED
      BY <1>3, <1>6, <1>8, <3>1, PosAhead
  <2> QED
    BY <1>3, <1>6, <2>1, <2>2, <2>3
<1>11. TimersOK(u, m, s) /\ Left(u, timers, m)
  <2>1. TimersOK(CancelTimer(Pos(m)), m, s) /\ Left(CancelTimer(Pos(m)), timers, m)
    BY <1>2, <1>6, <1>8, Cancelled
  <2> QED
    BY <1>6, <2>1 DEF u
<1>12. WindowOK(u, m, s, rw, d) /\ DataOK(u, m, s, rw, d, data)
  BY <1>2, <1>3, <1>6, <1>11, LeftWindow, LeftData
<1>13. AcksOK(u, m, d, Tail(acks))
  <2>1. m = AckNo(a, Head(acks))
    BY DEF m, x
  <2> QED
    BY <1>1, <1>2, <1>3, <1>11, <2>1, LeftAcks
<1>14. SenderOK(Acked)'
  <2>1. SenderOK(Acked)' <=> /\ sw' = [left |-> Pos(Acked'), right |-> RightOf(Pos(Acked'))]
                             /\ seq' = Pos(sent')
                             /\ sent' - Acked' <= Room(sw'.left, sw'.right)
    BY DEF SenderOK
  <2>2. sw'.left = Pos(m) /\ sw'.right = RightOf(Pos(m)) /\ seq' = Pos(s) /\ sent' = s
    BY <1>1, <1>4, <1>9 DEF s
  \* A window that has moved has left room for a byte.
  <2>3. s - m <= Room(Pos(m), RightOf(Pos(m)))
    <3>1. CASE m = a
      BY <1>4, <3>1
    <3>2. CASE m # a
      BY <1>0, <1>3, <1>6, <3>2 DEF Room
    <3> QED
      BY <3>1, <3>2
  <2> QED
    BY <1>9, <1>10, <2>1, <2>2, <2>3
<1>15. Len(delivered') = d /\ rw' = rw /\ data' = data /\ sent' = s /\ InOrder(delivered')
  BY <1>1, <1>2 DEF d, s
<1> QED
  BY <1>1, <1>10, <1>11, <1>12, <1>13, <1>14, <1>15, Primed

\* Every step keeps the invariant.
LEMMA NextInv ==
    ASSUME ProtocolInv, Next
    PROVE  ProtocolInv'
<1>1. CASE \E n \in Sizes : SendData(n)
  BY <1>1, SendDataInv
<1>2. CASE \E i \in DOMAIN timers : Resend(i)
  BY <1>2, ResendInv
<1>3. CASE RecvAck
  BY <1>3, RecvAckInv
<1>4. CASE LoseAck
  BY <1>4, LoseAckInv
<1>5. CASE RecvData
  BY <1>5, RecvDataInv
<1>6. CASE RecvNoAck
  BY <1>6, RecvNoAckInv
<1>7. CASE LoseData
  BY <1>7, LoseDataInv
<1>8. CASE ReadCallback
  BY <1>8, ReadCallbackInv
<1> QED
  BY <1>1, <1>2, <1>3, <1>4, <1>5, <1>6, <1>7, <1>8 DEF Next

\* ProtocolInv holds throughout.
THEOREM ProtocolInvariant == Spec => []ProtocolInv
<1>1. ProtocolInv /\ [Next]_vars => ProtocolInv'
  BY NextInv, StutterInv
<1> QED
  BY InitInv, <1>1, PTL DEF Spec
----------------------------------------------------------------------------
(***************************************************************************)
(* What follows from it.                                                   *)
(***************************************************************************)

\* The numbers of a state.
LEMMA StateNumbers ==
    ASSUME ProtocolInv
    PROVE  /\ Acked \in Nat /\ sent \in Nat /\ Len(delivered) \in Nat /\ rw.readable \in Nat
           /\ Received = Len(delivered) + rw.readable /\ Received \in Nat
           /\ Acked <= Len(delivered) /\ Len(delivered) <= Received /\ Received <= sent
           /\ sent <= Acked + WindowSize /\ sent <= Total
           /\ WindowSize \in Nat /\ BufferSize \in Nat /\ 2 * WindowSize < BufferSize
           /\ sw = [left |-> Pos(Acked), right |-> RightOf(Pos(Acked))] /\ seq = Pos(sent)
           /\ rw.left = Pos(Received) /\ rw.right = RightOf(Pos(Received))
<1>1. /\ TimersOK(timers, Acked, sent) /\ SenderOK(Acked)
      /\ WindowOK(timers, Acked, sent, rw, Len(delivered))
  BY DEF ProtocolInv
<1>2. Received = Len(delivered) + rw.readable
  BY DEF Received
<1>3. rw.left = Pos(Received) /\ rw.right = RightOf(Pos(Received))
  BY <1>1, <1>2 DEF WindowOK
<1>4. sw = [left |-> Pos(Acked), right |-> RightOf(Pos(Acked))] /\ seq = Pos(sent)
  BY <1>1 DEF SenderOK
<1> HIDE DEF Acked, Received
<1> QED
  BY <1>1, <1>2, <1>3, <1>4, Numbers, Sizing

\* The bounds of windows are positions.
LEMMA Bounds ==
    ASSUME NEW b \in Nat
    PROVE  Pos(b) \in Position /\ RightOf(Pos(b)) \in Position
<1>1. Pos(b) \in Position
  <2>1. 0 \in 0..(BufferSize - 1)
    BY Sizing
  <2> QED
    BY <2>1, PosAdd
<1>2. WindowSize \in 0..(BufferSize - 1)
  BY Sizing
<1> QED
  BY <1>1, <1>2, WrapAhead DEF RightOf

\* Every variable has its type, and the receiver never holds more than a window of bytes
\* that its user has not read (readable_size_).
THEOREM TypeCorrect == Spec => []TypeOK
<1>1. ProtocolInv => TypeOK
  <2> SUFFICES ASSUME ProtocolInv PROVE TypeOK
    OBVIOUS
  <2>1. sw \in [left : Position, right : Position] /\ seq \in Position
    BY StateNumbers, Bounds
  <2>2. /\ timers \in Seq(Packets) /\ data \in Seq(Packets) /\ Len(data) <= Channel
        /\ acks \in Seq(Position) /\ Len(acks) <= Channel /\ delivered \in Seq(1..Total)
    BY DEF ProtocolInv, TimersOK, DataOK, AcksOK, InOrder
  <2>3. sent \in 0..Total /\ rw.readable \in 0..WindowSize
    BY StateNumbers, Sizing
  <2>4. rw \in WindowType
    BY DEF ProtocolInv, WindowOK
  <2>5. rw \in [left : Position, right : Position, read : Position,
                readable : 0..WindowSize, bits : SUBSET Position,
                buffer : [Position -> 0..Total]]
    BY <2>3, <2>4 DEF WindowType
  <2> QED
    BY <2>1, <2>2, <2>3, <2>5 DEF TypeOK
<1> QED
  BY <1>1, ProtocolInvariant, PTL

\* The two windows stay nested, for any number of laps of the buffer, losses and
\* repetitions, and every ack under way is one that cancel_timer may take.
THEOREM WindowsCorrect == Spec => []WindowsNested
<1>1. ProtocolInv => WindowsNested
  <2> SUFFICES ASSUME ProtocolInv PROVE WindowsNested
    OBVIOUS
  <2>1. Acked <= Received /\ Received <= sent /\ sent <= Acked + WindowSize
    <3> HIDE DEF Acked, Received
    <3> QED
      BY StateNumbers
  <2>2. rw.left = Received % BufferSize /\ seq = sent % BufferSize
    BY StateNumbers DEF Pos
  <2>3. sw.right = Wrap(sw.left + WindowSize) /\ rw.right = Wrap(rw.left + WindowSize)
    BY StateNumbers DEF RightOf
  <2>4. ASSUME NEW i \in DOMAIN acks PROVE Ahead(sw.left, acks[i]) <= Received - Acked
    <3>1. sw.left = Pos(Acked)
      BY StateNumbers
    <3>2. acks \in Seq(Position) /\ AckNo(Acked, acks[i]) <= Len(delivered)
      BY DEF ProtocolInv, AcksOK
    <3>3. acks[i] \in Position
      BY <3>2, ElementOfSeq, LenProperties
    <3>4. Ahead(Pos(Acked), acks[i]) \in Nat
      BY <3>3, StateNumbers, PosOf
    <3> HIDE DEF Acked, Received
    <3> QED
      BY <3>1, <3>2, <3>4, StateNumbers DEF AckNo
  <2> QED
    BY <2>1, <2>2, <2>3, <2>4 DEF WindowsNested
<1> QED
  BY <1>1, ProtocolInvariant, PTL

\* Every byte the receiver lacks is in a packet whose resend timer runs, whichever acks
\* cancel_timer was called with.
THEOREM ResendCorrect == Spec => []Retransmittable
<1>1. ProtocolInv => Retransmittable
  <2> SUFFICES ASSUME ProtocolInv, NEW b \in (Received + 1)..sent
               PROVE  \E i \in DOMAIN timers :
                         b \in timers[i].first..(timers[i].first + timers[i].len - 1)
    BY DEF Retransmittable
  <2>1. TimersOK(timers, Acked, sent)
    BY DEF ProtocolInv
  <2> HIDE DEF Acked, Received
  <2>2. b \in Nat /\ b - 1 \in Acked..(sent - 1)
    BY StateNumbers
  <2>3. PICK i \in DOMAIN timers : From(timers[i]) <= b - 1 /\ b - 1 < End(timers[i])
    BY <2>1, <2>2 DEF TimersOK
  <2>4. timers[i] \in Packets
    BY <2>1, TimerNumbers
  <2>5. timers[i].first \in Nat /\ timers[i].len \in Nat
    BY <2>4, PacketNumbers
  <2>6. b \in timers[i].first..(timers[i].first + timers[i].len - 1)
    BY <2>2, <2>3, <2>5 DEF From, End
  <2> QED
    BY <2>6
<1> QED
  BY <1>1, ProtocolInvariant, PTL

\* A byte that waits for an earlier one is kept under its own number, in bits and in
\* buffer_, whatever old copies arrive meanwhile.
THEOREM ReorderCorrect == Spec => []OutOfOrderKept
<1>1. ProtocolInv => OutOfOrderKept
  <2> SUFFICES ASSUME ProtocolInv, NEW x \in rw.bits
               PROVE  rw.buffer[x] = Received + 1 + Ahead(rw.left, x)
    BY DEF OutOfOrderKept
  <2>1. StoredAhead(sent, Received, rw.bits, rw.buffer)
    BY DEF ProtocolInv, WindowOK, Received
  <2> HIDE DEF Acked, Received
  <2>2. PICK b \in Received..(sent - 1) : x = Pos(b) /\ rw.buffer[x] = b + 1
    BY <2>1 DEF StoredAhead
  <2>3. b \in Nat /\ Received <= b /\ b < Received + BufferSize
    BY StateNumbers
  <2>4. Ahead(rw.left, x) = b - Received
    BY <2>2, <2>3, StateNumbers, PosAhead
  <2> QED
    BY <2>2, <2>3, <2>4, StateNumbers
<1> QED
  BY <1>1, ProtocolInvariant, PTL
----------------------------------------------------------------------------
(***************************************************************************)
(* The refinement.                                                         *)
(***************************************************************************)

\* What the read callback hands to the user: nothing, or the next bytes.
LEMMA DeliverStep ==
    ASSUME ProtocolInv, UNCHANGED sender, NEW w, NEW q,
           WindowOK(timers, Acked, sent, w, Len(delivered)),
           DataOK(timers, Acked, sent, w, Len(delivered), q),
           delivered' = delivered \o Unread(w)
    PROVE  Stream!Deliver \/ UNCHANGED <<sent, delivered>>
<1> DEFINE m == w.readable
           d == Len(delivered)
<1>1. delivered' = delivered \o [i \in 1..m |-> d + i] /\ sent' = sent
  BY ReadAll, SenderKept
<1>2. m \in Nat /\ d \in Nat /\ d + m <= sent /\ sent \in Nat
  <2>1. TimersOK(timers, Acked, sent)
    BY DEF ProtocolInv
  <2> QED
    BY <2>1, Numbers
<1>3. CASE m = 0
  <2>1. [i \in 1..m |-> d + i] = <<>>
    BY <1>3
  <2>2. delivered \in Seq(1..Total)
    BY DEF ProtocolInv, InOrder
  <2>3. delivered' = delivered
    BY <1>1, <2>1, <2>2, ConcatEmptySeq
  <2> QED
    BY <1>1, <2>3
<1>4. CASE m # 0
  <2>1. m \in 1..(sent - d)
    BY <1>2, <1>4
  <2> HIDE DEF m
  <2> QED
    BY <1>1, <2>1 DEF Stream!Deliver
<1> QED
  BY <1>3, <1>4

\* The protocol implements a byte stream: every step accepts bytes, delivers the next
\* ones that were accepted, or is invisible to the two users.
THEOREM ProtocolIsByteStream == Spec => ImplementsByteStream
<1>1. Init => Stream!Init
  BY DEF Init, Stream!Init
<1>2. ProtocolInv /\ [Next]_vars => [Stream!Next]_(Stream!vars)
  <2> SUFFICES ASSUME ProtocolInv, [Next]_vars
               PROVE  Stream!Next \/ UNCHANGED <<sent, delivered>>
    BY DEF Stream!vars
  <2>1. ASSUME NEW n \in Sizes, SendData(n) PROVE Stream!Next
    <3>1. sent' = sent + n /\ delivered' = delivered
      BY <2>1 DEF SendData, receiver
    <3>2. sent \in Nat /\ n \in Nat /\ n > 0
      BY StateNumbers, ProtocolAssumption
    <3>3. sent' > sent
      BY <3>1, <3>2
    <3> QED
      BY <3>1, <3>3 DEF Stream!Next, Stream!Accept
  <2>2. CASE RecvData
    <3>1. /\ UNCHANGED sender /\ data # <<>>
          /\ delivered' = delivered \o Unread(Store(Head(data)))
      BY <2>2 DEF RecvData
    <3> QED
      BY <3>1, StoreHead, DeliverStep DEF Stream!Next
  <2>3. CASE ReadCallback
    <3>1. UNCHANGED sender /\ delivered' = delivered \o Unread(rw)
      BY <2>3 DEF ReadCallback
    <3>2. /\ WindowOK(timers, Acked, sent, rw, Len(delivered))
          /\ DataOK(timers, Acked, sent, rw, Len(delivered), data)
      BY DEF ProtocolInv
    <3> QED
      BY <3>1, <3>2, DeliverStep DEF Stream!Next
  <2>4. CASE \/ \E i \in DOMAIN timers : Resend(i)
             \/ RecvAck \/ LoseAck \/ RecvNoAck \/ LoseData \/ UNCHANGED vars
    BY <2>4 DEF Resend, RecvAck, LoseAck, RecvNoAck, LoseData, sender, receiver, vars
  <2> QED
    BY <2>1, <2>2, <2>3, <2>4 DEF Next
<1> QED
  BY <1>1, <1>2, ProtocolInvariant, PTL DEF Spec, ImplementsByteStream, Stream!Spec
=============================================================================
