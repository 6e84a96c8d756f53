------------------------- MODULE FileTransferProofs -------------------------
(***************************************************************************)
(* Proofs about FileTransfer: what was sent comes back, for every size of  *)
(* the file and of the blocks, and whatever the windows refuse.            *)
(***************************************************************************)
EXTENDS FileTransfer, SequenceTheorems, TLAPS

(***************************************************************************)
(* The inductive invariant.  EchoIntact speaks of the whole way of a byte *)
(* at once; each program keeps its own half of it.                         *)
(***************************************************************************)
Ordered(st) ==
    /\ st \in StreamType
    /\ st.acked <= st.read /\ st.read <= st.stored /\ st.stored <= Len(st.data)

\* The client has sent, or holds, what it has read of the file.
ClientInStep == fwd.data \o held = Bytes(0, pos)

\* The server has sent back, or holds, what it has received.
ServerInStep == back.data \o echo = SubSeq(fwd.data, 1, fwd.read)

\* The client quits at the end of the file, with as much received as sent.
QuitsAtEnd ==
    /\ eof => pos = size
    /\ quit => eof /\ Len(fwd.data) = back.read

TransferInv == TypeOK /\ ClientInStep /\ ServerInStep /\ QuitsAtEnd
----------------------------------------------------------------------------
(***************************************************************************)
(* Sequences.                                                              *)
(***************************************************************************)

\* Min of two numbers.
LEMMA MinOfTwo ==
    ASSUME NEW a \in Nat, NEW b \in Nat
    PROVE  /\ Min({a, b}) \in Nat
           /\ Min({a, b}) <= a /\ Min({a, b}) <= b
           /\ Min({a, b}) \in {a, b}
<1>1. \E x \in {a, b} : \A y \in {a, b} : x <= y
  OBVIOUS
<1>2. Min({a, b}) \in {a, b} /\ \A y \in {a, b} : Min({a, b}) <= y
  BY <1>1 DEF Min
<1> QED
  BY <1>2

\* A front part of a sequence and the rest make up the sequence.
LEMMA SplitAt ==
    ASSUME NEW S, NEW s \in Seq(S), NEW n \in 0..Len(s)
    PROVE  /\ SubSeq(s, 1, n) \in Seq(S) /\ Len(SubSeq(s, 1, n)) = n
           /\ Rest(s, n) \in Seq(S) /\ Len(Rest(s, n)) = Len(s) - n
           /\ SubSeq(s, 1, n) \o Rest(s, n) = s
<1>1. Len(s) \in Nat /\ \A i \in 1..Len(s) : s[i] \in S
  OBVIOUS
<1>2. SubSeq(s, 1, n) \in Seq(S) /\ Len(SubSeq(s, 1, n)) = n
  BY <1>1
<1>3. Rest(s, n) \in Seq(S) /\ Len(Rest(s, n)) = Len(s) - n
  BY <1>1 DEF Rest
<1>4. SubSeq(s, 1, n) \o SubSeq(s, n + 1, Len(s)) = SubSeq(s, 1, Len(s))
  <2>1. 1 \in 1..(Len(s) + 1) /\ n \in (1 - 1)..Len(s) /\ Len(s) \in n..Len(s)
    BY <1>1
  <2> QED
    BY <2>1, ConcatAdjacentSubSeq
<1>5. SubSeq(s, 1, Len(s)) = s
  BY SubSeqFull
<1> QED
  BY <1>2, <1>3, <1>4, <1>5 DEF Rest

\* Concatenation is associative, for bytes of the file.
LEMMA Regroup ==
    \A a, b, c \in Seq(1..size) : (a \o b) \o c = a \o (b \o c)
BY ConcatAssociative, SMTT(30)

\* What precedes n bytes is not touched by bytes added at the end.
LEMMA PrefixOfConcat ==
    ASSUME NEW S, NEW s \in Seq(S), NEW t \in Seq(S), NEW n \in 0..Len(s)
    PROVE  SubSeq(s \o t, 1, n) = SubSeq(s, 1, n)
<1>1. Len(s) \in Nat /\ Len(s \o t) = Len(s) + Len(t) /\ s \o t \in Seq(S) /\ Len(t) \in Nat
  OBVIOUS
<1>2. \A i \in 1..n : (s \o t)[i] = s[i]
  BY <1>1
<1> QED
  BY <1>1, <1>2

\* The bytes of the file, block after block.
LEMMA BytesAdjacent ==
    ASSUME NEW m \in Nat, NEW p \in 0..m, NEW e \in p..m
    PROVE  /\ Bytes(p, e) \in Seq(1..m) /\ Len(Bytes(p, e)) = e - p
           /\ Bytes(0, p) \o Bytes(p, e) = Bytes(0, e)
<1>1. Bytes(p, e) \in Seq(1..m) /\ Len(Bytes(p, e)) = e - p
  <2>1. e - p \in Nat /\ \A i \in 1..(e - p) : p + i \in 1..m
    OBVIOUS
  <2> QED
    BY <2>1 DEF Bytes
<1>2. Bytes(0, p) \in Seq(1..m) /\ Len(Bytes(0, p)) = p
  <2>1. p - 0 \in Nat /\ p - 0 = p /\ \A i \in 1..(p - 0) : 0 + i \in 1..m
    OBVIOUS
  <2> QED
    BY <2>1 DEF Bytes
<1>3. Bytes(0, e) \in Seq(1..m) /\ Len(Bytes(0, e)) = e
  <2>1. e - 0 \in Nat /\ e - 0 = e /\ \A i \in 1..(e - 0) : 0 + i \in 1..m
    OBVIOUS
  <2> QED
    BY <2>1 DEF Bytes
<1>4. Bytes(0, p) \o Bytes(p, e) \in Seq(1..m) /\ Len(Bytes(0, p) \o Bytes(p, e)) = e
  BY <1>1, <1>2
<1>5. ASSUME NEW i \in 1..e
      PROVE  (Bytes(0, p) \o Bytes(p, e))[i] = Bytes(0, e)[i]
  <2>1. Bytes(0, e)[i] = i
    BY DEF Bytes
  <2>2. CASE i <= p
    <3>1. (Bytes(0, p) \o Bytes(p, e))[i] = Bytes(0, p)[i]
      BY <1>1, <1>2, <2>2
    <3> QED
      BY <2>1, <2>2, <3>1 DEF Bytes
  <2>3. CASE i > p
    <3>1. (Bytes(0, p) \o Bytes(p, e))[i] = Bytes(p, e)[i - p]
      BY <1>1, <1>2, <2>3
    <3>2. i - p \in 1..(e - p) /\ p + (i - p) = i
      BY <2>3
    <3>3. Bytes(p, e)[i - p] = p + (i - p)
      BY <3>2 DEF Bytes
    <3> QED
      BY <2>1, <3>1, <3>2, <3>3
  <2>4. i <= p \/ i > p
    OBVIOUS
  <2> QED
    BY <2>2, <2>3, <2>4
<1>6. Bytes(0, p) \o Bytes(p, e) = Bytes(0, e)
  BY <1>3, <1>4, <1>5, SeqEqual
<1> QED
  BY <1>1, <1>6

\* One packet from a send_buffer, and what stays there.
LEMMA FrontAndRest ==
    ASSUME NEW S, NEW buf \in Seq(S), MaxDataSize \in Nat
    PROVE  /\ Front(buf) \in Seq(S)
           /\ Rest(buf, Len(Front(buf))) \in Seq(S)
           /\ Len(Rest(buf, Len(Front(buf)))) <= Len(buf)
           /\ Front(buf) \o Rest(buf, Len(Front(buf))) = buf
<1> DEFINE n == Min({MaxDataSize, Len(buf)})
<1>1. n \in 0..Len(buf)
  BY MinOfTwo
<1> HIDE DEF n
<1>2. Front(buf) = SubSeq(buf, 1, n)
  BY DEF Front, n
<1>3. /\ SubSeq(buf, 1, n) \in Seq(S) /\ Len(SubSeq(buf, 1, n)) = n
      /\ Rest(buf, n) \in Seq(S) /\ Len(Rest(buf, n)) = Len(buf) - n
      /\ SubSeq(buf, 1, n) \o Rest(buf, n) = buf
  BY <1>1, SplitAt
<1>4. Len(buf) \in Nat /\ Len(buf) - n <= Len(buf)
  BY <1>1
<1> QED
  BY <1>2, <1>3, <1>4

----------------------------------------------------------------------------
(***************************************************************************)
(* The operations of a stream.                                             *)
(***************************************************************************)

\* The fields of a stream.
LEMMA OrderedFields ==
    ASSUME size \in Nat, NEW st, Ordered(st)
    PROVE  /\ st.data \in Seq(1..size) /\ Len(st.data) \in Nat
           /\ st.stored \in 0..size /\ st.read \in 0..size /\ st.acked \in 0..size
           /\ st.acked <= st.read /\ st.read <= st.stored /\ st.stored <= Len(st.data)
           /\ st = [data |-> st.data, stored |-> st.stored, read |-> st.read, acked |-> st.acked]
BY DEF Ordered, StreamType

\* A packet that the window accepts.
LEMMA SendOrdered ==
    ASSUME size \in Nat, NEW st, Ordered(st), NEW b \in Seq(1..size)
    PROVE  /\ Ordered(Send(st, b))
           /\ Send(st, b).data = st.data \o b
           /\ Send(st, b).read = st.read
<1>1. Send(st, b) = [data |-> st.data \o b, stored |-> st.stored,
                     read |-> st.read, acked |-> st.acked]
  <2> DEFINE d == st.data \o b
  <2>1. Send(st, b) = [st EXCEPT !.data = d]
    BY DEF Send
  <2> HIDE DEF d
  <2>2. Send(st, b) = [data |-> d, stored |-> st.stored, read |-> st.read, acked |-> st.acked]
    BY <2>1, OrderedFields
  <2> QED
    BY <2>2 DEF d
<1>2. st.data \in Seq(1..size) /\ Len(st.data) \in Nat /\ Len(b) \in Nat
  BY OrderedFields
<1>3. st.data \o b \in Seq(1..size) /\ Len(st.data \o b) = Len(st.data) + Len(b)
  BY <1>2, ConcatProperties
<1>4. st.stored <= Len(st.data \o b)
  BY <1>2, <1>3, OrderedFields
<1> QED
  BY <1>1, <1>3, <1>4, OrderedFields DEF Ordered, StreamType

\* A packet is stored.
LEMMA StoreOrdered ==
    ASSUME size \in Nat, NEW st, Ordered(st), NEW n \in 0..size, Arrives(st, n)
    PROVE  /\ Ordered(Store(st, n))
           /\ Store(st, n).data = st.data
           /\ Store(st, n).read = st.read
           /\ Store(st, n).stored = n
<1>1. Store(st, n) = [data |-> st.data, stored |-> n, read |-> st.read, acked |-> st.acked]
  BY OrderedFields DEF Store
<1>2. st.stored <= n /\ n <= Len(st.data)
  BY OrderedFields DEF Arrives
<1> QED
  BY <1>1, <1>2, OrderedFields DEF Ordered, StreamType

\* recv_all reads up to what is stored.
LEMMA ReadOrdered ==
    ASSUME size \in Nat, NEW st, Ordered(st)
    PROVE  /\ Ordered(ReadAll(st))
           /\ ReadAll(st).data = st.data
           /\ ReadAll(st).read = st.stored
<1>1. ReadAll(st) = [data |-> st.data, stored |-> st.stored,
                     read |-> st.stored, acked |-> st.acked]
  <2> DEFINE n == st.stored
  <2>1. ReadAll(st) = [st EXCEPT !.read = n]
    BY DEF ReadAll
  <2> HIDE DEF n
  <2>2. ReadAll(st) = [data |-> st.data, stored |-> st.stored, read |-> n, acked |-> st.acked]
    BY <2>1, OrderedFields
  <2> QED
    BY <2>2 DEF n
<1> QED
  BY <1>1, OrderedFields DEF Ordered, StreamType

\* An ack moves nothing but the sender's window.
LEMMA AckOrdered ==
    ASSUME size \in Nat, NEW st, Ordered(st), NEW n \in 0..size, Acks(st, n)
    PROVE  /\ Ordered(Ack(st, n))
           /\ Ack(st, n).data = st.data
           /\ Ack(st, n).read = st.read
<1>1. Ack(st, n) = [data |-> st.data, stored |-> st.stored, read |-> st.read, acked |-> n]
  BY OrderedFields DEF Ack
<1>2. n <= st.read
  BY OrderedFields DEF Acks
<1> QED
  BY <1>1, <1>2, OrderedFields DEF Ordered, StreamType

----------------------------------------------------------------------------
\* TypeOK, in terms of Ordered.
LEMMA TypeFacts ==
    ASSUME TypeOK
    PROVE  /\ size \in Nat /\ pos \in 0..size /\ pos \in Nat
           /\ held \in Seq(1..size) /\ Len(held) <= MaxDataSize
           /\ echo \in Seq(1..size)
           /\ Ordered(fwd) /\ Ordered(back)
           /\ MaxDataSize \in Nat /\ MaxDataSize > 0
BY TransferAssumption DEF TypeOK, Ordered

\* The server's read callback: what it received goes on to the echo's stream or
\* waits in send_buffer, in order.
LEMMA OnReadInStep ==
    ASSUME TypeOK, ServerInStep,
           NEW st, Ordered(st), st.data = fwd.data, st.read = fwd.read,
           NEW out, Ordered(out), out.data = back.data, out.read = back.read,
           OnRead(st, out)
    PROVE  /\ Ordered(fwd') /\ Ordered(back')
           /\ fwd'.data = fwd.data /\ back'.read = back.read
           /\ echo' \in Seq(1..size)
           /\ back'.data \o echo' = SubSeq(fwd'.data, 1, fwd'.read)
<1> DEFINE buf == echo \o Unread(st)
<1>1. /\ size \in Nat /\ echo \in Seq(1..size) /\ MaxDataSize \in Nat
      /\ fwd.data \in Seq(1..size) /\ Len(fwd.data) \in Nat
      /\ fwd.read \in Nat /\ st.stored \in Nat
      /\ fwd.read <= st.stored /\ st.stored <= Len(fwd.data)
      /\ back.data \in Seq(1..size)
  BY TypeFacts, OrderedFields
<1>2. fwd' = ReadAll(st) /\ Ordered(fwd') /\ fwd'.data = fwd.data /\ fwd'.read = st.stored
  BY <1>1, ReadOrdered DEF OnRead
<1>3. Unread(st) = SubSeq(fwd.data, fwd.read + 1, st.stored)
  BY DEF Unread
<1>4. Unread(st) \in Seq(1..size)
  <2> DEFINE d == fwd.data
             m == fwd.read + 1
             n == st.stored
  <2>1. d \in Seq(1..size) /\ m \in Int /\ n \in Int /\ m..n \subseteq 1..Len(d)
    BY <1>1
  <2> HIDE DEF d, m, n
  <2>2. \A i \in m..n : d[i] \in 1..size
    BY <2>1, ElementOfSeq
  <2>3. SubSeq(d, m, n) \in Seq(1..size)
    BY <2>1, <2>2, SubSeqProperties
  <2> QED
    BY <1>3, <2>3 DEF d, m, n
<1>5. buf \in Seq(1..size)
  BY <1>1, <1>4, ConcatProperties
<1>6. back.data \o buf = SubSeq(fwd.data, 1, st.stored)
  <2>1. back.data \o buf = (back.data \o echo) \o Unread(st)
    BY <1>1, <1>4, Regroup
  <2>2. /\ 1 \in 1..(Len(fwd.data) + 1) /\ fwd.read \in (1 - 1)..Len(fwd.data)
        /\ st.stored \in fwd.read..Len(fwd.data)
    BY <1>1
  <2>3. SubSeq(fwd.data, 1, fwd.read) \o SubSeq(fwd.data, fwd.read + 1, st.stored)
            = SubSeq(fwd.data, 1, st.stored)
    BY <1>1, <2>2, ConcatAdjacentSubSeq
  <2> QED
    BY <1>3, <2>1, <2>3 DEF ServerInStep
<1> HIDE DEF buf
<1>7. CASE back' = Send(out, Front(buf)) /\ echo' = Rest(buf, Len(Front(buf)))
  <2>1. /\ Front(buf) \in Seq(1..size) /\ echo' \in Seq(1..size)
        /\ Front(buf) \o echo' = buf
    BY <1>1, <1>5, <1>7, FrontAndRest
  <2>2. Ordered(back') /\ back'.data = back.data \o Front(buf) /\ back'.read = back.read
    <3>1. /\ Ordered(Send(out, Front(buf)))
          /\ Send(out, Front(buf)).data = out.data \o Front(buf)
          /\ Send(out, Front(buf)).read = out.read
      BY <1>1, <2>1, SendOrdered, Zenon
    <3> QED
      BY <1>7, <3>1
  <2>3. (back.data \o Front(buf)) \o echo' = back.data \o (Front(buf) \o echo')
    BY <1>1, <2>1, Regroup, Zenon
  <2> QED
    BY <1>2, <1>6, <2>1, <2>2, <2>3
<1>8. CASE back' = out /\ echo' = buf
  BY <1>2, <1>5, <1>6, <1>8
<1> QED
  BY <1>7, <1>8 DEF OnRead, buf

\* What the server's step establishes suffices.
LEMMA ServerStep ==
    ASSUME TransferInv,
           UNCHANGED <<size, pos, eof, held, quit>>,
           Ordered(fwd'), Ordered(back'),
           fwd'.data = fwd.data, back'.read = back.read,
           echo' \in Seq(1..size),
           back'.data \o echo' = SubSeq(fwd'.data, 1, fwd'.read)
    PROVE  TransferInv'
<1>1. TypeOK'
  BY DEF TransferInv, TypeOK, Ordered, StreamType
<1>2. ClientInStep' /\ ServerInStep' /\ QuitsAtEnd'
  BY DEF TransferInv, ClientInStep, ServerInStep, QuitsAtEnd
<1> QED
  BY <1>1, <1>2 DEF TransferInv

\* The client's receiving side touches neither what is sent nor what the server holds.
LEMMA ClientReceives ==
    ASSUME TransferInv, ~quit,
           UNCHANGED <<size, pos, eof, held, quit, echo>>,
           Ordered(fwd'), Ordered(back'),
           fwd'.data = fwd.data, fwd'.read = fwd.read, back'.data = back.data
    PROVE  TransferInv'
<1>1. TypeOK'
  BY DEF TransferInv, TypeOK, Ordered, StreamType
<1>2. ClientInStep' /\ ServerInStep' /\ QuitsAtEnd'
  BY DEF TransferInv, ClientInStep, ServerInStep, QuitsAtEnd
<1> QED
  BY <1>1, <1>2 DEF TransferInv

\* The client's timer: it sends, or goes on holding, what it takes from the file.
LEMMA ClientSends ==
    ASSUME TransferInv, ~quit, ~quit',
           UNCHANGED <<size, back, echo>>,
           pos' \in 0..size, eof' \in BOOLEAN, eof' => pos' = size,
           held' \in Seq(1..size), Len(held') <= MaxDataSize,
           NEW b \in Seq(1..size), fwd' = fwd \/ fwd' = Send(fwd, b),
           fwd'.data \o held' = Bytes(0, pos')
    PROVE  TransferInv'
<1>1. TypeOK /\ size \in Nat /\ Ordered(fwd) /\ quit' = FALSE
  BY TypeFacts DEF TransferInv, TypeOK
<1>2. /\ Ordered(fwd') /\ fwd'.read = fwd.read
      /\ SubSeq(fwd'.data, 1, fwd.read) = SubSeq(fwd.data, 1, fwd.read)
  <2>1. CASE fwd' = fwd
    BY <1>1, <2>1
  <2>2. CASE fwd' = Send(fwd, b)
    <3>1. Ordered(fwd') /\ fwd'.data = fwd.data \o b /\ fwd'.read = fwd.read
      BY <1>1, <2>2, SendOrdered
    <3>2. fwd.data \in Seq(1..size) /\ fwd.read \in 0..Len(fwd.data)
      BY <1>1, OrderedFields
    <3> QED
      BY <3>1, <3>2, PrefixOfConcat
  <2> QED
    BY <2>1, <2>2
<1>3. TypeOK'
  BY <1>1, <1>2 DEF TypeOK, Ordered, StreamType
<1>4. ClientInStep' /\ ServerInStep' /\ QuitsAtEnd'
  BY <1>1, <1>2 DEF TransferInv, ClientInStep, ServerInStep, QuitsAtEnd
<1> QED
  BY <1>3, <1>4 DEF TransferInv

\* Every step keeps both halves of the way.
LEMMA TransferInductive ==
    ASSUME TransferInv, [Next]_vars
    PROVE  TransferInv'
<1>0. /\ TypeOK /\ ClientInStep /\ ServerInStep /\ QuitsAtEnd
      /\ size \in Nat /\ pos \in 0..size /\ pos \in Nat
      /\ held \in Seq(1..size) /\ Len(held) <= MaxDataSize
      /\ echo \in Seq(1..size)
      /\ Ordered(fwd) /\ Ordered(back)
      /\ MaxDataSize \in Nat /\ MaxDataSize > 0
      /\ quit \in BOOLEAN /\ eof \in BOOLEAN
      /\ fwd.data \in Seq(1..size)
  BY TypeFacts, OrderedFields DEF TransferInv, TypeOK
<1>1. CASE TickAtEnd
  <2>1. quit' => eof /\ Len(fwd.data) = back.read
    BY <1>1 DEF TickAtEnd
  <2>2. TypeOK'
    BY <1>0, <1>1 DEF TickAtEnd, TypeOK, StreamType
  <2> QED
    BY <1>0, <1>1, <2>1, <2>2
    DEF TickAtEnd, TransferInv, ClientInStep, ServerInStep, QuitsAtEnd
<1>2. CASE TickHeld
  <2> DEFINE b == Front(held)
             r == Rest(held, Len(b))
  <2>1. /\ b \in Seq(1..size) /\ r \in Seq(1..size) /\ Len(r) <= Len(held)
        /\ b \o r = held
    BY <1>0, FrontAndRest
  <2> HIDE DEF b, r
  <2>2. /\ ~quit /\ ~quit' /\ UNCHANGED <<size, back, echo, pos, eof>>
        /\ (eof' => pos' = size) /\ pos' \in 0..size /\ eof' \in BOOLEAN
    BY <1>0, <1>2 DEF TickHeld, QuitsAtEnd
  <2>3. CASE fwd' = Send(fwd, b) /\ held' = r
    <3>1. fwd'.data = fwd.data \o b
      BY <1>0, <2>1, <2>3, SendOrdered
    <3>2. (fwd.data \o b) \o r = fwd.data \o (b \o r)
      BY <1>0, <2>1, Regroup
    <3>3. fwd'.data \o held' = Bytes(0, pos')
      BY <1>0, <2>1, <2>2, <2>3, <3>1, <3>2 DEF ClientInStep
    <3>4. Len(held') <= MaxDataSize
      BY <1>0, <2>1, <2>3
    <3> QED
      BY <1>0, <2>1, <2>2, <2>3, <3>3, <3>4, ClientSends
  <2>4. CASE fwd' = fwd /\ held' = held
    BY <1>0, <2>1, <2>2, <2>4, ClientSends DEF ClientInStep
  <2> QED
    BY <1>2, <2>3, <2>4 DEF TickHeld, b, r
<1>3. CASE TickFile
  <2> DEFINE end == Min({pos + MaxDataSize, size})
             b == Bytes(pos, end)
  <2>1. /\ end \in Nat /\ pos <= end /\ end <= size /\ end - pos <= MaxDataSize
        /\ end < pos + MaxDataSize => end = size
    <3>1. pos + MaxDataSize \in Nat
      BY <1>0
    <3>2. /\ end \in Nat /\ end \in {pos + MaxDataSize, size}
          /\ end <= pos + MaxDataSize /\ end <= size
      BY <1>0, <3>1, MinOfTwo
    <3> HIDE DEF end
    <3> QED
      BY <1>0, <3>1, <3>2
  <2>2. /\ pos' = end /\ eof' = (end < pos + MaxDataSize)
        /\ \/ fwd' = Send(fwd, b) /\ held' = held
           \/ fwd' = fwd /\ held' = b
        /\ ~quit /\ ~quit' /\ held = <<>> /\ UNCHANGED <<size, back, echo>>
    BY <1>3 DEF TickFile
  <2> HIDE DEF end
  <2>3. end \in pos..size
    BY <1>0, <2>1
  <2>4. b \in Seq(1..size) /\ Len(b) = end - pos /\ Bytes(0, pos) \o b = Bytes(0, end)
    BY <1>0, <2>3, BytesAdjacent
  <2>5. fwd.data = Bytes(0, pos)
    <3>1. fwd.data \o <<>> = fwd.data
      BY <1>0, ConcatEmptySeq
    <3> QED
      BY <1>0, <2>2, <3>1 DEF ClientInStep
  <2> HIDE DEF b
  <2>6. /\ pos' \in 0..size /\ eof' \in BOOLEAN /\ (eof' => pos' = size)
        /\ Len(b) <= MaxDataSize
    BY <1>0, <2>1, <2>2, <2>4
  <2>7. CASE fwd' = Send(fwd, b) /\ held' = held
    <3>1. fwd'.data = fwd.data \o b
      BY <1>0, <2>4, <2>7, SendOrdered
    <3>2. fwd'.data \in Seq(1..size)
      BY <1>0, <2>4, <3>1
    <3>3. fwd'.data \o held' = fwd'.data
      BY <2>2, <2>7, <3>2, ConcatEmptySeq
    <3>4. fwd'.data \o held' = Bytes(0, pos')
      BY <2>2, <2>4, <2>5, <3>1, <3>3
    <3> QED
      BY <1>0, <2>2, <2>4, <2>6, <2>7, <3>4, ClientSends
  <2>8. CASE fwd' = fwd /\ held' = b
    <3>1. fwd'.data \o held' = Bytes(0, pos')
      BY <2>2, <2>4, <2>5, <2>8
    <3> QED
      BY <1>0, <2>2, <2>4, <2>6, <2>8, <3>1, ClientSends
  <2> QED
    BY <2>2, <2>7, <2>8
<1>4. ASSUME NEW n \in 0..size, ClientData(n)
      PROVE  TransferInv'
  <2>1. /\ ~quit /\ UNCHANGED <<size, pos, eof, held, quit, echo, fwd>>
        /\ Arrives(back, n) /\ back' = ReadAll(Store(back, n))
    BY <1>4 DEF ClientData
  <2>2. Ordered(Store(back, n)) /\ Store(back, n).data = back.data
    BY <1>0, <2>1, StoreOrdered
  <2>3. Ordered(back') /\ back'.data = back.data
    BY <1>0, <2>1, <2>2, ReadOrdered
  <2> QED
    BY <1>0, <2>1, <2>3, ClientReceives
<1>5. ASSUME NEW n \in 0..size, ClientAck(n)
      PROVE  TransferInv'
  <2>1. /\ ~quit /\ UNCHANGED <<size, pos, eof, held, quit, echo>>
        /\ Acks(fwd, n) /\ fwd' = Ack(fwd, n) /\ back' = ReadAll(back)
    BY <1>5 DEF ClientAck
  <2>2. Ordered(fwd') /\ fwd'.data = fwd.data /\ fwd'.read = fwd.read
    BY <1>0, <2>1, AckOrdered
  <2>3. Ordered(back') /\ back'.data = back.data
    BY <1>0, <2>1, ReadOrdered
  <2> QED
    BY <2>1, <2>2, <2>3, ClientReceives
<1>6. ASSUME NEW n \in 0..size, ClientStores(n)
      PROVE  TransferInv'
  <2>1. /\ ~quit /\ UNCHANGED <<size, pos, eof, held, quit, echo, fwd>>
        /\ Arrives(back, n) /\ back' = Store(back, n)
    BY <1>6 DEF ClientStores
  <2>2. Ordered(back') /\ back'.data = back.data
    BY <1>0, <2>1, StoreOrdered
  <2> QED
    BY <1>0, <2>1, <2>2, ClientReceives
<1>7. ASSUME NEW n \in 0..size, ServerData(n)
      PROVE  TransferInv'
  <2>1. /\ UNCHANGED <<size, pos, eof, held, quit>>
        /\ Arrives(fwd, n) /\ OnRead(Store(fwd, n), back)
    BY <1>7 DEF ServerData
  <2>2. /\ Ordered(Store(fwd, n)) /\ Store(fwd, n).data = fwd.data
        /\ Store(fwd, n).read = fwd.read
    BY <1>0, <2>1, StoreOrdered
  <2>3. /\ Ordered(fwd') /\ Ordered(back')
        /\ fwd'.data = fwd.data /\ back'.read = back.read
        /\ echo' \in Seq(1..size)
        /\ back'.data \o echo' = SubSeq(fwd'.data, 1, fwd'.read)
    BY <1>0, <2>1, <2>2, OnReadInStep
  <2> QED
    BY <2>1, <2>3, ServerStep
<1>8. ASSUME NEW n \in 0..size, ServerAck(n)
      PROVE  TransferInv'
  <2>1. /\ UNCHANGED <<size, pos, eof, held, quit>>
        /\ Acks(back, n) /\ OnRead(fwd, Ack(back, n))
    BY <1>8 DEF ServerAck
  <2>2. /\ Ordered(Ack(back, n)) /\ Ack(back, n).data = back.data
        /\ Ack(back, n).read = back.read
    BY <1>0, <2>1, AckOrdered
  <2>3. /\ Ordered(fwd') /\ Ordered(back')
        /\ fwd'.data = fwd.data /\ back'.read = back.read
        /\ echo' \in Seq(1..size)
        /\ back'.data \o echo' = SubSeq(fwd'.data, 1, fwd'.read)
    BY <1>0, <2>1, <2>2, OnReadInStep
  <2> QED
    BY <2>1, <2>3, ServerStep
<1>9. ASSUME NEW n \in 0..size, ServerStores(n)
      PROVE  TransferInv'
  <2>1. /\ UNCHANGED <<size, pos, eof, held, quit, back, echo>>
        /\ Arrives(fwd, n) /\ fwd' = Store(fwd, n)
    BY <1>9 DEF ServerStores
  <2>2. Ordered(fwd') /\ fwd'.data = fwd.data /\ fwd'.read = fwd.read
    BY <1>0, <2>1, StoreOrdered
  <2>3. back'.data \o echo' = SubSeq(fwd'.data, 1, fwd'.read)
    BY <1>0, <2>1, <2>2 DEF ServerInStep
  <2> QED
    BY <1>0, <2>1, <2>2, <2>3, ServerStep
<1>10. CASE UNCHANGED vars
  BY <1>0, <1>10
  DEF vars, TransferInv, TypeOK, StreamType, ClientInStep, ServerInStep, QuitsAtEnd
<1> QED
  BY <1>1, <1>2, <1>3, <1>4, <1>5, <1>6, <1>7, <1>8, <1>9, <1>10 DEF Next, Tick

\* The programs start with nothing read, sent or held.
LEMMA InitTransfer == Init => TransferInv
<1> SUFFICES ASSUME Init PROVE TransferInv
  OBVIOUS
<1>1. size \in Nat /\ <<>> \in Seq(1..size) /\ Len(<<>>) = 0
  BY TransferAssumption, EmptySeq DEF Init
<1>2. Ordered(NewStream)
  BY <1>1 DEF Ordered, StreamType, NewStream
<1>3. TypeOK
  <2>1. size \in FileSizes /\ pos \in 0..size
    BY <1>1 DEF Init
  <2>2. eof \in BOOLEAN /\ quit \in BOOLEAN
    BY Zenon DEF Init
  <2>3. /\ held \in Seq(1..size) /\ echo \in Seq(1..size) /\ Len(held) <= MaxDataSize
    BY <1>1, TransferAssumption DEF Init
  <2>4. Ordered(fwd) /\ Ordered(back)
    BY <1>2 DEF Init
  <2> QED
    BY <2>1, <2>2, <2>3, <2>4 DEF TypeOK, Ordered
<1>4. <<>> \o <<>> = <<>> /\ SubSeq(<<>>, 1, 0) = <<>> /\ Bytes(0, 0) = <<>>
  BY <1>1 DEF Bytes
<1> QED
  BY <1>3, <1>4 DEF Init, NewStream, TransferInv, ClientInStep, ServerInStep, QuitsAtEnd

\* The two halves give the whole way; and as much received as sent leaves nothing on it.
LEMMA HalvesMakeCopy == TransferInv => EchoIntact
<1> SUFFICES ASSUME TransferInv PROVE EchoIntact
  OBVIOUS
<1>0. /\ TypeOK /\ ClientInStep /\ ServerInStep /\ QuitsAtEnd
      /\ size \in Nat /\ held \in Seq(1..size) /\ echo \in Seq(1..size)
      /\ Ordered(fwd) /\ Ordered(back)
  BY TypeFacts DEF TransferInv
<1>1. /\ fwd.data \in Seq(1..size) /\ back.data \in Seq(1..size)
      /\ fwd.read \in 0..Len(fwd.data) /\ back.read \in 0..Len(back.data)
      /\ Len(fwd.data) \in Nat /\ Len(back.data) \in Nat /\ Len(echo) \in Nat
  BY <1>0, OrderedFields
<1>2. /\ SubSeq(fwd.data, 1, fwd.read) \in Seq(1..size)
      /\ Len(SubSeq(fwd.data, 1, fwd.read)) = fwd.read
      /\ SubSeq(fwd.data, 1, fwd.read) \o Rest(fwd.data, fwd.read) = fwd.data
  BY <1>1, SplitAt
<1>3. back.data \o echo \o Rest(fwd.data, fwd.read) \o held = Bytes(0, pos)
  BY <1>0, <1>2 DEF ClientInStep, ServerInStep
<1>4. ASSUME quit PROVE Copy = fwd.data
  <2>1. Len(fwd.data) = back.read
    BY <1>0, <1>4 DEF QuitsAtEnd
  <2>2. Len(back.data \o echo) = Len(back.data) + Len(echo)
    BY <1>0, <1>1
  <2>3. Len(back.data) + Len(echo) = fwd.read
    BY <1>0, <1>2, <2>2 DEF ServerInStep
  <2>4. fwd.read = Len(fwd.data) /\ back.read = Len(back.data) /\ Len(echo) = 0
    BY <1>1, <2>1, <2>3
  <2>5. echo = <<>>
    BY <1>0, <2>4, EmptySeq
  <2>6. back.data \o <<>> = back.data
    BY <1>1, ConcatEmptySeq
  <2>7. SubSeq(fwd.data, 1, Len(fwd.data)) = fwd.data
    BY <1>1, SubSeqFull
  <2>8. back.data = fwd.data
    BY <1>0, <2>4, <2>5, <2>6, <2>7 DEF ServerInStep
  <2> QED
    BY <2>1, <2>7, <2>8 DEF Copy
<1> QED
  BY <1>3, <1>4 DEF EchoIntact

\* Both programs keep their types, and the client's send_buffer at most one block.
THEOREM TypeCorrect == Spec => []TypeOK
<1>1. Init => TransferInv
  BY InitTransfer
<1>2. TransferInv /\ [Next]_vars => TransferInv'
  BY TransferInductive
<1>3. TransferInv => TypeOK
  BY DEF TransferInv
<1> QED
  BY <1>1, <1>2, <1>3, PTL DEF Spec

\* The bytes that come back are those that were sent, in order and without a gap, whatever
\* was lost, repeated or refused on the way; when the client quits they have all come.
THEOREM EchoCorrect == Spec => []EchoIntact
<1>1. Init => TransferInv
  BY InitTransfer
<1>2. TransferInv /\ [Next]_vars => TransferInv'
  BY TransferInductive
<1> QED
  BY <1>1, <1>2, HalvesMakeCopy, PTL DEF Spec
=============================================================================
