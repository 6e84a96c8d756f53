-------------------------- MODULE ConnectionProofs --------------------------
(***************************************************************************)
(* Proofs about Connection: for data and files of any size, a send buffer  *)
(* of any size, and either end of the connection.                          *)
(***************************************************************************)
EXTENDS Connection, SequenceTheorems, TLAPS

\* TypeOK, in parts.
Streams ==
    /\ submitted \in 0..MaxBytes
    /\ buf \in Seq(1..submitted)
    /\ file \in Seq(1..submitted)
    /\ wire \in Seq(1..submitted)

Places ==
    /\ st \in {"HandShaking", "Connected", "WaitClosed", "Closed"}
    /\ wcb \in {"write", "sendfile"}
    /\ at \in {"loop", "flush", "sendfile", "write_cb", "conn_read", "conn_write"}
    /\ ret \in {"loop", "write_cb", "conn_read", "conn_write"}
    /\ est \in {"connecting", "up", "refused"}

Counters ==
    /\ space \in 0..SockBuf
    /\ arrivals \in 0..MaxArrivals
    /\ notices \in Nat

Flags ==
    /\ reg \in BOOLEAN /\ nospace \in BOOLEAN /\ rx \in BOOLEAN
    /\ fin \in BOOLEAN /\ rst \in BOOLEAN /\ ready \in BOOLEAN
    /\ dropped \in BOOLEAN /\ mixed \in BOOLEAN /\ missed \in BOOLEAN

(***************************************************************************)
(* WriteArmed speaks of the loop, but the callback is chosen by handlers   *)
(* that run user code in between: it holds at every place except inside    *)
(* handle_sendfile, which is only entered with an empty buffer; and nothing *)
(* has touched the callback before the connection is established.          *)
(***************************************************************************)
Armed ==
    /\ buf # <<>> => wcb = "write"
    /\ buf = <<>> /\ file # <<>> => wcb = "sendfile"

WriteInv ==
    st # "Closed" /\ ~mixed =>
        /\ IF at = "sendfile" THEN buf = <<>> ELSE Armed
        /\ st = "HandShaking" => at = "loop" /\ wcb = "write" /\ file = <<>>

ConnInv == Streams /\ Places /\ Counters /\ Flags /\ ToldOnce /\ WriteInv /\ StreamIntact
----------------------------------------------------------------------------
(***************************************************************************)
(* Sequences of bytes.                                                     *)
(***************************************************************************)

\* What is taken of a sequence and what is left of it.
LEMMA TakeDrop ==
    ASSUME NEW S, NEW s \in Seq(S), NEW n \in 1..Len(s)
    PROVE  /\ Take(s, n) \in Seq(S) /\ Drop(s, n) \in Seq(S)
           /\ Take(s, n) \o Drop(s, n) = s
           /\ Drop(s, n) = <<>> <=> n = Len(s)
<1>1. Len(s) \in Nat /\ \A i \in 1..Len(s) : s[i] \in S
  BY LenProperties, ElementOfSeq
<1>2. /\ Take(s, n) \in Seq(S) /\ Len(Take(s, n)) = n
      /\ \A i \in 1..n : Take(s, n)[i] = s[i]
  BY <1>1, SubSeqProperties DEF Take
<1>3. /\ Drop(s, n) \in Seq(S) /\ Len(Drop(s, n)) = Len(s) - n
      /\ \A i \in 1..(Len(s) - n) : Drop(s, n)[i] = s[n + i]
  BY <1>1, SubSeqProperties DEF Drop
<1>4. Drop(s, n) = <<>> <=> n = Len(s)
  BY <1>1, <1>3, EmptySeq
<1>5. Take(s, n) \o Drop(s, n) = s
  <2>1. SubSeq(s, 1, n) \o SubSeq(s, n + 1, Len(s)) = SubSeq(s, 1, Len(s))
    <3>1. 1 \in 1..(Len(s) + 1) /\ n \in (1 - 1)..Len(s) /\ Len(s) \in n..Len(s)
      BY <1>1
    <3> QED
      BY <3>1, ConcatAdjacentSubSeq
  <2> QED
    BY <2>1, SubSeqFull DEF Take, Drop
<1> QED
  BY <1>2, <1>3, <1>4, <1>5

\* The bytes of a send follow the ones submitted before.
LEMMA BytesFollow ==
    ASSUME submitted \in Nat, NEW n \in Nat \ {0}
    PROVE  /\ Bytes(n) \in Seq(1..(submitted + n)) /\ Len(Bytes(n)) = n /\ Bytes(n) # <<>>
           /\ Ids(submitted) \o Bytes(n) = Ids(submitted + n)
<1>1. Bytes(n) \in Seq(1..(submitted + n)) /\ Len(Bytes(n)) = n /\ Bytes(n) # <<>>
  BY DEF Bytes
<1>2. Bytes(n) \in Seq(Nat) /\ \A i \in 1..n : Bytes(n)[i] = submitted + i
  BY DEF Bytes
<1>3. ASSUME NEW k \in Nat
      PROVE  Ids(k) \in Seq(Nat) /\ Len(Ids(k)) = k /\ \A i \in 1..k : Ids(k)[i] = i
  BY DEF Ids
<1>4. submitted + n \in Nat
  OBVIOUS
<1>5. Ids(submitted) \o Bytes(n) = Ids(submitted + n)
  <2> DEFINE a == Ids(submitted)
             b == Bytes(n)
             c == Ids(submitted + n)
  <2>1. a \in Seq(Nat) /\ Len(a) = submitted /\ \A i \in 1..submitted : a[i] = i
    BY <1>3
  <2>2. c \in Seq(Nat) /\ Len(c) = submitted + n /\ \A i \in 1..(submitted + n) : c[i] = i
    BY <1>3, <1>4
  <2>3. b \in Seq(Nat) /\ Len(b) = n /\ \A i \in 1..n : b[i] = submitted + i
    BY <1>1, <1>2
  <2>4. n \in Nat /\ submitted \in Nat
    OBVIOUS
  <2> HIDE DEF a, b, c
  <2> DEFINE ab == a \o b
  <2>5. /\ ab \in Seq(Nat) /\ Len(ab) = submitted + n
        /\ \A i \in 1..(submitted + n) : ab[i] = IF i <= submitted THEN a[i] ELSE b[i - submitted]
    BY <2>1, <2>3, ConcatProperties
  <2> HIDE DEF ab
  <2>6. ASSUME NEW i \in 1..(submitted + n) PROVE ab[i] = c[i]
    <3>1. i \in Nat /\ c[i] = i
      BY <2>2, <2>4
    <3>2. CASE i <= submitted
      <4>1. ab[i] = a[i] /\ a[i] = i
        BY <2>1, <2>4, <2>5, <3>1, <3>2
      <4> QED
        BY <3>1, <4>1
    <3>3. CASE i > submitted
      <4>1. i - submitted \in 1..n /\ b[i - submitted] = submitted + (i - submitted)
        BY <2>3, <2>4, <3>1, <3>3
      <4>2. ab[i] = b[i - submitted]
        BY <2>4, <2>5, <3>1, <3>3
      <4> QED
        BY <2>4, <3>1, <4>1, <4>2
    <3> QED
      BY <2>4, <3>1, <3>2, <3>3
  <2>7. ab = c
    BY <2>2, <2>5, <2>6, SeqEqual
  <2> QED
    BY <2>7 DEF a, b, c, ab
<1> QED
  BY <1>1, <1>5

\* More may have been submitted.
LEMMA MoreBytes ==
    ASSUME NEW m \in Nat, NEW n \in Nat, m <= n, NEW s \in Seq(1..m)
    PROVE  s \in Seq(1..n)
<1>1. 1..m \subseteq 1..n
  OBVIOUS
<1> QED
  BY <1>1, SeqMonotonic
----------------------------------------------------------------------------
(***************************************************************************)
(* Types, and the single notice.                                           *)
(***************************************************************************)

\* The steps that touch neither the data of the user nor what was sent.
Idles ==
    \/ Close \/ FileGone \/ AfterWriteCb \/ AfterConnWrite \/ AfterConnRead
    \/ OnRead \/ OnWrite \/ OnWriteFile \/ OnClose \/ OnNothing
    \/ Established \/ PeerSends \/ PeerCloses \/ PeerResets \/ PeerReads
    \/ UNCHANGED vars

\* They leave the data alone.
LEMMA IdleData ==
    ASSUME Idles
    PROVE  UNCHANGED <<submitted, buf, file, wire, wcb, mixed, dropped>>
<1>1. CASE Close \/ FileGone \/ AfterWriteCb \/ AfterConnWrite \/ AfterConnRead
  BY <1>1 DEF Close, FileGone, AfterWriteCb, AfterConnWrite, AfterConnRead, ReadBytes, out, user
<1>2. CASE OnRead
  BY <1>2 DEF OnRead, ReadBytes, user
<1>3. CASE OnWrite \/ OnWriteFile \/ OnClose \/ OnNothing
  BY <1>3 DEF OnWrite, OnWriteFile, OnClose, OnNothing, user
<1>4. CASE Established \/ PeerSends \/ PeerCloses \/ PeerResets \/ PeerReads
  BY <1>4 DEF Established, PeerSends, PeerCloses, PeerResets, PeerReads, local, out, user
<1>5. CASE UNCHANGED vars
  BY <1>5 DEF vars
<1> QED
  BY <1>1, <1>2, <1>3, <1>4, <1>5 DEF Idles

\* Every other step sends, starts a file or goes on with one.
LEMMA StepKinds ==
    ASSUME [Next]_vars
    PROVE  \/ Idles \/ DoSendfile \/ Flush
           \/ \E n \in Chunks : Send(n) \/ Sendfile(n)
BY DEF Next, Handler, Idles

\* What the kernel takes of s.
LEMMA AcceptTyped ==
    ASSUME Counters, NEW S, NEW s \in Seq(S), NEW n \in 1..Len(s), Accept(s, n)
    PROVE  space' \in 0..SockBuf /\ nospace' \in {TRUE, FALSE, nospace}
<1>1. space' \in 0..SockBuf
  BY ConnectionAssumption DEF Counters, Accept
<1>2. nospace' \in {TRUE, FALSE, nospace}
  BY DEF Accept
<1> QED
  BY <1>1, <1>2

\* Places of the code and states of the connection.
LEMMA PlacesStep ==
    ASSUME Places, [Next]_vars
    PROVE  Places'
<1> USE DEF Places
<1>1. ASSUME NEW n \in Chunks, Send(n) PROVE Places'
  BY <1>1 DEF Send, SendBuffered, SendDirect, CloseConn, conn, sock
<1>2. ASSUME NEW n \in Chunks, Sendfile(n) PROVE Places'
  BY <1>2 DEF Sendfile, UserCode, conn, sock
<1>3. CASE Close
  BY <1>3 DEF Close, CloseConn, sock
<1>4. CASE DoSendfile
  BY <1>4 DEF DoSendfile, CloseConn, conn, sock
<1>5. CASE Flush
  BY <1>5 DEF Flush, CloseConn, conn, sock
<1>6. CASE FileGone \/ AfterWriteCb \/ AfterConnWrite
  BY <1>6 DEF FileGone, AfterWriteCb, AfterConnWrite, CloseConn, conn, sock
<1>7. CASE AfterConnRead
  BY <1>7 DEF AfterConnRead, ReadBytes, CloseConn, conn
<1>8. CASE OnRead
  BY <1>8 DEF OnRead, Handshake, ReadBytes, CloseConn, conn, sock
<1>9. CASE OnWrite
  BY <1>9 DEF OnWrite, Handshake, CloseConn, conn, sock
<1>10. CASE OnWriteFile \/ OnClose \/ OnNothing
  BY <1>10 DEF OnWriteFile, OnClose, OnNothing, CloseConn, conn, sock
<1>11. CASE Established \/ PeerSends \/ PeerCloses \/ PeerResets \/ PeerReads
  BY <1>11 DEF Established, PeerSends, PeerCloses, PeerResets, PeerReads, local, conn, sock
<1>12. CASE UNCHANGED vars
  BY <1>12 DEF vars
<1> QED
  BY <1>1, <1>2, <1>3, <1>4, <1>5, <1>6, <1>7, <1>8, <1>9, <1>10, <1>11, <1>12
  DEF Next, Handler

\* The user is told of the end once: every path to Closed goes through the check of
\* handle_close, and none leads out of it.
LEMMA NoticeStep ==
    ASSUME Places, ToldOnce, [Next]_vars
    PROVE  ToldOnce'
<1> USE DEF ToldOnce
<1>0. CloseConn => ToldOnce'
  BY DEF CloseConn
<1>1. ASSUME NEW n \in Chunks, Send(n) PROVE ToldOnce'
  BY <1>0, <1>1 DEF Send, SendBuffered, SendDirect, conn
<1>2. ASSUME NEW n \in Chunks, Sendfile(n) PROVE ToldOnce'
  BY <1>2 DEF Sendfile, conn
<1>3. CASE Close
  BY <1>0, <1>3 DEF Close
<1>4. CASE DoSendfile
  BY <1>0, <1>4 DEF DoSendfile, conn
<1>5. CASE Flush
  BY <1>0, <1>5 DEF Flush, conn
<1>6. CASE FileGone \/ AfterWriteCb \/ AfterConnWrite
  BY <1>0, <1>6 DEF FileGone, AfterWriteCb, AfterConnWrite, conn
<1>7. CASE AfterConnRead
  BY <1>0, <1>7 DEF AfterConnRead, ReadBytes, conn
<1>8. CASE OnRead
  BY <1>0, <1>8 DEF OnRead, Handshake, ReadBytes, conn
<1>9. CASE OnWrite
  BY <1>0, <1>9 DEF OnWrite, Handshake, conn
<1>10. CASE OnWriteFile \/ OnClose \/ OnNothing
  BY <1>0, <1>10 DEF OnWriteFile, OnClose, OnNothing, conn
<1>11. CASE Established \/ PeerSends \/ PeerCloses \/ PeerResets \/ PeerReads
  BY <1>11 DEF Established, PeerSends, PeerCloses, PeerResets, PeerReads, local, conn
<1>12. CASE UNCHANGED vars
  BY <1>12 DEF vars
<1> QED
  BY <1>1, <1>2, <1>3, <1>4, <1>5, <1>6, <1>7, <1>8, <1>9, <1>10, <1>11, <1>12
  DEF Next, Handler

\* The send buffer of the kernel and the arrivals stay in their bounds.
LEMMA CountersStep ==
    ASSUME Streams, Counters, ToldOnce', [Next]_vars
    PROVE  Counters'
<1>0. notices' \in Nat
  BY DEF ToldOnce
<1>1. ASSUME NEW n \in Chunks, Send(n) PROVE Counters'
  <2>1. space' \in 0..SockBuf
    <3>1. n \in Nat \ {0} /\ submitted \in Nat
      BY ConnectionAssumption DEF Streams
    <3>2. Bytes(n) \in Seq(1..(submitted + n)) /\ Len(Bytes(n)) = n
      BY <3>1, BytesFollow
    <3>3. ASSUME NEW k \in 1..n, Accept(Bytes(n), k) PROVE space' \in 0..SockBuf
      BY <3>2, <3>3, AcceptTyped
    <3> QED
      BY <1>1, <3>3 DEF Send, SendBuffered, SendDirect, out, Counters
  <2> QED
    BY <1>0, <1>1, <2>1 DEF Send, sock, Counters
<1>2. ASSUME NEW n \in Chunks, Sendfile(n) PROVE Counters'
  BY <1>0, <1>2 DEF Sendfile, sock, out, Counters
<1>3. CASE DoSendfile
  <2>1. ASSUME NEW n \in 1..Len(file), Accept(file, n) PROVE space' \in 0..SockBuf
    BY <2>1, AcceptTyped DEF Streams
  <2> QED
    BY <1>0, <1>3, <2>1 DEF DoSendfile, sock, out, Counters
<1>4. CASE Flush
  <2>1. ASSUME NEW n \in 1..Len(buf), Accept(buf, n) PROVE space' \in 0..SockBuf
    BY <2>1, AcceptTyped DEF Streams
  <2> QED
    BY <1>0, <1>4, <2>1 DEF Flush, sock, out, Counters
<1>5. CASE Close \/ FileGone \/ AfterWriteCb \/ AfterConnWrite \/ AfterConnRead
  BY <1>0, <1>5
  DEF Close, FileGone, AfterWriteCb, AfterConnWrite, AfterConnRead, ReadBytes, sock, out, Counters
<1>6. CASE OnRead
  BY <1>0, <1>6 DEF OnRead, ReadBytes, sock, Counters
<1>7. CASE OnWrite \/ OnWriteFile \/ OnClose \/ OnNothing
  BY <1>0, <1>7 DEF OnWrite, OnWriteFile, OnClose, OnNothing, sock, Counters
<1>8. CASE Established \/ PeerSends \/ PeerCloses \/ PeerResets
  BY <1>0, <1>8, ConnectionAssumption
  DEF Established, PeerSends, PeerCloses, PeerResets, out, Counters
<1>9. CASE PeerReads
  BY <1>0, <1>9, ConnectionAssumption DEF PeerReads, sock, Counters
<1>10. CASE UNCHANGED vars
  BY <1>0, <1>10 DEF vars, Counters
<1> QED
  BY <1>1, <1>2, <1>3, <1>4, <1>5, <1>6, <1>7, <1>8, <1>9, <1>10 DEF Next, Handler

\* The flags are Booleans.
LEMMA FlagsStep ==
    ASSUME Streams, Counters, Flags, [Next]_vars
    PROVE  Flags'
<1> USE DEF Flags
<1>1. ASSUME NEW n \in Chunks, Send(n) PROVE Flags'
  <2>1. nospace' \in BOOLEAN
    BY <1>1, Zenon DEF Send, SendBuffered, SendDirect, Accept, out
  <2>2. dropped' \in BOOLEAN /\ reg' \in BOOLEAN
    BY <1>1, Zenon DEF Send, SendBuffered, SendDirect, CloseConn, conn
  <2>3. mixed' \in BOOLEAN
    BY <1>1, Zenon DEF Send
  <2>4. UNCHANGED <<rx, fin, rst, ready, missed>>
    BY <1>1 DEF Send, sock
  <2> QED
    BY <2>1, <2>2, <2>3, <2>4
<1>2. ASSUME NEW n \in Chunks, Sendfile(n) PROVE Flags'
  <2>1. mixed' \in BOOLEAN
    BY <1>2, Zenon DEF Sendfile
  <2>2. UNCHANGED <<reg, nospace, rx, fin, rst, ready, dropped, missed>>
    BY <1>2 DEF Sendfile, conn, sock, out
  <2> QED
    BY <2>1, <2>2
<1>3. CASE Close \/ FileGone \/ AfterWriteCb \/ AfterConnWrite
  <2>1. UNCHANGED <<nospace, rx, fin, rst, ready, dropped, mixed, missed>>
    BY <1>3 DEF Close, FileGone, AfterWriteCb, AfterConnWrite, sock, out, user
  <2>2. reg' \in BOOLEAN
    BY <1>3, Zenon DEF Close, FileGone, AfterWriteCb, AfterConnWrite, CloseConn, conn
  <2> QED
    BY <2>1, <2>2
<1>4. CASE DoSendfile \/ Flush
  <2>1. UNCHANGED <<rx, fin, rst, ready, dropped, mixed, missed>>
    BY <1>4 DEF DoSendfile, Flush, sock, user
  <2>2. reg' \in BOOLEAN
    BY <1>4, Zenon DEF DoSendfile, Flush, CloseConn, conn
  <2>3. nospace' \in BOOLEAN
    BY <1>4, Zenon DEF DoSendfile, Flush, Accept, out
  <2> QED
    BY <2>1, <2>2, <2>3
<1>5. CASE AfterConnRead \/ OnRead
  <2>1. UNCHANGED <<fin, rst, dropped, mixed>>
    BY <1>5 DEF AfterConnRead, OnRead, ReadBytes, sock, user
  <2>2. reg' \in BOOLEAN
    BY <1>5, Zenon DEF AfterConnRead, OnRead, ReadBytes, Handshake, CloseConn, conn
  <2>3. nospace' \in BOOLEAN /\ ready' \in BOOLEAN
    BY <1>5, Zenon DEF AfterConnRead, OnRead, Reported
  <2>4. rx' \in BOOLEAN /\ missed' \in BOOLEAN
    BY <1>5, Zenon DEF AfterConnRead, OnRead, ReadBytes, sock
  <2> QED
    BY <2>1, <2>2, <2>3, <2>4
<1>6. CASE OnWrite \/ OnWriteFile \/ OnClose \/ OnNothing
  <2>1. UNCHANGED <<rx, fin, rst, dropped, mixed, missed>>
    BY <1>6 DEF OnWrite, OnWriteFile, OnClose, OnNothing, sock, user
  <2>2. reg' \in BOOLEAN
    BY <1>6, Zenon
    DEF OnWrite, OnWriteFile, OnClose, OnNothing, Handshake, CloseConn, conn
  <2>3. nospace' \in BOOLEAN /\ ready' \in BOOLEAN
    BY <1>6, Zenon DEF OnWrite, OnWriteFile, OnClose, OnNothing, Reported
  <2> QED
    BY <2>1, <2>2, <2>3
<1>7. CASE Established \/ PeerSends \/ PeerCloses \/ PeerResets \/ PeerReads
  <2>1. UNCHANGED <<reg, dropped, mixed, missed>>
    BY <1>7 DEF Established, PeerSends, PeerCloses, PeerResets, PeerReads, local, conn, user
  <2>2. rx' \in BOOLEAN /\ fin' \in BOOLEAN /\ rst' \in BOOLEAN
    BY <1>7, Zenon DEF Established, PeerSends, PeerCloses, PeerResets, PeerReads, sock
  <2>3. nospace' \in BOOLEAN /\ ready' \in BOOLEAN
    BY <1>7, Zenon DEF Established, PeerSends, PeerCloses, PeerResets, PeerReads, out
  <2> QED
    BY <2>1, <2>2, <2>3
<1>8. CASE UNCHANGED vars
  BY <1>8 DEF vars
<1> QED
  BY <1>1, <1>2, <1>3, <1>4, <1>5, <1>6, <1>7, <1>8 DEF Next, Handler
----------------------------------------------------------------------------
(***************************************************************************)
(* The data.                                                               *)
(***************************************************************************)

\* What send() does with the bytes b of the user: it buffers them, gives them to the kernel
\* and buffers the rest, or forgets them.
LEMMA SendEffect ==
    ASSUME Streams, NEW n \in Chunks, Send(n)
    PROVE  /\ n \in Nat \ {0} /\ submitted \in Nat /\ submitted' = submitted + n
           /\ submitted' \in 0..MaxBytes /\ file' = file /\ at' = at /\ at # "sendfile"
           /\ mixed' = (mixed \/ file # <<>>)
           /\ \/ /\ buf # <<>> \/ st = "HandShaking"
                 /\ buf' = buf \o Bytes(n)
                 /\ UNCHANGED <<st, wire, wcb, dropped>>
              \/ /\ buf = <<>>
                 /\ \E k \in 1..n :
                       /\ wire' = wire \o Take(Bytes(n), k)
                       /\ buf' = Drop(Bytes(n), k)
                       /\ wcb' = IF k < n THEN "write" ELSE wcb
                       /\ UNCHANGED <<st, dropped>>
              \/ buf = <<>> /\ dropped' = TRUE /\ UNCHANGED <<st, buf, wire, wcb>>
              \/ buf = <<>> /\ st' = "Closed" /\ UNCHANGED <<buf, wire, wcb, dropped>>
<1>1. n \in Nat \ {0} /\ submitted \in Nat /\ submitted' = submitted + n
  BY ConnectionAssumption DEF Streams, Send
<1>2. submitted' \in 0..MaxBytes
  BY <1>1, ConnectionAssumption DEF Send
<1>3. /\ file' = file /\ at' = at /\ at # "sendfile"
      /\ mixed' = (mixed \/ file # <<>>)
  BY DEF Send, UserCode
<1>4. CASE SendBuffered(n)
  BY <1>1, <1>2, <1>3, <1>4 DEF SendBuffered, conn, out
<1>5. CASE SendDirect(n)
  BY <1>1, <1>2, <1>3, <1>5 DEF SendDirect, Accept, CloseConn, conn, out
<1> QED
  BY <1>4, <1>5 DEF Send

\* The buffers hold bytes that were submitted.
LEMMA StreamsStep ==
    ASSUME Streams, [Next]_vars
    PROVE  Streams'
<1>0. /\ submitted \in 0..MaxBytes /\ submitted \in Nat
      /\ buf \in Seq(1..submitted) /\ file \in Seq(1..submitted) /\ wire \in Seq(1..submitted)
  BY ConnectionAssumption DEF Streams
<1>1. ASSUME NEW n \in Chunks, Send(n) PROVE Streams'
  <2>1. /\ n \in Nat \ {0} /\ submitted' = submitted + n /\ submitted' \in 0..MaxBytes
        /\ file' = file
    BY <1>1, SendEffect
  <2> DEFINE S == 1..(submitted + n)
  <2>2. buf \in Seq(S) /\ file \in Seq(S) /\ wire \in Seq(S)
    BY <1>0, <2>1, MoreBytes
  <2>3. Bytes(n) \in Seq(S) /\ Len(Bytes(n)) = n
    BY <1>0, <2>1, BytesFollow
  <2> HIDE DEF S
  <2>4. ASSUME NEW k \in 1..n
        PROVE  wire \o Take(Bytes(n), k) \in Seq(S) /\ Drop(Bytes(n), k) \in Seq(S)
    <3>1. Take(Bytes(n), k) \in Seq(S) /\ Drop(Bytes(n), k) \in Seq(S)
      BY <2>3, TakeDrop
    <3> QED
      BY <2>2, <3>1, ConcatProperties
  <2>5. buf \o Bytes(n) \in Seq(S)
    BY <2>2, <2>3, ConcatProperties
  <2>6. buf' \in Seq(S) /\ wire' \in Seq(S)
    BY <1>1, <2>2, <2>4, <2>5, SendEffect
  <2> QED
    BY <2>1, <2>2, <2>6 DEF S, Streams
<1>2. ASSUME NEW n \in Chunks, Sendfile(n) PROVE Streams'
  <2>1. n \in Nat \ {0} /\ submitted' = submitted + n /\ submitted' \in 0..MaxBytes
    BY <1>0, <1>2, ConnectionAssumption DEF Sendfile
  <2>2. buf \in Seq(1..(submitted + n)) /\ wire \in Seq(1..(submitted + n))
    BY <1>0, <2>1, MoreBytes
  <2>3. Bytes(n) \in Seq(1..(submitted + n))
    BY <1>0, <2>1, BytesFollow
  <2>4. file' = Bytes(n) /\ buf' = buf /\ wire' = wire
    BY <1>2 DEF Sendfile, out
  <2> QED
    BY <2>1, <2>2, <2>3, <2>4 DEF Streams
<1>3. CASE DoSendfile
  <2>1. ASSUME NEW n \in 1..Len(file)
        PROVE  wire \o Take(file, n) \in Seq(1..submitted) /\ Drop(file, n) \in Seq(1..submitted)
    <3>1. Take(file, n) \in Seq(1..submitted) /\ Drop(file, n) \in Seq(1..submitted)
      BY <1>0, TakeDrop
    <3> QED
      BY <1>0, <3>1, ConcatProperties
  <2> QED
    BY <1>0, <1>3, <2>1 DEF DoSendfile, Accept, out, user, Streams
<1>4. CASE Flush
  <2>1. ASSUME NEW n \in 1..Len(buf)
        PROVE  wire \o Take(buf, n) \in Seq(1..submitted) /\ Drop(buf, n) \in Seq(1..submitted)
    <3>1. Take(buf, n) \in Seq(1..submitted) /\ Drop(buf, n) \in Seq(1..submitted)
      BY <1>0, TakeDrop
    <3> QED
      BY <1>0, <3>1, ConcatProperties
  <2> QED
    BY <1>0, <1>4, <2>1 DEF Flush, Accept, out, user, Streams
<1>5. CASE Idles
  BY <1>5, IdleData DEF Streams
<1> QED
  BY <1>1, <1>2, <1>3, <1>4, <1>5, StepKinds

\* Closed and mixed are never left.
LEMMA EndsStay ==
    ASSUME Places, [Next]_vars, st' # "Closed", ~mixed'
    PROVE  st # "Closed" /\ ~mixed
<1>1. ASSUME NEW n \in Chunks, Send(n) \/ Sendfile(n) PROVE st # "Closed" /\ ~mixed
  BY <1>1 DEF Send, SendBuffered, SendDirect, Sendfile, CloseConn, conn
<1>2. CASE Close \/ FileGone \/ AfterWriteCb \/ AfterConnWrite \/ AfterConnRead
  BY <1>2 DEF Close, FileGone, AfterWriteCb, AfterConnWrite, AfterConnRead, ReadBytes,
              CloseConn, conn, user
<1>3. CASE DoSendfile \/ Flush
  BY <1>3 DEF DoSendfile, Flush, CloseConn, conn, user
<1>4. CASE OnRead \/ OnWrite \/ OnWriteFile \/ OnClose \/ OnNothing
  BY <1>4 DEF OnRead, OnWrite, OnWriteFile, OnClose, OnNothing, Handshake, ReadBytes,
              CloseConn, conn, user
<1>5. CASE Established \/ PeerSends \/ PeerCloses \/ PeerResets \/ PeerReads
  BY <1>5 DEF Established, PeerSends, PeerCloses, PeerResets, PeerReads, local, conn, user
<1>6. CASE UNCHANGED vars
  BY <1>6 DEF vars
<1> QED
  BY <1>1, <1>2, <1>3, <1>4, <1>5, <1>6 DEF Next, Handler

\* The callback for writable events is the one for what is unsent.
LEMMA WriteStep ==
    ASSUME Streams, Places, WriteInv, [Next]_vars
    PROVE  WriteInv'
<1> SUFFICES ASSUME st' # "Closed", ~mixed'
             PROVE  /\ IF at' = "sendfile" THEN buf' = <<>> ELSE Armed'
                    /\ st' = "HandShaking" => at' = "loop" /\ wcb' = "write" /\ file' = <<>>
  BY DEF WriteInv
<1>0. /\ st # "Closed" /\ ~mixed
      /\ IF at = "sendfile" THEN buf = <<>> ELSE Armed
      /\ st = "HandShaking" => at = "loop" /\ wcb = "write" /\ file = <<>>
  BY EndsStay DEF WriteInv
<1>1. ASSUME NEW n \in Chunks, Send(n)
      PROVE  Armed' /\ at' # "sendfile"
             /\ (st' = "HandShaking" => at' = "loop" /\ wcb' = "write" /\ file' = <<>>)
  <2>1. /\ n \in Nat \ {0} /\ submitted \in Nat /\ file' = <<>> /\ file = <<>>
        /\ at' = at /\ at # "sendfile" /\ Armed
    BY <1>0, <1>1, SendEffect
  <2>2. Bytes(n) \in Seq(1..(submitted + n)) /\ Len(Bytes(n)) = n /\ Bytes(n) # <<>>
    BY <2>1, BytesFollow
  <2>3. CASE /\ buf # <<>> \/ st = "HandShaking"
             /\ buf' = buf \o Bytes(n)
             /\ UNCHANGED <<st, wire, wcb, dropped>>
    BY <1>0, <2>1, <2>3 DEF Armed
  <2>4. CASE /\ buf = <<>>
             /\ \E k \in 1..n :
                   /\ wire' = wire \o Take(Bytes(n), k)
                   /\ buf' = Drop(Bytes(n), k)
                   /\ wcb' = IF k < n THEN "write" ELSE wcb
                   /\ UNCHANGED <<st, dropped>>
    <3>1. PICK k \in 1..n : /\ buf' = Drop(Bytes(n), k)
                            /\ wcb' = IF k < n THEN "write" ELSE wcb
                            /\ st' = st
      BY <2>4
    <3>2. k < n \/ buf' = <<>>
      BY <2>1, <2>2, <3>1, TakeDrop
    <3> QED
      BY <1>0, <2>1, <3>1, <3>2 DEF Armed
  <2>5. CASE UNCHANGED <<st, buf, wcb>>
    BY <1>0, <2>1, <2>5 DEF Armed
  <2> QED
    BY <1>1, <2>3, <2>4, <2>5, SendEffect
<1>2. ASSUME NEW n \in Chunks, Sendfile(n)
      PROVE  /\ IF at' = "sendfile" THEN buf' = <<>> ELSE Armed'
             /\ st' # "HandShaking"
  <2>1. /\ at # "sendfile" /\ st # "HandShaking" /\ UNCHANGED <<st, buf, wcb>>
        /\ IF buf # <<>> THEN at' = at ELSE at' = "sendfile"
    BY <1>2 DEF Sendfile, UserCode, conn
  <2> QED
    BY <1>0, <2>1 DEF Armed
<1>3. CASE DoSendfile
  <2>1. at = "sendfile" /\ at' = ret /\ at' # "sendfile" /\ buf' = buf /\ buf = <<>>
        /\ st # "HandShaking"
    BY <1>0, <1>3 DEF DoSendfile, Places
  <2>2. PICK n \in 1..Len(file) :
            /\ file' = Drop(file, n)
            /\ wcb' = IF n < Len(file) THEN "sendfile" ELSE wcb
            /\ st' = st
    BY <1>3 DEF DoSendfile, CloseConn, conn
  <2>3. n < Len(file) \/ file' = <<>>
    BY <2>2, TakeDrop, LenProperties DEF Streams
  <2> QED
    BY <2>1, <2>2, <2>3 DEF Armed
<1>4. CASE Flush
  <2>1. /\ at = "flush" /\ st # "HandShaking" /\ file' = file /\ Armed
    BY <1>0, <1>4 DEF Flush
  <2>2. PICK n \in 1..Len(buf) :
            /\ buf' = Drop(buf, n)
            /\ IF n < Len(buf)
               THEN wcb' = "write" /\ at' = "loop"
               ELSE /\ wcb' = IF file # <<>> THEN "sendfile" ELSE wcb
                    /\ at' = IF file # <<>> THEN "sendfile" ELSE "write_cb"
            /\ st' = st
    BY <1>4 DEF Flush, CloseConn, conn
  <2>3. buf' = <<>> <=> n = Len(buf)
    BY <2>2, TakeDrop DEF Streams
  <2>4. n < Len(buf) \/ n = Len(buf)
    BY <2>2, LenProperties DEF Streams
  <2> QED
    BY <2>1, <2>2, <2>3, <2>4 DEF Armed
<1>5. CASE Idles
  <2>0. UNCHANGED <<buf, file, wcb, mixed>>
    BY <1>5, IdleData
  <2>1. \/ at' # "sendfile" /\ at # "sendfile"
        \/ at' = at
        \/ at' = "sendfile" /\ wcb = "sendfile"
    BY <1>0, <1>5 DEF Idles, Close, FileGone, AfterWriteCb, AfterConnWrite, AfterConnRead,
       OnRead, OnWrite, OnWriteFile, OnClose, OnNothing, Handshake, ReadBytes, Reported,
       Established, PeerSends, PeerCloses, PeerResets, PeerReads, local, vars, CloseConn
  <2>2. st' = "HandShaking" => st = "HandShaking" /\ at' = at
    BY <1>0, <1>5 DEF Idles, Close, FileGone, AfterWriteCb, AfterConnWrite, AfterConnRead,
       OnRead, OnWrite, OnWriteFile, OnClose, OnNothing, Handshake, ReadBytes, Reported,
       Established, PeerSends, PeerCloses, PeerResets, PeerReads, local, vars, CloseConn, conn
  <2> QED
    BY <1>0, <2>0, <2>1, <2>2 DEF Armed
<1> QED
  BY <1>1, <1>2, <1>3, <1>4, <1>5, StepKinds

\* Moving the boundary between the parts of a stream keeps it.
LEMMA Regroup ==
    ASSUME NEW S, NEW a \in Seq(S), NEW b \in Seq(S), NEW c \in Seq(S)
    PROVE  (a \o b) \o c = a \o (b \o c) /\ a \o b \in Seq(S) /\ b \o c \in Seq(S)
           /\ a \o <<>> = a
BY ConcatAssociative, ConcatProperties, ConcatEmptySeq

\* Parts of a stream may be joined in any order.
LEMMA Associative ==
    \A a, b, c \in Seq(Nat) : (a \o b) \o c = a \o (b \o c)
BY ConcatAssociative

\* What the kernel takes leaves one part of the stream for another.
LEMMA TakenOver ==
    ASSUME NEW m \in Nat, NEW w \in Seq(1..m), NEW s \in Seq(1..m), NEW n \in 1..Len(s)
    PROVE  (w \o Take(s, n)) \o Drop(s, n) = w \o s
<1>0. w \in Seq(Nat) /\ s \in Seq(Nat)
  <2>1. 1..m \subseteq Nat
    OBVIOUS
  <2> QED
    BY <2>1, SeqMonotonic
<1>1. Take(s, n) \in Seq(Nat) /\ Drop(s, n) \in Seq(Nat)
  BY <1>0, TakeDrop
<1>2. (w \o Take(s, n)) \o Drop(s, n) = w \o (Take(s, n) \o Drop(s, n))
  BY <1>0, <1>1, Associative
<1>3. Take(s, n) \o Drop(s, n) = s
  BY <1>0, TakeDrop
<1> QED
  BY <1>2, <1>3

\* The stream stays complete and in order.
LEMMA StreamStep ==
    ASSUME Streams, Places, WriteInv, StreamIntact, [Next]_vars
    PROVE  StreamIntact'
<1> SUFFICES ASSUME st' # "Closed", ~mixed', ~dropped'
             PROVE  (wire' \o buf') \o file' = Ids(submitted')
  BY DEF StreamIntact, Ids
<1>0. st # "Closed" /\ ~mixed
  BY EndsStay
<1>1. /\ wire \in Seq(1..submitted) /\ buf \in Seq(1..submitted)
      /\ file \in Seq(1..submitted) /\ submitted \in Nat
  BY ConnectionAssumption DEF Streams
<1>2. ~dropped => (wire \o buf) \o file = Ids(submitted)
  BY <1>0 DEF StreamIntact
<1>3. ASSUME NEW n \in Chunks, Send(n) PROVE (wire' \o buf') \o file' = Ids(submitted')
  <2>1. /\ n \in Nat \ {0} /\ submitted' = submitted + n /\ file' = <<>> /\ file = <<>>
    BY <1>3, SendEffect
  <2>2. ~dropped /\ st # "Closed"
    BY <1>0, <1>3, SendEffect
  <2> DEFINE S == 1..(submitted + n)
             b == Bytes(n)
  <2>3. b \in Seq(S) /\ Len(b) = n /\ Ids(submitted) \o b = Ids(submitted + n)
    BY <1>1, <2>1, BytesFollow
  <2>4. wire \in Seq(S) /\ buf \in Seq(S) /\ <<>> \in Seq(S)
    BY <1>1, <2>1, MoreBytes, EmptySeq
  <2> HIDE DEF S, b
  <2>5. wire \o buf \in Seq(S) /\ (wire \o buf) \o <<>> = wire \o buf
    BY <2>4, Regroup
  <2>6. wire \o buf = Ids(submitted)
    BY <1>2, <2>1, <2>2, <2>5
  <2>7. wire' \o buf' = (wire \o buf) \o b
    <3>1. CASE buf' = buf \o b /\ wire' = wire
      <4>1. (wire \o buf) \o b = wire \o (buf \o b)
        BY <2>3, <2>4, Regroup, SMTT(30)
      <4> QED
        BY <3>1, <4>1
    <3>2. CASE /\ buf = <<>>
               /\ \E k \in 1..n : wire' = wire \o Take(b, k) /\ buf' = Drop(b, k)
      <4>1. PICK k \in 1..n : wire' = wire \o Take(b, k) /\ buf' = Drop(b, k)
        BY <3>2
      <4>3. (wire \o Take(b, k)) \o Drop(b, k) = wire \o b
        <5>1. PICK m \in Nat : m = submitted + n
          BY <1>1, <2>1
        <5>2. wire \in Seq(1..m) /\ b \in Seq(1..m) /\ k \in 1..Len(b)
          BY <2>3, <2>4, <5>1 DEF S
        <5> QED
          BY <5>2, TakenOver
      <4>4. wire \o buf = wire
        BY <2>4, <3>2, Regroup
      <4> QED
        BY <4>1, <4>3, <4>4
    <3> QED
      BY <1>3, <3>1, <3>2, SendEffect DEF b
  <2>8. wire' \o buf' = Ids(submitted + n)
    BY <2>3, <2>6, <2>7
  <2>9. (wire' \o buf') \o <<>> = wire' \o buf'
    BY <2>3, <2>4, <2>5, <2>7, Regroup
  <2> QED
    BY <2>1, <2>8, <2>9
<1>4. ASSUME NEW n \in Chunks, Sendfile(n) PROVE (wire' \o buf') \o file' = Ids(submitted')
  <2>1. /\ n \in Nat \ {0} /\ submitted' = submitted + n /\ file' = Bytes(n)
        /\ file = <<>> /\ UNCHANGED <<wire, buf>> /\ ~dropped
    BY <1>4, ConnectionAssumption DEF Sendfile, out
  <2>2. Ids(submitted) \o Bytes(n) = Ids(submitted + n)
    BY <1>1, <2>1, BytesFollow
  <2>3. wire \o buf \in Seq(1..submitted)
    BY <1>1, ConcatProperties
  <2>4. (wire \o buf) \o file = wire \o buf
    BY <2>1, <2>3, ConcatEmptySeq
  <2> QED
    BY <1>2, <2>1, <2>2, <2>4
<1>5. CASE DoSendfile
  <2>1. UNCHANGED <<submitted, buf, dropped>> /\ buf = <<>>
    BY <1>0, <1>5 DEF DoSendfile, user, WriteInv
  <2>2. PICK n \in 1..Len(file) : wire' = wire \o Take(file, n) /\ file' = Drop(file, n)
    BY <1>5 DEF DoSendfile, Accept, CloseConn
  <2>3. /\ Take(file, n) \in Seq(1..submitted) /\ Drop(file, n) \in Seq(1..submitted)
    BY <1>1, TakeDrop
  <2>4. wire \o <<>> = wire /\ wire' \o <<>> = wire'
    BY <1>1, <2>2, <2>3, Regroup
  <2>5. wire' \o file' = wire \o file
    BY <1>1, <2>2, TakenOver
  <2> QED
    BY <1>2, <2>1, <2>4, <2>5
<1>6. CASE Flush
  <2>1. UNCHANGED <<submitted, file, dropped>>
    BY <1>6 DEF Flush, user
  <2>2. PICK n \in 1..Len(buf) : wire' = wire \o Take(buf, n) /\ buf' = Drop(buf, n)
    BY <1>6 DEF Flush, Accept, CloseConn
  <2>4. wire' \o buf' = wire \o buf
    BY <1>1, <2>2, TakenOver
  <2> QED
    BY <1>2, <2>1, <2>4
<1>7. CASE Idles
  BY <1>2, <1>7, IdleData
<1> QED
  BY <1>3, <1>4, <1>5, <1>6, <1>7, StepKinds
----------------------------------------------------------------------------
(***************************************************************************)
(* The theorems.                                                           *)
(***************************************************************************)

\* A new connection.
LEMMA InitConn == Init => ConnInv
<1> SUFFICES ASSUME Init PROVE ConnInv
  OBVIOUS
<1>1. Streams
  BY ConnectionAssumption, EmptySeq DEF Init, Streams
<1>2. Places /\ Counters
  BY ConnectionAssumption DEF Init, Places, Counters
<1>3. Flags
  BY ConnectionAssumption, Zenon DEF Init, Flags
<1>4. ToldOnce
  BY DEF Init, ToldOnce
<1>5. WriteInv
  BY DEF Init, WriteInv, Armed
<1>6. StreamIntact
  <2>1. Ids(0) = <<>>
    BY DEF Ids
  <2> QED
    BY <2>1 DEF Init, StreamIntact
<1> QED
  BY <1>1, <1>2, <1>3, <1>4, <1>5, <1>6 DEF ConnInv

\* The invariant is inductive.
LEMMA ConnInductive == ConnInv /\ [Next]_vars => ConnInv'
BY PlacesStep, NoticeStep, CountersStep, FlagsStep, StreamsStep, WriteStep, StreamStep
DEF ConnInv

\* Every behaviour of the connection keeps the invariant.
THEOREM ConnInvariant == Spec => []ConnInv
BY InitConn, ConnInductive, PTL DEF Spec

\* Every variable keeps its type, and the buffers hold submitted bytes only.
THEOREM TypeCorrect == Spec => []TypeOK
<1>1. ASSUME ConnInv PROVE TypeOK
  <2>1. Streams /\ Places /\ Counters /\ Flags
    BY <1>1 DEF ConnInv
  <2>2. {reg, nospace, rx, fin, rst, ready, dropped, mixed, missed} \subseteq BOOLEAN
    BY <2>1, Zenon DEF Flags
  <2> QED
    BY <2>1, <2>2 DEF Streams, Places, Counters, TypeOK
<1> QED
  BY <1>1, ConnInvariant, PTL

\* The user is told of the end of a connection exactly once.
THEOREM NoticeOnce == Spec => []ToldOnce
<1>1. ConnInv => ToldOnce
  BY DEF ConnInv
<1> QED
  BY <1>1, ConnInvariant, PTL

\* Back in its loop with unsent data, the connection waits with the callback that sends it.
THEOREM CallbackCorrect == Spec => []WriteArmed
<1>1. ConnInv => WriteArmed
  BY DEF ConnInv, WriteInv, WriteArmed, Armed
<1> QED
  BY <1>1, ConnInvariant, PTL

\* No byte of the stream is lost, repeated or overtaken, for data and files of any size.
THEOREM StreamCorrect == Spec => []StreamIntact
<1>1. ConnInv => StreamIntact
  BY DEF ConnInv
<1> QED
  BY <1>1, ConnInvariant, PTL
----------------------------------------------------------------------------
(***************************************************************************)
(* The buffers of the connection.  buf is a sequence of bytes; BaseBuffer  *)
(* keeps them in a vector between two indices.  A buffer of any initial    *)
(* size, whatever is written to it and read from it, keeps its indices in  *)
(* order and its content is a queue of bytes.                              *)
(***************************************************************************)
CONSTANTS Byte, NUL, Size
VARIABLES buffer, readIdx, writeIdx

Buf == INSTANCE Buffer

\* A function on 1..n is a sequence of length n.
LEMMA FunctionIsSequence ==
    ASSUME NEW n \in Nat, NEW f \in [1..n -> Byte]
    PROVE  f \in Seq(Byte) /\ Len(f) = n
  OBVIOUS

\* What enable_bytes leaves: room for n bytes behind a content that has not changed.
LEMMA EnableBytesMakesRoom ==
    ASSUME Buf!IndicesOK, NUL \in Byte, NEW n \in Nat
    PROVE  LET e == Buf!EnableBytes(n)
           IN  /\ e.b \in Seq(Byte)
               /\ e.r \in Nat /\ e.w \in Nat
               /\ e.w - e.r = writeIdx - readIdx
               /\ e.w + n <= Len(e.b)
               /\ \A i \in 1..(writeIdx - readIdx) : e.b[e.r + i] = buffer[readIdx + i]
<1> DEFINE w == writeIdx - readIdx
           grown == Buf!Resized(Buf!Moved, Len(Buf!Moved) + n - Buf!Writeable(Buf!Moved, w))
<1>1. /\ buffer \in Seq(Byte) /\ Len(buffer) \in Nat
      /\ \A i \in 1..Len(buffer) : buffer[i] \in Byte
      /\ w \in Nat /\ w <= Len(buffer)
      /\ readIdx \in Nat /\ writeIdx \in Nat
      /\ readIdx <= writeIdx /\ writeIdx <= Len(buffer)
  BY DEF Buf!IndicesOK
<1>2. /\ Buf!Moved \in Seq(Byte) /\ Len(Buf!Moved) = Len(buffer)
      /\ \A i \in 1..w : Buf!Moved[i] = buffer[readIdx + i]
  BY <1>1 DEF Buf!Moved, Buf!BytesIn
<1>3. CASE Buf!Writeable(buffer, writeIdx) >= n
  <2>1. Buf!EnableBytes(n) = [b |-> buffer, r |-> readIdx, w |-> writeIdx]
    BY <1>3 DEF Buf!EnableBytes
  <2> QED
    BY <1>1, <1>3, <2>1 DEF Buf!Writeable
<1>4. CASE ~(Buf!Writeable(buffer, writeIdx) >= n) /\ Buf!Writeable(Buf!Moved, w) >= n
  <2>1. Buf!EnableBytes(n) = [b |-> Buf!Moved, r |-> 0, w |-> w]
    BY <1>4 DEF Buf!EnableBytes, Buf!BytesIn
  <2>2. w + n <= Len(Buf!Moved)
    BY <1>1, <1>2, <1>4 DEF Buf!Writeable
  <2> QED
    BY <1>1, <1>2, <2>1, <2>2
<1>5. CASE ~(Buf!Writeable(buffer, writeIdx) >= n) /\ ~(Buf!Writeable(Buf!Moved, w) >= n)
  <2>1. Buf!EnableBytes(n) = [b |-> grown, r |-> 0, w |-> w]
    BY <1>5 DEF Buf!EnableBytes, Buf!BytesIn
  <2>2. Len(Buf!Moved) + n - Buf!Writeable(Buf!Moved, w) = w + n
    BY <1>1, <1>2 DEF Buf!Writeable
  <2>3. grown = [i \in 1..(w + n) |-> IF i <= Len(Buf!Moved) THEN Buf!Moved[i] ELSE NUL]
    BY <2>2 DEF Buf!Resized
  <2>4. grown \in Seq(Byte) /\ Len(grown) = w + n
    <3>1. w + n \in Nat /\ \A i \in 1..Len(Buf!Moved) : Buf!Moved[i] \in Byte
      BY <1>1, <1>2
    <3>2. grown \in [1..(w + n) -> Byte]
      BY <1>2, <2>3, <3>1
    <3> HIDE DEF grown
    <3> QED
      BY <3>1, <3>2, FunctionIsSequence
  <2>5. \A i \in 1..w : grown[i] = buffer[readIdx + i]
    BY <1>1, <1>2, <2>3
  <2> QED
    BY <1>1, <2>1, <2>4, <2>5
<1> QED
  BY <1>3, <1>4, <1>5

\* A write keeps the content and puts its bytes behind it.
LEMMA WriteAppends ==
    ASSUME Buf!IndicesOK, NUL \in Byte, NEW n \in Nat, NEW s \in Seq(Byte), Buf!Write(s, n)
    PROVE  /\ Buf!IndicesOK'
           /\ writeIdx' - readIdx' = writeIdx - readIdx + Len(s)
           /\ writeIdx - readIdx <= writeIdx' - readIdx'
           /\ \A i \in 1..(writeIdx - readIdx) : buffer'[readIdx' + i] = buffer[readIdx + i]
           /\ \A i \in 1..Len(s) : buffer'[readIdx' + (writeIdx - readIdx) + i] = s[i]
<1> DEFINE e == Buf!EnableBytes(n)
<1>1. /\ e.b \in Seq(Byte) /\ e.r \in Nat /\ e.w \in Nat
      /\ e.w - e.r = writeIdx - readIdx
      /\ e.w + n <= Len(e.b)
      /\ \A i \in 1..(writeIdx - readIdx) : e.b[e.r + i] = buffer[readIdx + i]
  BY EnableBytesMakesRoom
<1> HIDE DEF e
<1>2. /\ Len(s) <= n /\ Len(s) \in Nat
      /\ buffer' = [i \in 1..Len(e.b) |->
                      IF i \in (e.w + 1)..(e.w + Len(s)) THEN s[i - e.w] ELSE e.b[i]]
      /\ readIdx' = e.r
      /\ writeIdx' = e.w + Len(s)
  BY DEF Buf!Write, e
<1>3. writeIdx - readIdx \in Nat
  BY DEF Buf!IndicesOK
<1>4. /\ \A i \in 1..Len(e.b) : e.b[i] \in Byte
      /\ Len(e.b) \in Nat
      /\ \A i \in 1..Len(s) : s[i] \in Byte
  BY <1>1
<1>5. buffer' \in Seq(Byte) /\ Len(buffer') = Len(e.b)
  <2>1. \A i \in 1..Len(e.b) : buffer'[i] \in Byte
    BY <1>1, <1>2, <1>4
  <2>2. buffer' \in [1..Len(e.b) -> Byte]
    BY <1>2, <2>1
  <2> QED
    BY <1>4, <2>2, FunctionIsSequence
<1>6. Buf!IndicesOK'
  <2>1. readIdx' \in Nat /\ writeIdx' \in Nat /\ readIdx' <= writeIdx'
    BY <1>1, <1>2, <1>3
  <2>2. writeIdx' <= Len(e.b)
    BY <1>1, <1>2, <1>4
  <2> QED
    BY <1>5, <2>1, <2>2 DEF Buf!IndicesOK
<1>7. \A i \in 1..(writeIdx - readIdx) : buffer'[readIdx' + i] = buffer[readIdx + i]
  <2> SUFFICES ASSUME NEW i \in 1..(writeIdx - readIdx)
               PROVE  buffer'[readIdx' + i] = buffer[readIdx + i]
    OBVIOUS
  <2>0. e.w <= Len(e.b) /\ e.r \in Nat /\ e.w \in Nat /\ e.w - e.r = writeIdx - readIdx
    BY <1>1, <1>4
  <2>1. e.r + i \in 1..Len(e.b) /\ e.r + i <= e.w
    BY <1>3, <1>4, <2>0
  <2> QED
    BY <1>1, <1>2, <2>1
<1>8. \A i \in 1..Len(s) : buffer'[readIdx' + (writeIdx - readIdx) + i] = s[i]
  <2> SUFFICES ASSUME NEW i \in 1..Len(s)
               PROVE  buffer'[readIdx' + (writeIdx - readIdx) + i] = s[i]
    OBVIOUS
  <2>1. readIdx' + (writeIdx - readIdx) + i = e.w + i
    BY <1>1, <1>2, <1>3
  <2>2. e.w + i \in 1..Len(e.b) /\ (e.w + i) - e.w = i
    BY <1>1, <1>2, <1>4
  <2> QED
    BY <1>1, <1>2, <2>1, <2>2
<1>9. /\ writeIdx' - readIdx' = writeIdx - readIdx + Len(s)
      /\ writeIdx - readIdx <= writeIdx' - readIdx'
  <2>1. e.r \in Nat /\ e.w \in Nat /\ e.w - e.r = writeIdx - readIdx
    BY <1>1, Zenon
  <2>2. readIdx' = e.r /\ writeIdx' = e.w + Len(s) /\ Len(s) \in Nat
    BY <1>2, Zenon
  <2> QED
    BY <1>3, <2>1, <2>2
<1> QED
  BY <1>6, <1>7, <1>8, <1>9

\* A read takes bytes from the front of the content, or all of it.
LEMMA ReadTakes ==
    ASSUME Buf!IndicesOK,
           Buf!Clear \/ \E n \in Nat : Buf!RetrieveReadBytes(n) \/ Buf!ReadUtil(n)
    PROVE  /\ Buf!IndicesOK'
           /\ buffer' = buffer
           /\ \/ writeIdx' - readIdx' = 0
              \/ writeIdx' = writeIdx /\ readIdx <= readIdx'
  BY DEF Buf!IndicesOK, Buf!Clear, Buf!RetrieveReadBytes, Buf!ReadUtil, Buf!BytesIn

\* The bytes between two indices.
Slice(b, r, w) == [i \in 1..(w - r) |-> b[r + i]]

\* They are a sequence, as long as the indices are apart.
LEMMA SliceIsSequence ==
    ASSUME NEW b \in Seq(Byte), NEW r \in Nat, NEW w \in Nat, r <= w, w <= Len(b)
    PROVE  /\ w - r \in Nat
           /\ Slice(b, r, w) \in Seq(Byte)
           /\ Len(Slice(b, r, w)) = w - r
           /\ \A i \in 1..(w - r) : Slice(b, r, w)[i] = b[r + i]
<1>1. w - r \in Nat /\ \A i \in 1..(w - r) : b[r + i] \in Byte
  OBVIOUS
<1>2. Slice(b, r, w) \in [1..(w - r) -> Byte]
  BY <1>1 DEF Slice
<1> QED
  BY <1>1, <1>2, FunctionIsSequence DEF Slice

\* Equal bytes at equal distances from the first index: the longer slice extends the other.
LEMMA SliceExtends ==
    ASSUME NEW b \in Seq(Byte), NEW r \in Nat, NEW w \in Nat, r <= w, w <= Len(b),
           NEW c \in Seq(Byte), NEW q \in Nat, NEW v \in Nat, q <= v, v <= Len(c),
           w - r <= v - q,
           \A i \in 1..(w - r) : c[q + i] = b[r + i]
    PROVE  Buf!Extends(Slice(b, r, w), Slice(c, q, v))
<1> DEFINE s == Slice(b, r, w)
           t == Slice(c, q, v)
<1>1. /\ Len(s) = w - r /\ Len(t) = v - q /\ w - r \in Nat /\ v - q \in Nat
      /\ \A i \in 1..(w - r) : s[i] = b[r + i]
      /\ \A i \in 1..(v - q) : t[i] = c[q + i]
  BY SliceIsSequence
<1> HIDE DEF s, t
<1>2. ASSUME NEW i \in 1..(w - r) PROVE t[i] = s[i]
  <2>1. i \in 1..(v - q)
    BY <1>1
  <2> QED
    BY <1>1, <2>1
<1>3. Buf!Extends(s, t)
  BY <1>1, <1>2 DEF Buf!Extends
<1> QED
  BY <1>3 DEF s, t

\* A slice that starts later, or an empty one, is the rest of a slice.
LEMMA SliceRest ==
    ASSUME NEW b \in Seq(Byte), NEW r \in Nat, NEW w \in Nat, r <= w, w <= Len(b),
           NEW q \in Nat, NEW v \in Nat, q <= v, v <= Len(b),
           v - q = 0 \/ (v = w /\ r <= q)
    PROVE  Buf!Rest(Slice(b, r, w), Slice(b, q, v))
<1> DEFINE s == Slice(b, r, w)
           t == Slice(b, q, v)
<1>1. /\ Len(s) = w - r /\ Len(t) = v - q /\ w - r \in Nat /\ v - q \in Nat
      /\ \A i \in 1..(w - r) : s[i] = b[r + i]
      /\ \A i \in 1..(v - q) : t[i] = b[q + i]
  BY SliceIsSequence
<1> HIDE DEF s, t
<1>2. CASE v - q = 0
  <2>1. Len(t) <= Len(s) /\ 1..Len(t) = {}
    BY <1>1, <1>2
  <2>2. Buf!Rest(s, t)
    BY <2>1 DEF Buf!Rest
  <2> QED
    BY <2>2 DEF s, t
<1>3. CASE v = w /\ r <= q
  <2>1. v - q <= w - r
    BY <1>3
  <2>2. ASSUME NEW i \in 1..(v - q) PROVE t[i] = s[(w - r) - (v - q) + i]
    <3>1. (w - r) - (v - q) + i = (q - r) + i /\ (q - r) + i \in 1..(w - r)
      BY <1>3
    <3>2. r + ((q - r) + i) = q + i
      OBVIOUS
    <3> QED
      BY <1>1, <3>1, <3>2
  <2>3. Buf!Rest(s, t)
    BY <1>1, <2>1, <2>2 DEF Buf!Rest
  <2> QED
    BY <2>3 DEF s, t
<1> QED
  BY <1>2, <1>3

\* The indices of BaseBuffer never cross and never leave the vector, so the log_fatal of
\* size() is unreachable and recv and append write inside it.
THEOREM IndicesAreSafe ==
    ASSUME Size \in Nat, NUL \in Byte
    PROVE  Buf!Spec => []Buf!IndicesOK
<1>1. Buf!Init => Buf!IndicesOK
  BY DEF Buf!Init, Buf!IndicesOK
<1>2. Buf!IndicesOK /\ [Buf!Next]_(Buf!vars) => Buf!IndicesOK'
  <2> SUFFICES ASSUME Buf!IndicesOK, [Buf!Next]_(Buf!vars) PROVE Buf!IndicesOK'
    OBVIOUS
  <2>1. CASE \E n \in Nat : \E s \in Seq(Byte) : Buf!Write(s, n)
    BY <2>1, WriteAppends
  <2>2. CASE Buf!Clear \/ \E n \in Nat : Buf!RetrieveReadBytes(n) \/ Buf!ReadUtil(n)
    BY <2>2, ReadTakes
  <2>3. CASE UNCHANGED Buf!vars
    BY <2>3 DEF Buf!vars, Buf!IndicesOK
  <2> QED
    BY <2>1, <2>2, <2>3 DEF Buf!Next
<1> QED
  BY <1>1, <1>2, PTL DEF Buf!Spec

\* append, recv, retrieve_read_bytes and the read functions treat the content as a queue:
\* moving it to the front of the vector and growing the vector loses no byte and changes none.
THEOREM ContentIsFifo ==
    ASSUME Size \in Nat, NUL \in Byte
    PROVE  Buf!Spec => [][Buf!Fifo]_(Buf!vars)
<1>1. Buf!IndicesOK /\ Buf!IndicesOK' /\ [Buf!Next]_(Buf!vars) => [Buf!Fifo]_(Buf!vars)
  <2> SUFFICES ASSUME Buf!IndicesOK, Buf!IndicesOK', Buf!Next PROVE Buf!Fifo
    BY DEF Buf!vars
  <2>1. /\ buffer \in Seq(Byte) /\ readIdx \in Nat /\ writeIdx \in Nat
        /\ readIdx <= writeIdx /\ writeIdx <= Len(buffer)
        /\ Buf!Content = Slice(buffer, readIdx, writeIdx)
    BY DEF Buf!IndicesOK, Buf!Content, Slice, Buf!BytesIn
  <2>2. /\ buffer' \in Seq(Byte) /\ readIdx' \in Nat /\ writeIdx' \in Nat
        /\ readIdx' <= writeIdx' /\ writeIdx' <= Len(buffer')
    BY DEF Buf!IndicesOK
  <2>3. Buf!Content' = Slice(buffer', readIdx', writeIdx')
    BY DEF Buf!Content, Slice, Buf!BytesIn
  <2>4. CASE \E n \in Nat : \E s \in Seq(Byte) : Buf!Write(s, n)
    <3>1. PICK n \in Nat, s \in Seq(Byte) : Buf!Write(s, n)
      BY <2>4
    <3>2. /\ writeIdx - readIdx <= writeIdx' - readIdx'
          /\ \A i \in 1..(writeIdx - readIdx) : buffer'[readIdx' + i] = buffer[readIdx + i]
      BY <3>1, WriteAppends
    <3>3. Buf!Extends(Buf!Content, Buf!Content')
      BY <2>1, <2>2, <2>3, <3>2, SliceExtends
    <3> QED
      BY <3>3 DEF Buf!Fifo
  <2>5. CASE Buf!Clear \/ \E n \in Nat : Buf!RetrieveReadBytes(n) \/ Buf!ReadUtil(n)
    <3>1. /\ buffer' = buffer
          /\ \/ writeIdx' - readIdx' = 0
             \/ writeIdx' = writeIdx /\ readIdx <= readIdx'
      BY <2>5, ReadTakes
    <3>2. Buf!Rest(Buf!Content, Buf!Content')
      BY <2>1, <2>2, <2>3, <3>1, SliceRest
    <3> QED
      BY <3>2 DEF Buf!Fifo
  <2> QED
    BY <2>4, <2>5 DEF Buf!Next
<1> QED
  BY <1>1, IndicesAreSafe, PTL DEF Buf!Spec
=============================================================================
