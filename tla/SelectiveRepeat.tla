--------------------------- MODULE SelectiveRepeat ---------------------------
(***************************************************************************)
(* One direction of the sliding-window protocol of src/protocol: the       *)
(* modules of a cortono::Connection in the order client.cc and server.cc   *)
(* give them (Lost, Recv, Send, Resend, Lost, Modify), at the sender and at *)
(* the receiver, over a network that loses datagrams and keeps their order *)
(* (both programs use the loopback interface).                             *)
(*                                                                         *)
(* A data packet carries its position seq, the number of its first byte    *)
(* and its length, an ack packet the left bound of the receive window.     *)
(* Bytes are numbered in the order the user submits them.  The other       *)
(* direction is the same; of it only the read callback that its acks cause *)
(* at the receiver is kept.                                                *)
(***************************************************************************)
EXTENDS SlideWindow, SequencesExt

CONSTANTS
    Sizes,      \* sizes of the data handed to handle_packet
    Total,      \* bound: bytes submitted in all
    Channel     \* bound: datagrams under way in each direction

\* A packet of WindowSize bytes does not fit a window that wraps around.
ASSUME ProtocolAssumption ==
    /\ Sizes \subseteq 1..(WindowSize - 1)
    /\ Total \in Nat
    /\ Channel \in Nat

VARIABLES
    sw,         \* send_window_ of SendModule: its bounds
    seq,        \* seq_ of SendModule
    timers,     \* timers_ of ResendModule: the packets to send again
    sent,       \* bytes that handle_packet has accepted
    rw,         \* recv_window_ of RecvModule
    delivered,  \* what the read callbacks have got from recv_all
    data, acks  \* datagrams under way

sender == <<sw, seq, timers, sent>>
receiver == <<rw, delivered>>
vars == <<sw, seq, timers, sent, rw, delivered, data, acks>>

Init ==
    /\ sw = [left |-> 0, right |-> WindowSize]
    /\ seq = 0 /\ timers = <<>> /\ sent = 0
    /\ rw = NewWindow /\ delivered = <<>>
    /\ data = <<>> /\ acks = <<>>

\* A datagram that does not fit is lost.
Put(ch, d) == IF Len(ch) < Channel THEN Append(ch, d) ELSE ch

----------------------------------------------------------------------------
\* handle_packet on a packet of n bytes: SendModule::check refuses it when the
\* window cannot hold it; else it gets its position, ResendModule starts a
\* timer with it, and it is sent.
SendData(n) ==
    /\ sent + n <= Total
    /\ InValidRange(sw.left, sw.right, seq, Wrap(seq + n))
    /\ LET packet == [seq |-> seq, first |-> sent + 1, len |-> n]
       IN  /\ timers' = Append(timers, packet)
           /\ data' = Put(data, packet)
    /\ seq' = IF BufferSize - seq > n THEN seq + n ELSE n - (BufferSize - seq)
    /\ sent' = sent + n
    /\ UNCHANGED <<sw, receiver, acks>>

\* A timer of ResendModule: it is periodic and sends the packet as it was.
Resend(i) ==
    /\ i \in DOMAIN timers
    /\ Len(data) < Channel
    /\ data' = Append(data, timers[i])
    /\ UNCHANGED <<sender, receiver, acks>>

\* cancel_timer takes timers off the front until it meets one that starts at the ack.
MutCancelOneMore(ack) ==
    LET rest == SelectInSeq(timers, LAMBDA p : p.seq = ack)
    IN  IF rest = 0 THEN <<>> ELSE SubSeq(timers, rest + 1, Len(timers))

CancelTimer(ack) ==
    LET rest == SelectInSeq(timers, LAMBDA p : p.seq = ack)
    IN  IF rest = 0 THEN <<>> ELSE SubSeq(timers, rest, Len(timers))

\* handle_packet on an ack: SendModule moves the window if it can, ResendModule
\* cancels timers in any case.
MutAckMovesOnly ==
    /\ acks # <<>>
    /\ sw' = MoveIfValid(sw, Head(acks))
    /\ acks' = Tail(acks)
    /\ UNCHANGED <<seq, timers, sent, receiver, data>>

RecvAck ==
    /\ acks # <<>>
    /\ sw' = MoveIfValid(sw, Head(acks))
    /\ timers' = CancelTimer(Head(acks))
    /\ acks' = Tail(acks)
    /\ UNCHANGED <<seq, sent, receiver, data>>
----------------------------------------------------------------------------
\* RecvModule on a data packet.
Store(p) == SetFlagIfValid(rw, p.seq, p.len, p.first)

\* The packet gets through both LostPacketModules: it is stored, an ack is sent,
\* valid or not, handle_read returns true and the read callback takes all there is.
MutAcksValidOnly ==
    /\ data # <<>>
    /\ LET w == Store(Head(data))
       IN  /\ acks' = IF w = rw THEN acks ELSE Put(acks, w.left)
           /\ delivered' = delivered \o Unread(w)
           /\ rw' = RecvAll(w)
    /\ data' = Tail(data)
    /\ UNCHANGED sender

MutAckNext ==
    /\ data # <<>>
    /\ LET w == Store(Head(data))
       IN  /\ acks' = Put(acks, Wrap(Head(data).seq + Head(data).len))
           /\ delivered' = delivered \o Unread(w)
           /\ rw' = RecvAll(w)
    /\ data' = Tail(data)
    /\ UNCHANGED sender

RecvData ==
    /\ data # <<>>
    /\ LET w == Store(Head(data))
       IN  /\ acks' = Put(acks, w.left)
           /\ delivered' = delivered \o Unread(w)
           /\ rw' = RecvAll(w)
    /\ data' = Tail(data)
    /\ UNCHANGED sender

\* The second LostPacketModule marks the packet as an error after RecvModule has
\* stored it: no ack, handle_read returns false, no read callback.
RecvNoAck ==
    /\ data # <<>>
    /\ rw' = Store(Head(data))
    /\ data' = Tail(data)
    /\ UNCHANGED <<sender, delivered, acks>>

\* An ack of the other direction: UdpService::handle_read calls the read callback.
ReadCallback ==
    /\ delivered' = delivered \o Unread(rw)
    /\ rw' = RecvAll(rw)
    /\ UNCHANGED <<sender, data, acks>>
----------------------------------------------------------------------------
\* The network, and the first LostPacketModule, drop a datagram.
LoseData ==
    /\ data # <<>>
    /\ data' = Tail(data)
    /\ UNCHANGED <<sender, receiver, acks>>

LoseAck ==
    /\ acks # <<>>
    /\ acks' = Tail(acks)
    /\ UNCHANGED <<sender, receiver, data>>

Next ==
    \/ \E n \in Sizes : SendData(n)
    \/ \E i \in DOMAIN timers : Resend(i)
    \/ RecvAck
    \/ LoseAck
    \/ RecvData
    \/ RecvNoAck
    \/ LoseData
    \/ ReadCallback

Spec == Init /\ [][Next]_vars

\* A running timer fires again and again, and of a datagram that is sent again and
\* again some copy gets through (LostPacketModule drops 3 in 5): assumed of the
\* oldest packet with a timer and of the newest ack only.  The loop reads its socket,
\* so no datagram stays under way for ever.
DataMoves == RecvData \/ RecvNoAck \/ LoseData
AckMoves == RecvAck \/ LoseAck
RecvOldest == timers # <<>> /\ RecvData /\ Head(data) = Head(timers)
RecvNewestAck == RecvAck /\ Head(acks) = rw.left

FairSpec ==
    /\ Spec
    /\ WF_vars(DataMoves) /\ WF_vars(AckMoves)
    /\ SF_vars(Resend(1)) /\ SF_vars(RecvOldest) /\ SF_vars(RecvNewestAck)
----------------------------------------------------------------------------
Packets == [seq : Position, first : 1..Total, len : Sizes]

\* Every variable has its type; the unread bytes never exceed a window.
TypeOK ==
    /\ sw \in [left : Position, right : Position]
    /\ seq \in Position
    /\ timers \in Seq(Packets)
    /\ sent \in 0..Total
    /\ rw \in [left : Position, right : Position, read : Position,
               readable : 0..WindowSize, bits : SUBSET Position,
               buffer : [Position -> 0..Total]]
    /\ delivered \in Seq(1..Total)
    /\ data \in Seq(Packets) /\ Len(data) <= Channel
    /\ acks \in Seq(Position) /\ Len(acks) <= Channel

\* Bytes received without a gap, and bytes of them the sender knows of.
Received == Len(delivered) + rw.readable
Acked == sent - Ahead(sw.left, seq)

\* The two windows stay nested although each side only sees positions modulo
\* BufferSize and acks get lost: the sender's window starts at or before the
\* receiver's, whose left bound is the position of the next byte it needs, and
\* nothing was sent beyond the sender's window (in_valid_range, move_if_valid).
\* Every ack under way is one that the comment in ResendModule::cancel_timer assumes,
\* "假定ack在发送窗口的有效范围内" (the ack is in the valid range of the send window).
WindowsNested ==
    /\ Acked <= Received
    /\ Received <= sent
    /\ sent <= Acked + WindowSize
    /\ rw.left = Received % BufferSize
    /\ seq = sent % BufferSize
    /\ sw.right = Wrap(sw.left + WindowSize)
    /\ rw.right = Wrap(rw.left + WindowSize)
    /\ \A i \in DOMAIN acks : Ahead(sw.left, acks[i]) <= Received - Acked

\* A byte the receiver does not have yet is in a packet whose resend timer runs,
\* so losing every copy sent so far does not lose the byte
\* (ResendModule::cancel_timer, which ignores whether move_if_valid took the ack).
Retransmittable ==
    \A b \in (Received + 1)..sent :
        \E i \in DOMAIN timers :
            b \in timers[i].first..(timers[i].first + timers[i].len - 1)

\* A received byte that waits for an earlier one is kept under its own number: bits
\* and buffer_ are not overwritten by a packet from another lap of the buffer.
OutOfOrderKept ==
    \A x \in rw.bits : rw.buffer[x] = Received + 1 + Ahead(rw.left, x)

Stream == INSTANCE ByteStream WITH accepted <- sent

\* The peers' users see a byte stream: recv_all returns the bytes given to
\* handle_packet in order, none twice and none missing.
ImplementsByteStream == Stream!Spec

\* Once the user submits no more (Total), every byte it submitted reaches the other
\* user and the resend timers stop, whatever was lost on the way (client.cc waits
\* for send_bytes == recv_bytes).
Settles == []<>(Len(delivered) = sent /\ timers = <<>>)
============================================================================
