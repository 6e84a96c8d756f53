---------------------------- MODULE FileTransfer ----------------------------
(***************************************************************************)
(* The two programs of src/protocol: client.cc sends a file in blocks, on  *)
(* a timer, and writes what comes back to a copy; server.cc sends back what *)
(* it gets, one packet for each call of its read callback.                 *)
(*                                                                         *)
(* Each direction is what module SelectiveRepeat makes of it: bytes arrive *)
(* in order and once, a packet may be stored without a read callback, and  *)
(* the window, which is the bytes accepted but not acknowledged, refuses a *)
(* packet that it cannot hold.  A byte is its number in the file.          *)
(***************************************************************************)
EXTENDS Integers, Sequences, FiniteSetsExt

CONSTANTS
    FileSizes,      \* sizes of send_file.pdf
    MaxDataSize,    \* the largest block
    WindowSize      \* of the sliding window

ASSUME TransferAssumption ==
    /\ FileSizes \subseteq Nat
    /\ MaxDataSize \in Nat \ {0}
    /\ WindowSize \in Nat
    /\ MaxDataSize < WindowSize

VARIABLES
    size,       \* size of the file
    pos,        \* bytes that the client has read from it
    eof,        \* fin.eof()
    held,       \* send_buffer of the client
    quit,       \* the client's loop was told to quit
    fwd, back,  \* the directions to the server and to the client
    echo        \* send_buffer of the server

vars == <<size, pos, eof, held, quit, fwd, back, echo>>

\* data: what handle_packet accepted; and how much of it is stored by the receiver, was
\* returned by recv_all, is known to the sender to have arrived.
NewStream == [data |-> <<>>, stored |-> 0, read |-> 0, acked |-> 0]

Init ==
    /\ size \in FileSizes
    /\ pos = 0 /\ eof = FALSE
    /\ held = <<>> /\ echo = <<>>
    /\ quit = FALSE
    /\ fwd = NewStream /\ back = NewStream

Bytes(m, n) == [i \in 1..(n - m) |-> m + i]
Rest(s, n) == SubSeq(s, n + 1, Len(s))

\* At most MaxDataSize bytes from the front of a send_buffer.
Front(buf) == SubSeq(buf, 1, Min({MaxDataSize, Len(buf)}))

\* SendModule::check.  A block that fills the window is refused if the window wraps.
Used(st, block) == Len(st.data) - st.acked + Len(block)
MayAccept(st, block) == Used(st, block) <= WindowSize
MayRefuse(st, block) == Used(st, block) >= WindowSize \/ block = <<>>

Send(st, block) == [st EXCEPT !.data = @ \o block]

\* recv_all, after the datagram at hand has been stored.
ReadAll(st) == [st EXCEPT !.read = st.stored]
Unread(st) == SubSeq(st.data, st.read + 1, st.stored)

\* A data packet arrives, a first one or a copy; n bytes have arrived without a gap then.
Arrives(st, n) == st.data # <<>> /\ n \in st.stored..Len(st.data)
Store(st, n) == [st EXCEPT !.stored = n]

\* An ack arrives.  Acks are sent with a read callback, so they never cover unread bytes.
Acks(st, n) == n \in (st.acked + 1)..st.read
Ack(st, n) == [st EXCEPT !.acked = n]
----------------------------------------------------------------------------
(***************************************************************************)
(* The client.                                                             *)
(***************************************************************************)

\* The timer callback, once the end of the file has been met.
TickAtEnd ==
    /\ ~quit /\ eof
    /\ quit' = (Len(fwd.data) = back.read)
    /\ UNCHANGED <<size, pos, eof, held, fwd, back, echo>>

MutAppendsAgain ==
    /\ ~quit /\ ~eof
    /\ held # <<>>
    /\ \/ /\ MayAccept(fwd, Front(held))
          /\ fwd' = Send(fwd, Front(held))
          /\ held' = Rest(held, Len(Front(held)))
       \/ MayRefuse(fwd, Front(held)) /\ held' = held \o Front(held) /\ UNCHANGED fwd
    /\ UNCHANGED <<size, pos, eof, quit, back, echo>>

\* The timer callback with a block that the window refused before.
TickHeld ==
    /\ ~quit /\ ~eof
    /\ held # <<>>
    /\ \/ /\ MayAccept(fwd, Front(held))
          /\ fwd' = Send(fwd, Front(held))
          /\ held' = Rest(held, Len(Front(held)))
       \/ MayRefuse(fwd, Front(held)) /\ UNCHANGED <<fwd, held>>
    /\ UNCHANGED <<size, pos, eof, quit, back, echo>>

\* The timer callback with the next block of the file; reading less than a whole block sets
\* eof().  An empty block, at the end of a file of whole blocks, adds nothing to the stream.
TickFile ==
    /\ ~quit /\ ~eof
    /\ held = <<>>
    /\ LET end == Min({pos + MaxDataSize, size})
           block == Bytes(pos, end)
       IN  /\ pos' = end
           /\ eof' = (end < pos + MaxDataSize)
           /\ \/ MayAccept(fwd, block) /\ fwd' = Send(fwd, block) /\ UNCHANGED held
              \/ MayRefuse(fwd, block) /\ held' = block /\ UNCHANGED fwd
    /\ UNCHANGED <<size, quit, back, echo>>

Tick == TickAtEnd \/ TickHeld \/ TickFile

\* on_read: all there is goes to the copy.
ClientData(n) ==
    /\ ~quit
    /\ Arrives(back, n)
    /\ back' = ReadAll(Store(back, n))
    /\ UNCHANGED <<size, pos, eof, held, quit, fwd, echo>>

ClientAck(n) ==
    /\ ~quit
    /\ Acks(fwd, n)
    /\ fwd' = Ack(fwd, n)
    /\ back' = ReadAll(back)
    /\ UNCHANGED <<size, pos, eof, held, quit, echo>>
----------------------------------------------------------------------------
(***************************************************************************)
(* The server.  Its on_read: what came in from st goes to send_buffer, and *)
(* one packet is sent from there, to the stream out.                       *)
(***************************************************************************)
MutRetrievesAlways(st, out) ==
    LET buf == echo \o Unread(st)
    IN  /\ fwd' = ReadAll(st)
        /\ back' = IF MayAccept(out, Front(buf)) THEN Send(out, Front(buf)) ELSE out
        /\ echo' = Rest(buf, Len(Front(buf)))

MutNewDataOnly(st, out) ==
    LET buf == echo \o Unread(st)
    IN  /\ fwd' = ReadAll(st)
        /\ IF Unread(st) = <<>> \/ ~MayAccept(out, Front(buf))
           THEN back' = out /\ echo' = buf
           ELSE back' = Send(out, Front(buf)) /\ echo' = Rest(buf, Len(Front(buf)))

OnRead(st, out) ==
    LET buf == echo \o Unread(st)
    IN  /\ fwd' = ReadAll(st)
        /\ \/ /\ MayAccept(out, Front(buf))
              /\ back' = Send(out, Front(buf))
              /\ echo' = Rest(buf, Len(Front(buf)))
           \/ /\ MayRefuse(out, Front(buf))
              /\ back' = out
              /\ echo' = buf

ServerData(n) ==
    /\ Arrives(fwd, n)
    /\ OnRead(Store(fwd, n), back)
    /\ UNCHANGED <<size, pos, eof, held, quit>>

ServerAck(n) ==
    /\ Acks(back, n)
    /\ OnRead(fwd, Ack(back, n))
    /\ UNCHANGED <<size, pos, eof, held, quit>>

----------------------------------------------------------------------------
\* A packet is stored, but the second LostPacketModule prevents the ack and the callback.
ServerStores(n) ==
    /\ Arrives(fwd, n)
    /\ fwd' = Store(fwd, n)
    /\ UNCHANGED <<size, pos, eof, held, quit, back, echo>>

ClientStores(n) ==
    /\ ~quit
    /\ Arrives(back, n)
    /\ back' = Store(back, n)
    /\ UNCHANGED <<size, pos, eof, held, quit, fwd, echo>>

Next ==
    \/ Tick
    \/ \E n \in 0..size :
         \/ ClientData(n) \/ ClientAck(n) \/ ClientStores(n)
         \/ ServerData(n) \/ ServerAck(n) \/ ServerStores(n)

Spec == Init /\ [][Next]_vars

(***************************************************************************)
(* The client's timer fires.  A packet is sent again until its ack is in,  *)
(* and of its copies and their acks some get through (Settles of           *)
(* SelectiveRepeat).  Nothing is assumed of copies that arrive later.      *)
(***************************************************************************)
Unacked(st) == st.acked < Len(st.data)

Fairness ==
    /\ WF_vars(Tick)
    /\ WF_vars(Unacked(fwd) /\ ServerData(Len(fwd.data)))
    /\ WF_vars(Unacked(back) /\ ClientData(Len(back.data)))
    /\ WF_vars(ClientAck(fwd.read))
    /\ WF_vars(ServerAck(back.read))

FairSpec == Spec /\ Fairness
----------------------------------------------------------------------------
StreamType ==
    [data : Seq(1..size), stored : 0..size, read : 0..size, acked : 0..size]

\* Every variable has its type; the client's send_buffer never holds more than one block, so
\* that the branch for a larger one is not needed.
TypeOK ==
    /\ size \in FileSizes
    /\ pos \in 0..size
    /\ eof \in BOOLEAN /\ quit \in BOOLEAN
    /\ held \in Seq(1..size) /\ Len(held) <= MaxDataSize
    /\ echo \in Seq(1..size)
    /\ \A st \in {fwd, back} :
         /\ st \in StreamType
         /\ st.acked <= st.read /\ st.read <= st.stored /\ st.stored <= Len(st.data)

Copy == SubSeq(back.data, 1, back.read)

\* No byte is lost, repeated or moved on its way: what came back, what is on its way
\* through both windows and both send_buffers, and what the client has not sent yet, make
\* up what was read of the file, in order.  So the byte counts by which client.cc decides
\* to quit can be relied on: when they meet, the copy holds everything that was sent.
\* That everything was sent is another matter (CopyEqualsFile).
EchoIntact ==
    /\ back.data \o echo \o Rest(fwd.data, fwd.read) \o held = Bytes(0, pos)
    /\ quit => Copy = fwd.data

\* The comparison at the end of client.cc (:102-114), which calls log_fatal on a
\* difference: when the client has quit the copy is the file.  The code does not ensure
\* it: the timer tests the end of the file before send_buffer, so a last block that the
\* window has refused is never sent.
CopyEqualsFile == quit => Copy = Bytes(0, size)

\* The client ends: everything accepted comes back, although the server sends only in
\* its read callback and only one packet, and although its window may refuse that.
Finishes == <>quit
=============================================================================
