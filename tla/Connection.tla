----------------------------- MODULE Connection -----------------------------
(***************************************************************************)
(* cortono::net::Connection<TcpSocket> (src/net/connection.hpp) on its     *)
(* event loop, with the registration of its socket (src/net/socket.hpp)    *)
(* and the dispatch of its events by EventPoller::wait                     *)
(* (src/net/poller.hpp), edge-triggered as Connection assumes.             *)
(*                                                                         *)
(* The kernel's socket and the peer are external: bytes are accepted while *)
(* there is space, and the descriptor is put on epoll's ready list when    *)
(* data, a FIN or a reset arrives, when connect() completes, and when      *)
(* space appears after a send was cut short.  epoll_wait takes it off the  *)
(* list and reports everything that is ready at that moment.               *)
(*                                                                         *)
(* A handler runs on the loop's thread and is one step, up to the points   *)
(* where it calls user code (conn_cb_, write_cb_), which may send, send a  *)
(* file or close, and up to the socket calls it repeats on EAGAIN.  Code   *)
(* run by read_cb_ and close_cb_ comes last in its handler, so the user's  *)
(* actions at "loop" stand for it.  Bytes are numbered as submitted.       *)
(***************************************************************************)
EXTENDS Integers, Sequences, SequencesExt

CONSTANTS
    MaxBytes,   \* bound: bytes the user submits in all
    Chunks,     \* sizes of one send() or of one file
    SockBuf,    \* size of the kernel's send buffer
    MaxArrivals,\* bound: times the peer sends data
    PeerEnds,   \* what the peer may do to end the connection
    Client      \* the connection starts in HandShaking, else in Connected

ASSUME ConnectionAssumption ==
    /\ MaxBytes \in Nat
    /\ Chunks \subseteq Nat \ {0}
    /\ SockBuf \in Nat \ {0}
    /\ MaxArrivals \in Nat
    /\ PeerEnds \subseteq {"close", "reset"}
    /\ Client \in BOOLEAN

VARIABLES
    st,         \* conn_state_
    buf,        \* send_buffer_
    file,       \* what sendfile() still has to send; sendfile_ is file # <<>>
    wcb,        \* the write callback of the socket
    reg,        \* the socket is registered with epoll
    at, ret,    \* where the loop's thread is, and where handle_sendfile returns
    est,        \* kernel: progress of connect()
    space,      \* kernel: free bytes of the send buffer
    nospace,    \* kernel: a send was cut short since space last appeared
    rx,         \* kernel: unread data
    arrivals,   \* data arrivals so far
    fin, rst,   \* kernel: the peer closed, the connection was reset
    ready,      \* kernel: on epoll's ready list
    submitted,  \* history: bytes given to send() and sendfile()
    wire,       \* history: bytes the kernel accepted, in order
    dropped,    \* history: a direct send met EAGAIN
    mixed,      \* history: data submitted while a file was being sent, or a file
                \* before the connection was established
    notices,    \* history: calls of close_cb_ and error_cb_
    missed      \* history: an event had more to it than the read callback took

conn == <<st, reg, notices>>
sock == <<est, rx, arrivals, fin, rst>>
out == <<space, nospace, wire>>
user == <<submitted, dropped, mixed>>
vars == <<st, buf, file, wcb, reg, at, ret, est, space, nospace, rx, arrivals,
          fin, rst, ready, submitted, wire, dropped, mixed, notices, missed>>

Bytes(n) == [i \in 1..n |-> submitted + i]
Take(s, n) == SubSeq(s, 1, n)
Drop(s, n) == SubSeq(s, n + 1, Len(s))

----------------------------------------------------------------------------
\* Reading and writing are enabled by the constructor, which reports what is
\* ready already.
Init ==
    /\ st = IF Client THEN "HandShaking" ELSE "Connected"
    /\ est = IF Client THEN "connecting" ELSE "up"
    /\ buf = <<>> /\ file = <<>>
    /\ wcb = "write" /\ reg = TRUE
    /\ at = "loop" /\ ret = "loop"
    /\ space = SockBuf /\ nospace = FALSE
    /\ rx = FALSE /\ arrivals = 0 /\ fin = FALSE /\ rst = FALSE
    /\ ready = ~Client
    /\ submitted = 0 /\ wire = <<>>
    /\ dropped = FALSE /\ mixed = FALSE
    /\ notices = 0 /\ missed = FALSE

(***************************************************************************)
(* handle_close and handle_error: the state check that prevents a second   *)
(* close, disable_all, and the user's callback.                            *)
(***************************************************************************)
MutCloseAgain ==
    /\ st' = "Closed"
    /\ reg' = FALSE
    /\ notices' = notices + 1

CloseConn ==
    /\ st' = "Closed"
    /\ reg' = FALSE
    /\ notices' = IF st = "Closed" THEN notices ELSE notices + 1

(***************************************************************************)
(* The socket calls.                                                       *)
(***************************************************************************)
Broken == rst \/ est = "refused"
Full == space = 0 \/ est = "connecting"
In == rx \/ fin \/ Broken
Out == est = "up" /\ space > 0

Unsent == buf # <<>> \/ file # <<>>

\* The kernel takes what fits of s; n is what send() returns.
Accept(s, n) ==
    /\ ~Broken /\ ~Full
    /\ n = IF space < Len(s) THEN space ELSE Len(s)
    /\ wire' = wire \o Take(s, n)
    /\ space' = space - n
    /\ nospace' = (nospace \/ n < Len(s))

(***************************************************************************)
(* User code, on the loop's thread.                                        *)
(***************************************************************************)
UserCode == at \in {"loop", "write_cb", "conn_read", "conn_write"}

\* send(): appended behind buffered data or while connecting ...
SendBuffered(n) ==
    /\ buf # <<>> \/ st = "HandShaking"
    /\ buf' = buf \o Bytes(n)
    /\ UNCHANGED <<conn, out, wcb, dropped>>

\* ... else given to the socket; the rest of a short write is buffered, an
\* EAGAIN is logged and the data forgotten, any other error closes.
MutSendNoCallback(n) ==
    /\ buf = <<>> /\ st # "HandShaking"
    /\ \/ \E k \in 1..n :
            /\ Accept(Bytes(n), k)
            /\ buf' = Drop(Bytes(n), k)
            /\ UNCHANGED <<conn, wcb, dropped>>
       \/ /\ ~Broken /\ Full
          /\ nospace' = TRUE
          /\ dropped' = TRUE
          /\ UNCHANGED <<conn, buf, wcb, space, wire>>
       \/ /\ Broken
          /\ CloseConn
          /\ UNCHANGED <<out, buf, wcb, dropped>>

SendDirect(n) ==
    /\ buf = <<>> /\ st # "HandShaking"
    /\ \/ \E k \in 1..n :
            /\ Accept(Bytes(n), k)
            /\ buf' = Drop(Bytes(n), k)
            /\ wcb' = IF k < n THEN "write" ELSE wcb
            /\ UNCHANGED <<conn, dropped>>
       \/ /\ ~Broken /\ Full
          /\ nospace' = TRUE
          /\ dropped' = TRUE
          /\ UNCHANGED <<conn, buf, wcb, space, wire>>
       \/ /\ Broken
          /\ CloseConn
          /\ UNCHANGED <<out, buf, wcb, dropped>>

Send(n) ==
    /\ UserCode
    /\ submitted + n <= MaxBytes
    /\ SendBuffered(n) \/ SendDirect(n)
    /\ submitted' = submitted + n
    /\ mixed' = (mixed \/ file # <<>>)
    /\ UNCHANGED <<sock, file, at, ret, ready, missed>>

\* sendfile(): behind buffered data, else started at once.
MutSendfileLonger(n) ==
    /\ UserCode
    /\ submitted + n <= MaxBytes
    /\ file' = Bytes(n + 1)
    /\ submitted' = submitted + n
    /\ mixed' = (mixed \/ file # <<>> \/ st = "HandShaking")
    /\ IF buf # <<>>
       THEN UNCHANGED <<at, ret>>
       ELSE at' = "sendfile" /\ ret' = at
    /\ UNCHANGED <<conn, sock, out, buf, wcb, ready, dropped, missed>>

Sendfile(n) ==
    /\ UserCode
    /\ submitted + n <= MaxBytes
    /\ file' = Bytes(n)
    /\ submitted' = submitted + n
    /\ mixed' = (mixed \/ file # <<>> \/ st = "HandShaking")
    /\ IF buf # <<>>
       THEN UNCHANGED <<at, ret>>
       ELSE at' = "sendfile" /\ ret' = at
    /\ UNCHANGED <<conn, sock, out, buf, wcb, ready, dropped, missed>>

\* close(): the connection is closed if there is buffered data, and marked
\* WaitClosed if there is none or a file is being sent.
Close ==
    /\ UserCode
    /\ st # "Closed"
    /\ IF buf = <<>> \/ file # <<>>
       THEN st' = "WaitClosed" /\ UNCHANGED <<reg, notices>>
       ELSE CloseConn
    /\ UNCHANGED <<sock, out, buf, file, wcb, at, ret, ready, submitted, dropped, mixed, missed>>
----------------------------------------------------------------------------
(***************************************************************************)
(* Handlers that go on after a call they may repeat or after user code.    *)
(***************************************************************************)

\* handle_sendfile.  On EAGAIN it calls itself until there is space.
DoSendfile ==
    /\ at = "sendfile"
    /\ at' = ret
    /\ ret' = "loop"
    /\ \/ \E n \in 1..Len(file) :
            /\ Accept(file, n)
            /\ file' = Drop(file, n)
            /\ wcb' = IF n < Len(file) THEN "sendfile" ELSE wcb
            /\ IF n = Len(file) /\ st = "WaitClosed" THEN CloseConn ELSE UNCHANGED conn
       \/ /\ Broken
          /\ CloseConn
          /\ UNCHANGED <<out, file, wcb>>
    /\ UNCHANGED <<sock, buf, ready, user, missed>>

\* The file cannot be opened any more: 0 is returned, which closes.
FileGone ==
    /\ at = "sendfile"
    /\ at' = ret
    /\ ret' = "loop"
    /\ CloseConn
    /\ UNCHANGED <<sock, out, buf, file, wcb, ready, user, missed>>

\* handle_write with data in the buffer.  On EAGAIN it calls itself.
MutFlushForgetsFile ==
    /\ at = "flush"
    /\ \/ \E n \in 1..Len(buf) :
            /\ Accept(buf, n)
            /\ buf' = Drop(buf, n)
            /\ IF n < Len(buf)
               THEN wcb' = "write" /\ at' = "loop"
               ELSE wcb' = wcb /\ at' = "write_cb"
            /\ UNCHANGED conn
       \/ /\ Broken
          /\ CloseConn
          /\ at' = "loop"
          /\ UNCHANGED <<out, buf, wcb>>
    /\ UNCHANGED <<sock, file, ret, ready, user, missed>>

MutFlushKeepsBytes ==
    /\ at = "flush"
    /\ \/ \E n \in 1..Len(buf) :
            /\ Accept(buf, n)
            /\ IF n < Len(buf)
               THEN wcb' = "write" /\ at' = "loop" /\ buf' = buf
               ELSE /\ buf' = <<>>
                    /\ wcb' = IF file # <<>> THEN "sendfile" ELSE wcb
                    /\ at' = IF file # <<>> THEN "sendfile" ELSE "write_cb"
            /\ UNCHANGED conn
       \/ /\ Broken
          /\ CloseConn
          /\ at' = "loop"
          /\ UNCHANGED <<out, buf, wcb>>
    /\ UNCHANGED <<sock, file, ret, ready, user, missed>>

Flush ==
    /\ at = "flush"
    /\ \/ \E n \in 1..Len(buf) :
            /\ Accept(buf, n)
            /\ buf' = Drop(buf, n)
            /\ IF n < Len(buf)
               THEN wcb' = "write" /\ at' = "loop"
               ELSE /\ wcb' = IF file # <<>> THEN "sendfile" ELSE wcb
                    /\ at' = IF file # <<>> THEN "sendfile" ELSE "write_cb"
            /\ UNCHANGED conn
       \/ /\ Broken
          /\ CloseConn
          /\ at' = "loop"
          /\ UNCHANGED <<out, buf, wcb>>
    /\ UNCHANGED <<sock, file, ret, ready, user, missed>>

\* write_cb_ has returned; a close() that waited for the data is carried out.
AfterWriteCb ==
    /\ at = "write_cb"
    /\ at' = "loop"
    /\ IF st = "WaitClosed" THEN CloseConn ELSE UNCHANGED conn
    /\ UNCHANGED <<sock, out, buf, file, wcb, ret, ready, user, missed>>

\* conn_cb_ has returned to handle_write.
AfterConnWrite ==
    /\ at = "conn_write"
    /\ at' = IF buf # <<>> THEN "flush" ELSE "loop"
    /\ UNCHANGED <<conn, sock, out, buf, file, wcb, ret, ready, user, missed>>

\* handle_read: all the data there is, else the peer's FIN or the error.
MutReadIgnoresEof ==
    /\ at' = "loop"
    /\ rx' = FALSE
    /\ IF rx \/ fin THEN UNCHANGED conn ELSE CloseConn
    /\ missed' = (missed \/ (rx /\ (fin \/ rst)) \/ (Out /\ Unsent))
    /\ UNCHANGED <<space, wire, est, arrivals, fin, rst, buf, file, wcb, ret, user>>

ReadBytes ==
    /\ at' = "loop"
    /\ rx' = FALSE
    /\ IF rx THEN UNCHANGED conn ELSE CloseConn
    /\ missed' = (missed \/ (rx /\ (fin \/ rst)) \/ (Out /\ Unsent))
    /\ UNCHANGED <<space, wire, est, arrivals, fin, rst, buf, file, wcb, ret, user>>

\* conn_cb_ has returned to handle_read.
AfterConnRead ==
    /\ at = "conn_read"
    /\ ReadBytes
    /\ UNCHANGED <<ready, nospace>>
----------------------------------------------------------------------------
(***************************************************************************)
(* epoll_wait and the dispatch: a readable descriptor gets its read        *)
(* callback and nothing else, also when it is writable.                    *)
(***************************************************************************)
Reported ==
    /\ at = "loop"
    /\ reg
    /\ ready
    /\ ready' = FALSE
    /\ nospace' = (nospace \/ space = 0)     \* tcp_poll asks to be told of space

\* handle_handshake from either handler: conn_cb_ or handle_error.
Handshake(next) ==
    IF Broken
    THEN CloseConn /\ UNCHANGED at
    ELSE st' = "Connected" /\ at' = next /\ UNCHANGED <<reg, notices>>

OnRead ==
    /\ Reported
    /\ In
    /\ IF st = "HandShaking"
       THEN /\ Handshake("conn_read")
            /\ UNCHANGED <<sock, space, wire, buf, file, wcb, ret, user, missed>>
       ELSE ReadBytes

\* handle_write; its handshake cannot fail without the descriptor being readable.
OnWrite ==
    /\ Reported
    /\ ~In /\ Out
    /\ wcb = "write"
    /\ IF st = "HandShaking"
       THEN Handshake("conn_write")
       ELSE /\ at' = IF buf # <<>> THEN "flush" ELSE "loop"
            /\ UNCHANGED conn
    /\ UNCHANGED <<sock, space, wire, buf, file, wcb, ret, user, missed>>

\* handle_sendfile as the write callback.
OnWriteFile ==
    /\ Reported
    /\ ~In /\ Out
    /\ wcb = "sendfile"
    /\ at' = IF file # <<>> THEN "sendfile" ELSE "loop"
    /\ UNCHANGED <<conn, sock, space, wire, buf, file, wcb, ret, user, missed>>

\* Neither readable nor writable but in error: the close callback.
OnClose ==
    /\ Reported
    /\ Broken
    /\ CloseConn
    /\ UNCHANGED <<sock, space, wire, buf, file, wcb, at, ret, user, missed>>

\* Put on the list for something that is no longer so.
OnNothing ==
    /\ Reported
    /\ ~In /\ ~Out
    /\ UNCHANGED <<conn, sock, space, wire, buf, file, wcb, at, ret, user, missed>>
----------------------------------------------------------------------------
(***************************************************************************)
(* The kernel and the peer.                                                *)
(***************************************************************************)
local == <<conn, buf, file, wcb, at, ret, user, missed>>

Established ==
    /\ est = "connecting"
    /\ est' \in {"up", "refused"}
    /\ ready' = TRUE
    /\ UNCHANGED <<local, out, rx, arrivals, fin, rst>>

PeerSends ==
    /\ est = "up" /\ ~fin /\ ~rst
    /\ arrivals < MaxArrivals
    /\ rx' = TRUE
    /\ arrivals' = arrivals + 1
    /\ ready' = TRUE
    /\ UNCHANGED <<local, out, est, fin, rst>>

PeerCloses ==
    /\ "close" \in PeerEnds
    /\ est = "up" /\ ~fin /\ ~rst
    /\ fin' = TRUE
    /\ ready' = TRUE
    /\ UNCHANGED <<local, out, est, rx, arrivals, rst>>

PeerResets ==
    /\ "reset" \in PeerEnds
    /\ est = "up" /\ ~rst
    /\ rst' = TRUE
    /\ ready' = TRUE
    /\ UNCHANGED <<local, out, est, rx, arrivals, fin>>

PeerReads ==
    /\ ~Broken
    /\ space < SockBuf
    /\ space' \in (space + 1)..SockBuf
    /\ ready' = (ready \/ nospace)
    /\ nospace' = FALSE
    /\ UNCHANGED <<local, sock, wire>>

Handler ==
    \/ DoSendfile
    \/ Flush
    \/ AfterWriteCb
    \/ AfterConnWrite
    \/ AfterConnRead
    \/ OnRead
    \/ OnWrite
    \/ OnWriteFile
    \/ OnClose
    \/ OnNothing

Next ==
    \/ \E n \in Chunks : Send(n) \/ Sendfile(n)
    \/ Close
    \/ Handler
    \/ FileGone
    \/ Established
    \/ PeerSends
    \/ PeerCloses
    \/ PeerResets
    \/ PeerReads

\* The loop's thread is scheduled, connect() completes, and the peer reads what
\* it is sent.
Fairness ==
    /\ WF_vars(Handler)
    /\ WF_vars(Established)
    /\ WF_vars(PeerReads)

Spec == Init /\ [][Next]_vars

FairSpec == Spec /\ Fairness
----------------------------------------------------------------------------
Ids(n) == [i \in 1..n |-> i]

\* Every variable of the connection has its type; the buffers hold submitted bytes.
TypeOK ==
    /\ st \in {"HandShaking", "Connected", "WaitClosed", "Closed"}
    /\ buf \in Seq(1..submitted)
    /\ file \in Seq(1..submitted)
    /\ wire \in Seq(1..submitted)
    /\ wcb \in {"write", "sendfile"}
    /\ at \in {"loop", "flush", "sendfile", "write_cb", "conn_read", "conn_write"}
    /\ ret \in {"loop", "write_cb", "conn_read", "conn_write"}
    /\ est \in {"connecting", "up", "refused"}
    /\ space \in 0..SockBuf
    /\ arrivals \in 0..MaxArrivals
    /\ submitted \in 0..MaxBytes
    /\ notices \in Nat
    /\ {reg, nospace, rx, fin, rst, ready, dropped, mixed, missed} \subseteq BOOLEAN

\* The user is told of the end of the connection exactly once, whatever mixture of
\* close(), FIN, reset, failed handshake and failed sends ends it.
ToldOnce == notices = IF st = "Closed" THEN 1 ELSE 0

\* Whenever the thread is back in its loop with unsent data, the callback for the
\* next writable event is the one that sends it, however sends and files followed
\* one another before (mixed use apart).
WriteArmed ==
    at = "loop" /\ st # "Closed" /\ ~mixed =>
        /\ buf # <<>> => wcb = "write"
        /\ buf = <<>> /\ file # <<>> => wcb = "sendfile"

\* What the kernel accepted, what is buffered and what is left of the file are
\* together the submitted bytes in their order, if no file was overtaken and no
\* direct send met EAGAIN.
StreamIntact ==
    st # "Closed" /\ ~mixed /\ ~dropped => wire \o buf \o file = Ids(submitted)

\* Unsent data is sent once the peer reads, or the connection ends, apart from mixed
\* use and from writable events that were taken for readable ones only.
Drains == Unsent ~> (~Unsent \/ st = "Closed" \/ mixed \/ missed)

\* The peer's close is noticed, if it was not reported together with data.
PeerCloseNoticed == fin ~> (st = "Closed" \/ missed)

(***************************************************************************)
(* What the repository says and the code does not do.                      *)
(***************************************************************************)

\* connection.hpp:205: a send that met EAGAIN is called again, so that no byte of
\* an open connection is lost.
NothingLost ==
    st # "Closed" /\ ~mixed => wire \o buf \o file = Ids(submitted)

\* doc/epoll水平触发和边缘触发的选择.md:28: after a short send the writable event is
\* triggered again once there is space, so unsent data is always sent in the end.
NeverStalls == Unsent ~> (~Unsent \/ st = "Closed" \/ mixed)
============================================================================
