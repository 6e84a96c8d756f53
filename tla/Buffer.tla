------------------------------- MODULE Buffer -------------------------------
(***************************************************************************)
(* cortono::net::BaseBuffer (src/net/buffer.hpp): a vector of bytes and    *)
(* two indices.  What is between them is the content; enable_bytes makes   *)
(* room behind it, by moving the content to the front and, if that is not  *)
(* enough, by growing the vector.  Every Connection owns two of these, and *)
(* module Connection treats them as the sequences of bytes that the        *)
(* theorems at the end of module ConnectionProofs show them to be.         *)
(***************************************************************************)
EXTENDS Integers, Sequences

CONSTANTS
    Byte,       \* what the vector holds
    NUL,        \* what a new element holds
    Size        \* the initial size of the vector (2048 for Buffer)

VARIABLES
    buffer,     \* buffer_, from 1
    readIdx,    \* read_idx_
    writeIdx    \* write_idx_

vars == <<buffer, readIdx, writeIdx>>

\* size() and writeable(), for these indices.
BytesIn(r, w) == w - r
Writeable(b, w) == Len(b) - w

\* The bytes that are still to be read.
Content == [i \in 1..BytesIn(readIdx, writeIdx) |-> buffer[readIdx + i]]

Init ==
    /\ buffer = [i \in 1..Size |-> NUL]
    /\ readIdx = 0
    /\ writeIdx = 0

(***************************************************************************)
(* enable_bytes(n): the vector and the indices it leaves.                  *)
(***************************************************************************)
Moved ==
    [i \in 1..Len(buffer) |->
        IF i <= BytesIn(readIdx, writeIdx) THEN buffer[readIdx + i] ELSE buffer[i]]

Resized(b, n) == [i \in 1..n |-> IF i <= Len(b) THEN b[i] ELSE NUL]

EnableBytes(n) ==
    LET w == BytesIn(readIdx, writeIdx)
    IN  IF Writeable(buffer, writeIdx) >= n
        THEN [b |-> buffer, r |-> readIdx, w |-> writeIdx]
        ELSE IF Writeable(Moved, w) >= n
             THEN [b |-> Moved, r |-> 0, w |-> w]
             ELSE [b |-> Resized(Moved, Len(Moved) + n - Writeable(Moved, w)), r |-> 0, w |-> w]

\* Room for n bytes is made, and the bytes of s are written there: append() with n = Len(s),
\* handle_read of Connection with n = readable() and the bytes that recv gave it.
Write(s, n) ==
    LET e == EnableBytes(n)
    IN  /\ Len(s) <= n
        /\ buffer' = [i \in 1..Len(e.b) |->
                        IF i \in (e.w + 1)..(e.w + Len(s)) THEN s[i - e.w] ELSE e.b[i]]
        /\ readIdx' = e.r
        /\ writeIdx' = e.w + Len(s)

\* clear() and read_all().
Clear ==
    /\ readIdx' = 0
    /\ writeIdx' = 0
    /\ UNCHANGED buffer

\* retrieve_read_bytes(n) of at most size() bytes, also as a part of read_bytes.
RetrieveReadBytes(n) ==
    /\ n <= BytesIn(readIdx, writeIdx)
    /\ IF readIdx + n = writeIdx
       THEN Clear
       ELSE /\ readIdx' = readIdx + n
            /\ UNCHANGED <<buffer, writeIdx>>

\* read_util(s), when s ends after n bytes of the content; otherwise it is read_all.
ReadUtil(n) ==
    /\ n <= BytesIn(readIdx, writeIdx)
    /\ readIdx' = readIdx + n
    /\ UNCHANGED <<buffer, writeIdx>>

Next ==
    \/ \E n \in Nat : \E s \in Seq(Byte) : Write(s, n)
    \/ Clear
    \/ \E n \in Nat : RetrieveReadBytes(n) \/ ReadUtil(n)

Spec == Init /\ [][Next]_vars
-----------------------------------------------------------------------------
(***************************************************************************)
(* Properties.                                                             *)
(***************************************************************************)

\* The indices stay in order and inside the vector: the log_fatal of size() is never
\* reached, and nothing is written behind the end.
IndicesOK ==
    /\ buffer \in Seq(Byte)
    /\ readIdx \in Nat
    /\ writeIdx \in Nat
    /\ readIdx <= writeIdx
    /\ writeIdx <= Len(buffer)

\* t is s with something behind it; t is what is left of s when its first bytes are taken.
Extends(s, t) == Len(s) <= Len(t) /\ \A i \in 1..Len(s) : t[i] = s[i]
Rest(s, t) == Len(t) <= Len(s) /\ \A i \in 1..Len(t) : t[i] = s[Len(s) - Len(t) + i]

\* Bytes come out in the order they went in and unchanged, however often the content is moved
\* and the vector grows: a step leaves the content in front, or takes bytes from its front.
Fifo == Extends(Content, Content') \/ Rest(Content, Content')
=============================================================================
