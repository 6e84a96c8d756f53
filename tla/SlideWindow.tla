---------------------------- MODULE SlideWindow ----------------------------
(***************************************************************************)
(* cortono::SlideWindow<BufferSize, WindowSize>                            *)
(* (src/protocol/slide_window.hpp): a window [left, right) over positions  *)
(* modulo BufferSize, as a record and the operations on it.  The send side *)
(* uses the bounds only, the receive side all of it.                       *)
(***************************************************************************)
EXTENDS Integers

CONSTANTS BufferSize, WindowSize

\* What client.cc and server.cc assert of the two, and that there is a window.
ASSUME WindowAssumption ==
    /\ BufferSize \in Nat
    /\ WindowSize \in Nat \ {0}
    /\ 2 * WindowSize < BufferSize

Position == 0..(BufferSize - 1)

\* x modulo BufferSize, for x below 2 * BufferSize.
Wrap(x) == IF x < BufferSize THEN x ELSE x - BufferSize

\* How far s lies ahead of l on the circle.
Ahead(l, s) == IF s >= l THEN s - l ELSE s - l + BufferSize

\* The members, but for the contents of buffer_: 0 is a byte nobody wrote.
NewWindow ==
    [left |-> 0, right |-> WindowSize, read |-> 0, readable |-> 0,
     bits |-> {}, buffer |-> [x \in Position |-> 0]]

\* in_valid_range on the window [l, r), end already reduced: in the second branch
\* the window goes around the end of the buffer.
MutIgnoresEnd(l, r, start, end) ==
    IF l < r THEN start >= l /\ start < r ELSE start >= l \/ start < r

InValidRange(l, r, start, end) ==
    IF l < r
    THEN start >= l /\ end <= r /\ start < r /\ end > l
    ELSE /\ start >= l \/ start < r
         /\ end >= l \/ end < r

\* How many of the bits from left on are set.
Run(left, bits) ==
    CHOOSE k \in 0..BufferSize :
        /\ \A i \in 0..(k - 1) : Wrap(left + i) \in bits
        /\ Wrap(left + k) \notin bits

Moved(w, n) == [w EXCEPT !.left = Wrap(@ + n), !.right = Wrap(@ + n)]

\* set_flag_if_valid: stores the bytes first, first + 1, ... of a packet that starts
\* at position start, and moves over the run of bytes it completes.
SetFlagIfValid(w, start, len, first) ==
    LET got == {Wrap(start + i) : i \in 0..(len - 1)}
        n == Run(w.left, w.bits \cup got)
    IN  IF InValidRange(w.left, w.right, start, Wrap(start + len))
        THEN [Moved(w, n) EXCEPT
                !.bits = (@ \cup got) \ {Wrap(w.left + i) : i \in 0..(n - 1)},
                !.buffer = [x \in Position |->
                               IF x \in got THEN first + Ahead(start, x) ELSE @[x]],
                !.readable = @ + n]
        ELSE w

\* move_if_valid
MoveIfValid(w, end) ==
    IF InValidRange(w.left, w.right, w.left, end)
    THEN Moved(w, Ahead(w.left, end))
    ELSE w

\* recv_all: what it returns, and the window after it.
Unread(w) ==
    LET n == IF w.readable = 0 THEN 0
             ELSE IF w.read <= w.left THEN w.readable
             ELSE BufferSize - w.read + w.left
    IN  [i \in 1..n |-> w.buffer[Wrap(w.read + i - 1)]]

MutKeepsReadIdx(w) == [w EXCEPT !.readable = 0]

RecvAll(w) ==
    IF w.readable = 0 THEN w ELSE [w EXCEPT !.read = w.left, !.readable = 0]
============================================================================
