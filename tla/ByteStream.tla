----------------------------- MODULE ByteStream -----------------------------
(***************************************************************************)
(* What the sliding-window protocol promises to its two users: the bytes   *)
(* accepted from one are handed to the other in order and each once.  A    *)
(* byte is its number in the order of acceptance.                          *)
(***************************************************************************)
EXTENDS Integers, Sequences

VARIABLES
    accepted,   \* bytes accepted
    delivered   \* bytes delivered, oldest first

vars == <<accepted, delivered>>

Init == accepted = 0 /\ delivered = <<>>

Accept ==
    /\ accepted' > accepted
    /\ UNCHANGED delivered

Deliver ==
    /\ \E n \in 1..(accepted - Len(delivered)) :
          delivered' = delivered \o [i \in 1..n |-> Len(delivered) + i]
    /\ UNCHANGED accepted

Next == Accept \/ Deliver

Spec == Init /\ [][Next]_vars
============================================================================
