------------------------- MODULE MCSelectiveRepeat -------------------------
(* Bounds for SelectiveRepeat; the configurations give the constants.       *)
EXTENDS SelectiveRepeat
=============================================================================
