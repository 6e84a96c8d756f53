--------------------------- MODULE MCFileTransfer ---------------------------
(* FileTransfer for TLC: no block, a short one, whole blocks only, and a short last one.  *)
EXTENDS FileTransfer
=============================================================================
