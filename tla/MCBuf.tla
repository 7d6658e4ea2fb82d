------------------------------- MODULE MCBuf --------------------------------
(* An instance of Buf: more blocks than buffers, so that buffers are recycled, *)
(* and a pinned one, so that there may be none to recycle.                     *)
EXTENDS Buf
=============================================================================
