------------------------------- MODULE MCMkfs -------------------------------
(* mkfs by itself, with up to three files of one byte.                      *)
EXTENDS Mkfs

FewFiles == UNION {[1 .. n -> {<<7>>}] : n \in 0 .. 3}
=============================================================================
