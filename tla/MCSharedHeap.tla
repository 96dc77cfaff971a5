---------------------------- MODULE MCSharedHeap ----------------------------
(* Two buffers for TLC: one takes two chunks, the other one. *)
EXTENDS SharedHeap

CONSTANTS large, small

MCBuffer == {large, small}
MCSize == large :> 2 @@ small :> 1
=============================================================================
