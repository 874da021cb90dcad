------------------------------ MODULE MCChunking ------------------------------
(* Chunking for TLC: short texts, every small window, one negative overlap. *)
EXTENDS Chunking

MCLengths == 0 .. 12
MCSizes == 0 .. 5
MCOverlaps == -1 .. 5
=============================================================================
