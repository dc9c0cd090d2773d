------------------------------ MODULE MCBuffer -------------------------------
(* A small Buffer for TLC: every chunk of up to MaxChunk bytes.            *)
EXTENDS Buffer, SequencesExt

CONSTANT MaxChunk

AllChunks == BoundedSeq(Bytes, MaxChunk)
=============================================================================
