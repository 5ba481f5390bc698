---------------------------- MODULE MCRingBuffer ----------------------------
(* The ring buffer of 6 words: every length leaves the records unaligned   *)
(* with the end of the memory, so that headers and payloads wrap.          *)
EXTENDS RingBuffer

MCDataLens == {3}
MCScratchLens == {1}
=============================================================================
