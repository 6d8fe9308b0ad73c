---------------------------- MODULE MCRingBuffer ----------------------------
(***************************************************************************)
(* A TLC instance of RingBuffer: three slots, two distinct items, a thread *)
(* that stops the buffer.                                                  *)
(***************************************************************************)
EXTENDS RingBuffer

CONSTANTS a, b, s1

MCItem == {a, b}
MCStoppers == {s1}

=============================================================================
