---------------------------- MODULE MCSingleItem ----------------------------
(***************************************************************************)
(* A TLC instance of SingleItem with two distinct items.                   *)
(***************************************************************************)
EXTENDS SingleItem

CONSTANTS a, b

MCItem == {a, b}

=============================================================================
