------------------------- MODULE MCSessionAllocator -------------------------
(***************************************************************************)
(* Instances of SessionAllocator for TLC.                                  *)
(***************************************************************************)
EXTENDS SessionAllocatorInvariant

CONSTANTS q1, q2    \* requests
=============================================================================
