------------------------------ MODULE MCSolver ------------------------------
(***************************************************************************)
(* Solver for TLC: two plugins and three events, so that the one-slot      *)
(* channel is full while a packet is being matched and another one waits.  *)
(***************************************************************************)
EXTENDS Solver

=============================================================================
