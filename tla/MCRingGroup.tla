---------------------------- MODULE MCRingGroup ----------------------------
(* A ring group of two phones with a refused contact between them, and a   *)
(* browser softphone.                                                      *)
EXTENDS RingGroup

CONSTANTS p1, p2, x, b1, r1, r2

MCGroup == <<p1, x, p2, b1>>
=============================================================================
