---------------------------- MODULE MCDirectCall ----------------------------
(* A call from a to b, one from the trunk whose digits lead to a phone, and a *)
(* phone h that calls b and then d.                                          *)
EXTENDS DirectCall, TLC

CONSTANTS c1, c2, c3, c4, h, a, b, d

MCEnds == (c1 :> {a, b}) @@ (c2 :> {h, b}) @@ (c3 :> {h, d}) @@ (c4 :> {})
MCDest == (c1 :> b) @@ (c2 :> b) @@ (c3 :> d)
=============================================================================
