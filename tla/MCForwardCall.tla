--------------------------- MODULE MCForwardCall ---------------------------
(* Two phones, two far ends, two requests. *)
EXTENDS ForwardCall

CONSTANTS h1, h2, m1, m2, r1, r2
=============================================================================
