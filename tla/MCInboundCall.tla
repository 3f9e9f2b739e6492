--------------------------- MODULE MCInboundCall ---------------------------
(* One Call-ID, up to two answering cards, one reservation for the trunk's *)
(* early media and one for each card.                                      *)
EXTENDS InboundCall, TLC

CONSTANTS card1, card2, bridge, ports1, ports2

\* Nothing tells the two cards, or the two reservations they may take, apart.
MCSymmetry == Permutations({card1, card2}) \cup Permutations({ports1, ports2})
=============================================================================
