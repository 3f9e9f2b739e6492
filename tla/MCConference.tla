---------------------------- MODULE MCConference ----------------------------
(* Two casts share the parties: a caller, a dialled member and a phone in    *)
(* two rooms, one after the other; two callers, one of whom only listens,    *)
(* and a phone in the last room that is made.                                *)
EXTENDS Conference

CONSTANTS c1, c2, m1, p1

MCSetups == {[cast |-> {c1, m1, p1}, past |-> 0], [cast |-> {c1, c2, p1}, past |-> MaxRooms - 1]}
MCJoins == {[cast |-> {c1, c2, p1}, past |-> MaxRooms - 1]}
=============================================================================
