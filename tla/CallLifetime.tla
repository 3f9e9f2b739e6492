---------------------------- MODULE CallLifetime ----------------------------
(***************************************************************************)
(* What one PBX call promises to everything that hands it a leg, a media   *)
(* object or a reservation: while the call is live it takes custody and    *)
(* gives custody back; once it starts closing it takes nothing more, hands *)
(* nothing back, drops what it holds one by one and is gone only when it   *)
(* holds nothing.  EndpointSession is shown to implement this.             *)
(***************************************************************************)
CONSTANT Items

VARIABLES
    life,   \* "live", "closing" or "gone"
    held    \* the items the call is responsible for closing

lifetimeVars == <<life, held>>

LifetimeTypeOK ==
    /\ life \in {"live", "closing", "gone"}
    /\ held \subseteq Items

LifetimeInit ==
    /\ life = "live"
    /\ held = {}

Acquire(i) ==
    /\ life = "live"
    /\ i \notin held
    /\ held' = held \cup {i}
    /\ UNCHANGED life

Transfer(i) ==
    /\ life = "live"
    /\ i \in held
    /\ held' = held \ {i}
    /\ UNCHANGED life

BeginClosing ==
    /\ life = "live"
    /\ life' = "closing"
    /\ UNCHANGED held

Drop(i) ==
    /\ life = "closing"
    /\ i \in held
    /\ held' = held \ {i}
    /\ UNCHANGED life

Finish ==
    /\ life = "closing"
    /\ held = {}
    /\ life' = "gone"
    /\ UNCHANGED held

LifetimeNext ==
    \/ \E i \in Items : Acquire(i) \/ Transfer(i) \/ Drop(i)
    \/ BeginClosing
    \/ Finish

LifetimeSpec == LifetimeInit /\ [][LifetimeNext]_lifetimeVars

=============================================================================
