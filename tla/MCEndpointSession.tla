------------------------- MODULE MCEndpointSession -------------------------
(* One leg, a relay (MEDIA) and a port reservation (RESERVATION), two      *)
(* client watchers and a service call that waits for the barrier.          *)
EXTENDS EndpointSession, TLC

CONSTANTS legA, relay, ports, w1, w2, svc1

MCResources == {relay, ports}
MCStageOf == (relay :> 30) @@ (ports :> 10)
=============================================================================
