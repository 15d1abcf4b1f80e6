-------------------------- MODULE MCBoundedDelivery --------------------------
(***************************************************************************)
(* AsgiDelivery with three deliveries that the application dispatches, or  *)
(* with two of one event that come by HTTP.                                *)
(***************************************************************************)
EXTENDS AsgiDelivery, TLC

CONSTANTS d1, d2, d3, e1, e2

VARIABLE scenario

(* Two deliveries of one event, and one of another.                        *)
MCEventOf == d1 :> e1 @@ d2 :> e1 @@ d3 :> e2

Within ==
  IF scenario = "direct" THEN \A d \in Deliveries : post'[d] \in {"new", "direct"}
  ELSE post'[d3] = "new" /\ \A d \in {d1, d2} : post'[d] # "direct"

MCInit == AsgiInit /\ scenario \in {"direct", "http"}

MCNext == AsgiNext /\ Within /\ UNCHANGED scenario

(* AsgiFairSpec with fewer arrivals: what is fair in it is not restricted. *)
MCSpec == MCInit /\ [][MCNext]_<<asgiVars, scenario>> /\ AsgiFairness
=============================================================================
