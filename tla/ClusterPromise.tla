--------------------------- MODULE ClusterPromise ---------------------------
(***************************************************************************)
(* What scripts/k8s-up.mjs and k8s-down.mjs promise of one cluster life to *)
(* everything that depends on it: the host-port map is fixed at creation   *)
(* (step 2 of the header of k8s-up.mjs), and the RabbitMQ user, once one   *)
(* of its two Secrets holds it, is never replaced by another (step 3).     *)
(* ClusterLifecycle implements this with two Secrets and a ConfigMap that  *)
(* any number of runs write.                                               *)
(***************************************************************************)
CONSTANTS Users, PortMaps, None  \* None is outside both sets

VARIABLES hostMap,  \* the map the living cluster publishes and records
          user      \* the RabbitMQ user its Secrets hold
vars == <<hostMap, user>>

Init == hostMap = None /\ user = None

Provision ==
  /\ hostMap = None
  /\ hostMap' \in PortMaps
  /\ UNCHANGED user

Choose ==
  /\ hostMap # None
  /\ user = None
  /\ user' \in Users
  /\ UNCHANGED hostMap

\* The operator removed the last Secret that held the user.
Forget == user' = None /\ UNCHANGED hostMap

Destroy == hostMap' = None /\ user' = None

Next == Provision \/ Choose \/ Forget \/ Destroy

Spec == Init /\ [][Next]_vars
=============================================================================
