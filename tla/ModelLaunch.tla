---------------------------- MODULE ModelLaunch ----------------------------
(***************************************************************************)
(* What launching a model promises: each model goes once through deployed, *)
(* registered and announced, in this order, whoever works on it.  The deploy *)
(* listener implements it (DeployListener).                                *)
(***************************************************************************)
CONSTANT Ids
VARIABLES deployed, registered, announced   \* sets of model ids

launch == <<deployed, registered, announced>>

LaunchInit == deployed = {} /\ registered = {} /\ announced = {}

DeployModel(id) ==
  /\ id \notin deployed
  /\ deployed' = deployed \union {id}
  /\ UNCHANGED <<registered, announced>>

RegisterModel(id) ==
  /\ id \in deployed \ registered
  /\ registered' = registered \union {id}
  /\ UNCHANGED <<deployed, announced>>

AnnounceModel(id) ==
  /\ id \in registered \ announced
  /\ announced' = announced \union {id}
  /\ UNCHANGED <<deployed, registered>>

LaunchNext ==
  \E id \in Ids : DeployModel(id) \/ RegisterModel(id) \/ AnnounceModel(id)

LaunchSpec == LaunchInit /\ [][LaunchNext]_launch

=============================================================================
