------------------------------- MODULE MCFleet -------------------------------
(* Instances of the fleet for TLC; each configuration gives the constants. *)
EXTENDS FleetProperties

\* Kill switch reads fail open, so a failed one lets a dispatch through.
FaultsButKillSwitch == FaultKinds \ {"killswitch"}
=============================================================================
