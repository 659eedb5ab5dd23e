-------------------------------- MODULE MCApp --------------------------------
(***************************************************************************)
(* Instances of the smaller parts of the desktop app for TLC.  They share  *)
(* no state, so each is explored by itself: part is the one that moves,    *)
(* and the others stay at one of their initial states.                     *)
(***************************************************************************)
EXTENDS VaultProperties, Sealing, Poller, TokenCache, Injection, LogTail, IdleLock

VARIABLE part

partVars ==
    <<part, vars, sealingVars, pollerVars, tokenVars, injectionVars, logVars, idleVars>>

PartsInit ==
    /\ part \in {"files", "envelope", "poller", "tokens", "injection", "log", "idle"}
    /\ Init /\ SealingInit /\ PollerInit /\ TokenInit /\ InjectionInit /\ LogInit /\ IdleInit
    /\ part # "envelope" => /\ phrase = CHOOSE p \in Passphrases: TRUE
                            /\ file.header.cost = CHOOSE c \in Costs: TRUE
    /\ part # "idle" => limit = CHOOSE l \in Limits: TRUE

\* An envelope at its bounds stays as it is.
PartsNext ==
    /\ part' = part
    /\ IF part = "files" THEN Next ELSE UNCHANGED vars
    /\ IF part = "envelope" THEN SealingNext \/ UNCHANGED sealingVars ELSE UNCHANGED sealingVars
    /\ IF part = "poller" THEN PollerNext ELSE UNCHANGED pollerVars
    /\ IF part = "tokens" THEN TokenNext ELSE UNCHANGED tokenVars
    /\ IF part = "injection" THEN InjectionNext ELSE UNCHANGED injectionVars
    /\ IF part = "log" THEN LogNext ELSE UNCHANGED logVars
    /\ IF part = "idle" THEN IdleNext ELSE UNCHANGED idleVars

PartsSpec == PartsInit /\ [][PartsNext]_partVars
=============================================================================
