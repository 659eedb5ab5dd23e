-------------------------------- MODULE Fleet --------------------------------
(***************************************************************************)
(* The whole loop: runs of lifecycle.sh started by GitHub, the scheduled   *)
(* watchdog, the operator's desktop commands, and runs that are cancelled  *)
(* or reclaimed at any step.                                               *)
(***************************************************************************)
EXTENDS Snapshot, Handover

(* The life of a run *)

\* GitHub starts the script of a dispatched run, in any order; parse_args sets
\* LAST_GOOD_COMMIT to the commit input, and phase_preflight tries Drive.
Start ==
    \E r \in queue :
        LET n == started + 1 IN
        /\ started' = n
        /\ queue' = queue \ {r}
        /\ lastGood' = [lastGood EXCEPT ![n] = r.commit]
        /\ sealed' = IF killSwitch THEN sealed \union {n} ELSE sealed
        /\ \/ Works /\ Heartbeats /\ Goto(n, "lease")
           \/ Fails("preflight") /\ UNCHANGED heartbeat /\ Goto(n, "failed")
        /\ UNCHANGED <<leaseVars, killSwitch, storeVars, ack, dispatches, reason,
                       handoverDone, scrubbed, treeVars, appSwitch, watchdog,
                       kills, commands>>

\* A turn of the runtime gate before FREEZE_AT_MINUTES: the heartbeat.
GateHeartbeat(n) ==
    /\ At(n, "running")
    /\ Heartbeats
    /\ UNCHANGED <<leaseVars, killSwitch, storeVars, ack, githubVars, pc,
                   exitVars, treeVars, outsideVars, faults>>

\* Mutant: an engaged kill switch ends the run at once.
GatePollDrains(n) ==
    /\ At(n, "running") /\ PollSet
    /\ ReadsEngaged
    /\ reason' = [reason EXCEPT ![n] = "killswitch"]
    /\ Goto(n, "drain")
    /\ UNCHANGED <<leaseVars, heartbeat, killSwitch, storeVars, ack, githubVars,
                   lastGood, handoverDone, scrubbed, treeVars, outsideVars>>

\* The gate's poll of the kill switch; one that reads "clear" changes nothing.
\* When the interval is not set, the first turn exits under set -u before it reads.
GatePoll(n) ==
    /\ At(n, "running")
    /\ IF PollSet
       THEN ReadsEngaged /\ reason' = [reason EXCEPT ![n] = "killswitch"] /\ Freeze(n)
       ELSE Goto(n, "failed") /\ UNCHANGED <<heartbeat, reason, faults>>
    /\ UNCHANGED <<leaseVars, killSwitch, storeVars, ack, githubVars, lastGood,
                   handoverDone, scrubbed, treeVars, outsideVars>>

\* FREEZE_AT_MINUTES have passed.  Without the poll interval the gate gets here
\* only when they passed before its first turn, which a restore never takes.
GateElapsed(n) ==
    /\ At(n, "running") /\ PollSet
    /\ Freeze(n)
    /\ UNCHANGED <<leaseVars, killSwitch, storeVars, ack, githubVars,
                   exitVars, treeVars, outsideVars, faults>>

\* Everything a run does of its own accord, its timeouts included.
Progress(n) ==
    \/ ReadLease(n) \/ LeaseTimeout(n) \/ ClaimLease(n)
    \/ SelectSnapshot(n) \/ CopySnapshot(n) \/ VerifyRestore(n) \/ Acknowledge(n)
    \/ GatePoll(n) \/ GateElapsed(n)
    \/ PublishManifest(n) \/ Upload(n) \/ CheckUpload(n) \/ PublishCommit(n)
    \/ AdoptCommit(n) \/ Purge(n) \/ FinishBackup(n)
    \/ CheckBeforeHandover(n) \/ Dispatch(n) \/ Redispatch(n)
    \/ AckSeen(n) \/ AckTimeout(n)
    \/ EnterEmergency(n) \/ DispatchInEmergency(n)
    \/ Drain(n) \/ ReleaseLease(n)

\* What happens in a run besides: none of it is needed for progress.
Background(n) == WorkloadWrites(n) \/ GateHeartbeat(n) \/ RenewWhileWaiting(n)

-----------------------------------------------------------------------------
(* What ends a run from outside *)

\* SIGTERM or SIGINT: exit 143 or 130, and the EXIT trap runs the emergency
\* handover unless HANDOVER_DONE is set (in the handover itself no trap is left).
Terminate(n) ==
    /\ Live(n) /\ kills > 0
    /\ Goto(n, IF handoverDone[n] THEN "exited" ELSE "failed")
    /\ kills' = kills - 1
    /\ UNCHANGED <<leaseVars, heartbeat, killSwitch, storeVars, ack, githubVars,
                   exitVars, treeVars, appSwitch, watchdog, sealed, commands, faults>>

\* The runner is reclaimed, or killed at the end of the grace period.
Kill(n) ==
    /\ Live(n) /\ kills > 0
    /\ Goto(n, "exited")
    /\ kills' = kills - 1
    /\ UNCHANGED <<leaseVars, heartbeat, killSwitch, storeVars, ack, githubVars,
                   exitVars, treeVars, appSwitch, watchdog, sealed, commands, faults>>

\* STALE_AFTER_SECONDS pass without a heartbeat: not while some run is in the
\* runtime gate or waiting for an ack, where it beats every minute or less.
HeartbeatAges ==
    /\ "heartbeat" \in MayAge
    /\ heartbeat = "fresh"
    /\ \A n \in Run : pc[n] \notin {"running"} \union AwaitSteps
    /\ heartbeat' = "stale"
    /\ UNCHANGED <<leaseVars, killSwitch, storeVars, ack, githubVars, pc,
                   exitVars, treeVars, outsideVars, faults>>

\* A live node's heartbeats fail for as long: it looks dead.
HeartbeatsLost ==
    /\ "heartbeat" \in MayAge
    /\ heartbeat = "fresh"
    /\ Fails("heartbeat")
    /\ heartbeat' = "stale"
    /\ UNCHANGED <<leaseVars, killSwitch, storeVars, ack, githubVars, pc,
                   exitVars, treeVars, outsideVars>>

-----------------------------------------------------------------------------
(* The watchdog (runner/watchdog.sh) and the operator *)

WatchdogCheck ==
    /\ Scheduled /\ watchdog = "off"
    /\ ReadsClear
    /\ watchdog' = "heartbeat"
    /\ UNCHANGED <<leaseVars, heartbeat, killSwitch, storeVars, ack, githubVars, pc,
                   exitVars, treeVars, appSwitch, sealed, kills, commands>>

\* Mutant: any heartbeat at all is taken for a healthy node.
WatchdogReadAny ==
    /\ watchdog = "heartbeat"
    /\ watchdog' = IF heartbeat = "none" THEN "dispatch" ELSE "off"
    /\ UNCHANGED <<leaseVars, heartbeat, killSwitch, storeVars, ack, githubVars, pc,
                   exitVars, treeVars, appSwitch, sealed, kills, commands, faults>>

\* A heartbeat that cannot be read is taken for one that was never written.
WatchdogRead ==
    /\ watchdog = "heartbeat"
    /\ \/ Works /\ watchdog' = IF heartbeat = "fresh" THEN "off" ELSE "dispatch"
       \/ Fails("heartbeat") /\ watchdog' = "dispatch"
    /\ UNCHANGED <<leaseVars, heartbeat, killSwitch, storeVars, ack, githubVars, pc,
                   exitVars, treeVars, appSwitch, sealed, kills, commands>>

\* The commit input is empty.  A failed dispatch ends the watchdog's run.
WatchdogDispatch ==
    /\ watchdog = "dispatch"
    /\ \/ Works /\ Enqueue(NoRun, NoRun)
       \/ ((~HasCapacity /\ Works) \/ Fails("dispatch")) /\ UNCHANGED githubVars
    /\ watchdog' = "off"
    /\ UNCHANGED <<leaseVars, heartbeat, killSwitch, storeVars, ack, pc,
                   exitVars, treeVars, appSwitch, sealed, kills, commands>>

Command(name) == name \in Commands /\ commands > 0 /\ commands' = commands - 1

\* The runs that have yet to look at the kill switch before they may dispatch.
Unchecked == {n \in Run : pc[n] \in Steps \ (Ended \union
                 {"dispatch", "await", "redispatch", "reawait", "emergencyDispatch"})}

\* node_set_kill_switch sets the app's flag, then the marker on Drive; a marker
\* that cannot be written is only reported.
SetKillSwitch(engaged) ==
    /\ appSwitch' = engaged
    /\ \/ /\ Works
          /\ killSwitch' = engaged
          /\ sealed' = IF engaged THEN sealed \union Unchecked ELSE {}
       \/ Fails("marker") /\ UNCHANGED <<killSwitch, sealed>>
    /\ UNCHANGED <<leaseVars, heartbeat, storeVars, ack, githubVars, pc,
                   exitVars, treeVars, watchdog, kills>>

EngageKillSwitch == Command("engage") /\ SetKillSwitch(TRUE)
ClearKillSwitch == Command("clear") /\ SetKillSwitch(FALSE)

\* node_dispatch looks at the app's flag, not at the marker, and names no commit.
Failover ==
    /\ Command("failover") /\ ~appSwitch
    /\ Enqueue(NoRun, NoRun)
    /\ UNCHANGED <<leaseVars, heartbeat, killSwitch, storeVars, ack, pc,
                   exitVars, treeVars, appSwitch, watchdog, sealed, kills, faults>>

\* The operator starts the workflow by hand in the Actions tab.
ManualDispatch ==
    /\ Command("manual")
    /\ Enqueue(NoRun, NoRun)
    /\ UNCHANGED <<leaseVars, heartbeat, killSwitch, storeVars, ack, pc,
                   exitVars, treeVars, appSwitch, watchdog, sealed, kills, faults>>

-----------------------------------------------------------------------------

Watchdog == WatchdogCheck \/ WatchdogRead \/ WatchdogDispatch
Operator == EngageKillSwitch \/ ClearKillSwitch \/ Failover \/ ManualDispatch
Disturbance(n) == Terminate(n) \/ Kill(n)

Next ==
    \/ Start
    \/ \E n \in Run : Progress(n) \/ Background(n) \/ Disturbance(n)
    \/ LeaseAges \/ HeartbeatAges \/ HeartbeatsLost
    \/ Watchdog \/ Operator

Spec == Init /\ [][Next]_vars

\* A running script is scheduled and its timeouts expire; GitHub starts queued
\* runs and the scheduled watchdog; time passes.  Nothing is assumed of the
\* operator, of faults (a watchdog is not owed a failing read) and of kills.
Fairness ==
    /\ WF_vars(Start)
    /\ \A n \in Run : WF_vars(Progress(n))
    /\ WF_vars(Watchdog /\ Works)
    /\ WF_vars(HeartbeatAges)

FairSpec == Spec /\ Fairness
=============================================================================
