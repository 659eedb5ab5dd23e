----------------------------- MODULE LoopProofs -----------------------------
(***************************************************************************)
(* How often runs dispatch successors: a bound that every path through     *)
(* phase_handover and emergency_handover respects, and the kill switch,    *)
(* which ends the loop.                                                    *)
(***************************************************************************)
EXTENDS FleetTypes

USE DEF At, Goto, Works, Fails, Heartbeats, leaseVars, storeVars, githubVars,
        exitVars, treeVars, outsideVars

TypeInv == TypeOK /\ Capacity /\ Selected

\* Type correctness under the name the proofs below cite.
LEMMA Typed == Spec => []TypeInv
BY TypeCorrect DEF TypeInv

-----------------------------------------------------------------------------
(* The number of dispatches *)

\* Run numbers are given out in order.
Unborn == \A n \in Run : n > started => pc[n] = "unborn"

\* The dispatches a run may have got accepted by the time it reaches a step, when
\* no call went wrong and nobody terminated it.
Allowance(step) ==
    IF step \in {"drain", "release", "exited", "reawait", "emergencyAwait"} THEN 2
    ELSE IF step \in {"await", "redispatch", "failed", "emergencyDispatch"} THEN 1
    ELSE 0

Mishaps == (MaxFaults - faults) + (MaxKills - kills)
Budget == \A n \in Run : dispatches[n] <= Allowance(pc[n]) + Mishaps

\* No action lets a run exceed the allowance of the step it has reached.
LEMMA BudgetStep ==
    ASSUME TypeInv, Unborn, Budget, [Next]_vars
    PROVE  Unborn' /\ Budget'
<1>a. /\ MaxFaults \in Int /\ MaxKills \in Int
      /\ pc \in [Run -> Steps] /\ dispatches \in [RunOrNone -> Nat] /\ Run \subseteq RunOrNone
      /\ faults \in Int /\ kills \in Int
    BY ConstantsAssumption DEF TypeInv, TypeOK, ShellTypeOK, GithubTypeOK, OutsideTypeOK,
           Run, RunOrNone
<1>b. NoRun \in RunOrNone /\ NoRun \notin Run
    BY ConstantsAssumption DEF Run, RunOrNone, NoRun
<1> USE DEF Unborn, Budget, Allowance, Mishaps
<1>1. ASSUME NEW n \in Run, ReadLease(n) PROVE Unborn' /\ Budget'
    BY <1>a, <1>1 DEF ReadLease
<1>2. ASSUME NEW n \in Run, LeaseTimeout(n) PROVE Unborn' /\ Budget'
    BY <1>a, <1>2 DEF LeaseTimeout
<1>3. ASSUME NEW n \in Run, ClaimLease(n) PROVE Unborn' /\ Budget'
    BY <1>a, <1>3 DEF ClaimLease
<1>4. ASSUME NEW n \in Run, SelectSnapshot(n) PROVE Unborn' /\ Budget'
    BY <1>a, <1>4 DEF SelectSnapshot
<1>5. ASSUME NEW n \in Run, CopySnapshot(n) PROVE Unborn' /\ Budget'
    BY <1>a, <1>5 DEF CopySnapshot
<1>6. ASSUME NEW n \in Run, VerifyRestore(n) PROVE Unborn' /\ Budget'
    BY <1>a, <1>6 DEF VerifyRestore
<1>7. ASSUME NEW n \in Run, Acknowledge(n) PROVE Unborn' /\ Budget'
    BY <1>a, <1>7 DEF Acknowledge
<1>8. ASSUME NEW n \in Run, GatePoll(n) PROVE Unborn' /\ Budget'
    BY <1>a, <1>8 DEF GatePoll, ReadsEngaged, Freeze
<1>9. ASSUME NEW n \in Run, GateElapsed(n) PROVE Unborn' /\ Budget'
    BY <1>a, <1>9 DEF GateElapsed, Freeze
<1>10. ASSUME NEW n \in Run, PublishManifest(n) PROVE Unborn' /\ Budget'
    BY <1>a, <1>10 DEF PublishManifest, SendManifest, Dies
<1>11. ASSUME NEW n \in Run, Upload(n) PROVE Unborn' /\ Budget'
    BY <1>a, <1>11 DEF Upload, Dies
<1>12. ASSUME NEW n \in Run, CheckUpload(n) PROVE Unborn' /\ Budget'
    BY <1>a, <1>12 DEF CheckUpload
<1>13. ASSUME NEW n \in Run, PublishCommit(n) PROVE Unborn' /\ Budget'
    BY <1>a, <1>13 DEF PublishCommit
<1>14. ASSUME NEW n \in Run, AdoptCommit(n) PROVE Unborn' /\ Budget'
    BY <1>a, <1>14 DEF AdoptCommit
<1>15. ASSUME NEW n \in Run, Purge(n) PROVE Unborn' /\ Budget'
    BY <1>a, <1>15 DEF Purge
<1>16. ASSUME NEW n \in Run, FinishBackup(n) PROVE Unborn' /\ Budget'
    BY <1>a, <1>16 DEF FinishBackup
<1>17. ASSUME NEW n \in Run, CheckBeforeHandover(n) PROVE Unborn' /\ Budget'
    BY <1>a, <1>17 DEF CheckBeforeHandover, ReadsEngaged, ReadsClear
<1>18. ASSUME NEW n \in Run, Dispatch(n) PROVE Unborn' /\ Budget'
    BY <1>a, <1>18 DEF Dispatch, DispatchSuccessor, Enqueue
<1>19. ASSUME NEW n \in Run, Redispatch(n) PROVE Unborn' /\ Budget'
    BY <1>a, <1>19 DEF Redispatch, DispatchSuccessor, Enqueue
<1>20. ASSUME NEW n \in Run, AckSeen(n) PROVE Unborn' /\ Budget'
    BY <1>a, <1>20 DEF AckSeen, AwaitSteps
<1>21. ASSUME NEW n \in Run, AckTimeout(n) PROVE Unborn' /\ Budget'
    <2>1. \/ pc[n] = "await" /\ pc' = [pc EXCEPT ![n] = "redispatch"]
          \/ pc[n] \in {"reawait", "emergencyAwait"} /\ pc' = [pc EXCEPT ![n] = "drain"]
        BY <1>21 DEF AckTimeout, AwaitSteps, AfterTimeout
    <2> QED BY <1>a, <1>21, <2>1 DEF AckTimeout
<1>22. ASSUME NEW n \in Run, EnterEmergency(n) PROVE Unborn' /\ Budget'
    BY <1>a, <1>22 DEF EnterEmergency, ReadsEngaged, ReadsClear
<1>23. ASSUME NEW n \in Run, DispatchInEmergency(n) PROVE Unborn' /\ Budget'
    BY <1>a, <1>23 DEF DispatchInEmergency, DispatchSuccessor, Enqueue
<1>24. ASSUME NEW n \in Run, Drain(n) PROVE Unborn' /\ Budget'
    BY <1>a, <1>24 DEF Drain
<1>25. ASSUME NEW n \in Run, ReleaseLease(n) PROVE Unborn' /\ Budget'
    BY <1>a, <1>25 DEF ReleaseLease
<1>26. ASSUME NEW n \in Run, WorkloadWrites(n) PROVE Unborn' /\ Budget'
    BY <1>a, <1>26 DEF WorkloadWrites
<1>27. ASSUME NEW n \in Run, GateHeartbeat(n) PROVE Unborn' /\ Budget'
    BY <1>a, <1>27 DEF GateHeartbeat
<1>28. ASSUME NEW n \in Run, RenewWhileWaiting(n) PROVE Unborn' /\ Budget'
    BY <1>a, <1>28 DEF RenewWhileWaiting, WriteLease
<1>29. ASSUME NEW n \in Run, Terminate(n) PROVE Unborn' /\ Budget'
    BY <1>a, <1>29 DEF Terminate, Live, Ended
<1>30. ASSUME NEW n \in Run, Kill(n) PROVE Unborn' /\ Budget'
    BY <1>a, <1>30 DEF Kill, Live, Ended
<1>31. ASSUME Start PROVE Unborn' /\ Budget'
    <2>1. started + 1 \in Run /\ started \in Nat
        BY <1>31, QueueStarts DEF Start, TypeInv, TypeOK, GithubTypeOK, RunOrNone
    <2>2. pc[started + 1] = "unborn" BY <2>1
    <2>3. /\ started' = started + 1
          /\ \/ pc' = [pc EXCEPT ![started + 1] = "lease"] /\ faults' = faults
             \/ pc' = [pc EXCEPT ![started + 1] = "failed"] /\ faults' = faults - 1
          /\ UNCHANGED <<dispatches, kills>>
        BY <1>31 DEF Start
    <2>4. Unborn'
        <3>1. \A m \in Run : m > started + 1 => m > started /\ m # started + 1
            BY <2>1 DEF Run
        <3> QED BY <1>a, <2>1, <2>3, <3>1
    <2>5. Budget'
        <3> SUFFICES ASSUME NEW m \in Run PROVE (dispatches[m] <= Allowance(pc[m]) + Mishaps)'
            OBVIOUS
        <3>1. CASE m = started + 1 BY <1>a, <2>1, <2>2, <2>3, <3>1
        <3>2. CASE m # started + 1 BY <1>a, <2>1, <2>3, <3>2
        <3> QED BY <3>1, <3>2
    <2> QED BY <2>4, <2>5
<1>32. ASSUME LeaseAges \/ HeartbeatAges \/ HeartbeatsLost PROVE Unborn' /\ Budget'
    BY <1>a, <1>32 DEF LeaseAges, HeartbeatAges, HeartbeatsLost
<1>33. ASSUME Watchdog PROVE Unborn' /\ Budget'
    BY <1>a, <1>b, <1>33 DEF Watchdog, WatchdogCheck, WatchdogRead, WatchdogDispatch,
           ReadsClear, Enqueue
<1>34. ASSUME Operator PROVE Unborn' /\ Budget'
    BY <1>a, <1>b, <1>34 DEF Operator, EngageKillSwitch, ClearKillSwitch, SetKillSwitch,
       Failover, ManualDispatch, Enqueue
<1>35. ASSUME UNCHANGED vars PROVE Unborn' /\ Budget'
    BY <1>a, <1>35 DEF vars
<1> QED
    BY <1>1, <1>2, <1>3, <1>4, <1>5, <1>6, <1>7, <1>8, <1>9, <1>10, <1>11, <1>12,
       <1>13, <1>14, <1>15, <1>16, <1>17, <1>18, <1>19, <1>20, <1>21, <1>22, <1>23, <1>24,
       <1>25, <1>26, <1>27, <1>28, <1>29, <1>30, <1>31, <1>32, <1>33, <1>34, <1>35
    DEF Next, Progress, Background, Disturbance

\* A run gets at most two dispatches accepted, and one more for each call that
\* went wrong and each termination, whichever of the handover paths it took.
THEOREM BoundedDispatches == Spec => []DispatchesAreBounded
<1>1. Init => Unborn /\ Budget
    BY ConstantsAssumption DEF Init, Unborn, Budget, Allowance, Mishaps, Run, RunOrNone
<1>2. TypeInv /\ Unborn /\ Budget /\ [Next]_vars => (Unborn /\ Budget)'
    BY BudgetStep
<1>3. TypeInv /\ Budget => DispatchesAreBounded
    <2> SUFFICES ASSUME TypeInv, Budget, NEW n \in Run
                 PROVE  dispatches[n] <= 2 + (MaxFaults - faults) + (MaxKills - kills)
        BY DEF DispatchesAreBounded
    <2>1. dispatches[n] \in Int /\ faults \in Int /\ kills \in Int /\ MaxFaults \in Int /\ MaxKills \in Int
        BY ConstantsAssumption DEF TypeInv, TypeOK, GithubTypeOK, OutsideTypeOK, Run, RunOrNone
    <2> QED BY <2>1 DEF Budget, Allowance, Mishaps
<1> QED BY <1>1, <1>2, <1>3, Typed, PTL DEF Spec

-----------------------------------------------------------------------------
(* The kill switch *)

\* What a run that met the kill switch in time can still be doing: it never gets
\* to a step that dispatches, unless its credentials are gone.
Barred ==
    \A n \in sealed :
        /\ killSwitch
        /\ pc[n] \notin {"dispatch", "await", "redispatch", "reawait"}
        /\ pc[n] = "emergencyDispatch" => scrubbed[n]

\* No action takes a barred run to a dispatch, or unbars it while the switch is on.
LEMMA BarredStep ==
    ASSUME "killswitch" \notin Faults, TypeInv, Barred, [Next]_vars
    PROVE  Barred'
<1>a. pc \in [Run -> Steps] /\ scrubbed \in [Run -> BOOLEAN] /\ sealed \subseteq Run
    BY DEF TypeInv, TypeOK, ShellTypeOK, OutsideTypeOK
<1> USE DEF Barred
<1>1. ASSUME NEW n \in Run, ReadLease(n) PROVE Barred'
    BY <1>a, <1>1 DEF ReadLease
<1>2. ASSUME NEW n \in Run, LeaseTimeout(n) PROVE Barred'
    BY <1>a, <1>2 DEF LeaseTimeout
<1>3. ASSUME NEW n \in Run, ClaimLease(n) PROVE Barred'
    BY <1>a, <1>3 DEF ClaimLease
<1>4. ASSUME NEW n \in Run, SelectSnapshot(n) PROVE Barred'
    BY <1>a, <1>4 DEF SelectSnapshot
<1>5. ASSUME NEW n \in Run, CopySnapshot(n) PROVE Barred'
    BY <1>a, <1>5 DEF CopySnapshot
<1>6. ASSUME NEW n \in Run, VerifyRestore(n) PROVE Barred'
    BY <1>a, <1>6 DEF VerifyRestore
<1>7. ASSUME NEW n \in Run, Acknowledge(n) PROVE Barred'
    BY <1>a, <1>7 DEF Acknowledge
<1>8. ASSUME NEW n \in Run, GatePoll(n) PROVE Barred'
    BY <1>a, <1>8 DEF GatePoll, ReadsEngaged, Freeze
<1>9. ASSUME NEW n \in Run, GateElapsed(n) PROVE Barred'
    BY <1>a, <1>9 DEF GateElapsed, Freeze
<1>10. ASSUME NEW n \in Run, PublishManifest(n) PROVE Barred'
    BY <1>a, <1>10 DEF PublishManifest, SendManifest, Dies
<1>11. ASSUME NEW n \in Run, Upload(n) PROVE Barred'
    BY <1>a, <1>11 DEF Upload, Dies
<1>12. ASSUME NEW n \in Run, CheckUpload(n) PROVE Barred'
    BY <1>a, <1>12 DEF CheckUpload
<1>13. ASSUME NEW n \in Run, PublishCommit(n) PROVE Barred'
    BY <1>a, <1>13 DEF PublishCommit
<1>14. ASSUME NEW n \in Run, AdoptCommit(n) PROVE Barred'
    BY <1>a, <1>14 DEF AdoptCommit
<1>15. ASSUME NEW n \in Run, Purge(n) PROVE Barred'
    BY <1>a, <1>15 DEF Purge
<1>16. ASSUME NEW n \in Run, FinishBackup(n) PROVE Barred'
    BY <1>a, <1>16 DEF FinishBackup
<1>17. ASSUME NEW n \in Run, CheckBeforeHandover(n) PROVE Barred'
    BY <1>a, <1>17 DEF CheckBeforeHandover, ReadsEngaged, ReadsClear
<1>18. ASSUME NEW n \in Run, Dispatch(n) PROVE Barred'
    BY <1>a, <1>18 DEF Dispatch, DispatchSuccessor
<1>19. ASSUME NEW n \in Run, Redispatch(n) PROVE Barred'
    BY <1>a, <1>19 DEF Redispatch, DispatchSuccessor
<1>20. ASSUME NEW n \in Run, AckSeen(n) PROVE Barred'
    BY <1>a, <1>20 DEF AckSeen, AwaitSteps
<1>21. ASSUME NEW n \in Run, AckTimeout(n) PROVE Barred'
    <2>1. \/ pc[n] = "await" /\ pc' = [pc EXCEPT ![n] = "redispatch"]
          \/ pc[n] \in {"reawait", "emergencyAwait"} /\ pc' = [pc EXCEPT ![n] = "drain"]
        BY <1>21 DEF AckTimeout, AwaitSteps, AfterTimeout
    <2> QED BY <1>a, <1>21, <2>1 DEF AckTimeout
<1>22. ASSUME NEW n \in Run, EnterEmergency(n) PROVE Barred'
    BY <1>a, <1>22 DEF EnterEmergency, ReadsEngaged, ReadsClear, RcloneWorks
<1>23. ASSUME NEW n \in Run, DispatchInEmergency(n) PROVE Barred'
    BY <1>a, <1>23 DEF DispatchInEmergency, DispatchSuccessor
<1>24. ASSUME NEW n \in Run, Drain(n) PROVE Barred'
    BY <1>a, <1>24 DEF Drain
<1>25. ASSUME NEW n \in Run, ReleaseLease(n) PROVE Barred'
    BY <1>a, <1>25 DEF ReleaseLease
<1>26. ASSUME NEW n \in Run, WorkloadWrites(n) PROVE Barred'
    BY <1>a, <1>26 DEF WorkloadWrites
<1>27. ASSUME NEW n \in Run, GateHeartbeat(n) PROVE Barred'
    BY <1>a, <1>27 DEF GateHeartbeat
<1>28. ASSUME NEW n \in Run, RenewWhileWaiting(n) PROVE Barred'
    BY <1>a, <1>28 DEF RenewWhileWaiting, WriteLease
<1>29. ASSUME NEW n \in Run, Terminate(n) PROVE Barred'
    BY <1>a, <1>29 DEF Terminate, Live, Ended
<1>30. ASSUME NEW n \in Run, Kill(n) PROVE Barred'
    BY <1>a, <1>30 DEF Kill, Live, Ended
<1>31. ASSUME Start PROVE Barred'
    <2>1. started + 1 \in Run
        BY <1>31, QueueStarts DEF Start, TypeInv
    <2>2. /\ \/ pc' = [pc EXCEPT ![started + 1] = "lease"]
             \/ pc' = [pc EXCEPT ![started + 1] = "failed"]
          /\ sealed' = IF killSwitch THEN sealed \union {started + 1} ELSE sealed
          /\ UNCHANGED <<killSwitch, scrubbed>>
        BY <1>31 DEF Start
    <2> QED BY <1>a, <2>1, <2>2
<1>32. ASSUME LeaseAges \/ HeartbeatAges \/ HeartbeatsLost PROVE Barred'
    BY <1>a, <1>32 DEF LeaseAges, HeartbeatAges, HeartbeatsLost
<1>33. ASSUME Watchdog PROVE Barred'
    BY <1>a, <1>33 DEF Watchdog, WatchdogCheck, WatchdogRead, WatchdogDispatch, ReadsClear
<1>34. ASSUME EngageKillSwitch \/ ClearKillSwitch PROVE Barred'
    BY <1>a, <1>34 DEF EngageKillSwitch, ClearKillSwitch, SetKillSwitch, Unchecked, Ended
<1>35. ASSUME Failover \/ ManualDispatch PROVE Barred'
    BY <1>a, <1>35 DEF Failover, ManualDispatch
<1>36. ASSUME UNCHANGED vars PROVE Barred'
    BY <1>a, <1>36 DEF vars
<1> QED
    BY <1>1, <1>2, <1>3, <1>4, <1>5, <1>6, <1>7, <1>8, <1>9, <1>10, <1>11, <1>12,
       <1>13, <1>14, <1>15, <1>16, <1>17, <1>18, <1>19, <1>20, <1>21, <1>22, <1>23, <1>24,
       <1>25, <1>26, <1>27, <1>28, <1>29, <1>30, <1>31, <1>32, <1>33, <1>34, <1>35, <1>36
    DEF Next, Progress, Background, Disturbance, Watchdog, Operator

\* A barred run gets no dispatch accepted in any step.
LEMMA BarredRunsDispatchNobody ==
    ASSUME TypeInv, Barred, [Next]_vars, NEW m \in sealed
    PROVE  dispatches'[m] = dispatches[m]
<1>a. dispatches \in [RunOrNone -> Nat] /\ m \in Run /\ NoRun # m /\ Run \subseteq RunOrNone
    <2>1. m \in Run BY DEF TypeInv, TypeOK, OutsideTypeOK
    <2>2. dispatches \in [RunOrNone -> Nat] BY DEF TypeInv, TypeOK, GithubTypeOK
    <2> QED BY <2>1, <2>2, ConstantsAssumption DEF Run, RunOrNone, NoRun
<1>1. CASE \E n \in Run : Dispatch(n) \/ Redispatch(n) \/ DispatchInEmergency(n)
    BY <1>a, <1>1 DEF Barred, Dispatch, Redispatch, DispatchInEmergency, DispatchSuccessor,
           Enqueue
<1>2. CASE Watchdog \/ Failover \/ ManualDispatch
    BY <1>a, <1>2 DEF Watchdog, WatchdogCheck, WatchdogRead, WatchdogDispatch, Failover,
           ManualDispatch, Enqueue
<1>3. CASE UNCHANGED dispatches
    BY <1>3
<1>4. \A n \in Run : Progress(n) => \/ Dispatch(n) \/ Redispatch(n) \/ DispatchInEmergency(n)
                                    \/ UNCHANGED dispatches
    <2> SUFFICES ASSUME NEW n \in Run, Progress(n)
                 PROVE  \/ Dispatch(n) \/ Redispatch(n) \/ DispatchInEmergency(n)
                        \/ UNCHANGED dispatches
        OBVIOUS
    <2>1. CASE ReadLease(n) \/ LeaseTimeout(n) \/ ClaimLease(n) \/ SelectSnapshot(n) \/ CopySnapshot(n) \/ VerifyRestore(n) \/ Acknowledge(n)
        BY <2>1 DEF ReadLease, LeaseTimeout, ClaimLease, SelectSnapshot, CopySnapshot,
               VerifyRestore, Acknowledge
    <2>2. CASE GatePoll(n) \/ GateElapsed(n)
        BY <2>2 DEF GatePoll, GateElapsed
    <2>3. CASE PublishManifest(n) \/ Upload(n) \/ CheckUpload(n) \/ PublishCommit(n) \/ AdoptCommit(n) \/ Purge(n) \/ FinishBackup(n)
        BY <2>3 DEF PublishManifest, Upload, CheckUpload, PublishCommit, AdoptCommit, Purge,
               FinishBackup
    <2>4. CASE CheckBeforeHandover(n) \/ AckSeen(n) \/ AckTimeout(n) \/ EnterEmergency(n) \/ Drain(n) \/ ReleaseLease(n)
        BY <2>4 DEF CheckBeforeHandover, AckSeen, AckTimeout, EnterEmergency, Drain,
               ReleaseLease
    <2> QED BY <2>1, <2>2, <2>3, <2>4 DEF Progress
<1>5. (\E n \in Run : Background(n) \/ Disturbance(n)) => UNCHANGED dispatches
    BY DEF Background, Disturbance, WorkloadWrites, GateHeartbeat, RenewWhileWaiting,
           Terminate, Kill
<1>6. Start \/ LeaseAges \/ HeartbeatAges \/ HeartbeatsLost \/ EngageKillSwitch \/ ClearKillSwitch \/ UNCHANGED vars
          => UNCHANGED dispatches
    BY DEF Start, LeaseAges, HeartbeatAges, HeartbeatsLost, EngageKillSwitch, ClearKillSwitch, SetKillSwitch,
           vars
<1> QED BY <1>1, <1>2, <1>3, <1>4, <1>5, <1>6 DEF Next, Operator

\* As long as reading the marker does not fail, a run that has yet to look at the
\* kill switch when it is engaged, or starts while it is, dispatches nobody.
THEOREM KillSwitchIsFinal == "killswitch" \notin Faults => (Spec => KillSwitchEndsLoop)
<1> SUFFICES ASSUME "killswitch" \notin Faults PROVE Spec => KillSwitchEndsLoop OBVIOUS
<1>1. Init => Barred BY DEF Init, Barred
<1>2. TypeInv /\ Barred /\ [Next]_vars => Barred' BY BarredStep
<1>3. TypeInv /\ Barred /\ [Next]_vars
          => [\A n \in sealed : dispatches'[n] = dispatches[n]]_vars
    BY BarredRunsDispatchNobody
<1> QED BY <1>1, <1>2, <1>3, Typed, PTL DEF Spec, KillSwitchEndsLoop
=============================================================================
