--------------------------- MODULE SnapshotProofs ---------------------------
(***************************************************************************)
(* What a commit record promises: nobody restores a snapshot that is still *)
(* being written, and, under a frozen workload, what is restored is what   *)
(* was committed.                                                          *)
(***************************************************************************)
EXTENDS LoopProofs

USE DEF At, Goto, Works, Fails, Heartbeats, leaseVars, storeVars, githubVars,
        exitVars, treeVars, outsideVars

-----------------------------------------------------------------------------
(* Records come last *)

Past == {"adopt", "purge", "handover", "dispatch", "await", "redispatch", "reawait",
         "failed", "emergencyDispatch", "emergencyAwait", "drain", "release", "exited"}

\* A run with a record will not write its snapshot again, and what a run restores
\* has a record.
RecordsAreFinal ==
    /\ \A n \in committed : pc[n] \in Past
    /\ \A n \in Run : base[n] # NoRun => base[n] \in committed

\* No action takes a run with a record back to writing, or a base without one.
LEMMA RecordsStep ==
    ASSUME TypeInv, Unborn, RecordsAreFinal, [Next]_vars
    PROVE  RecordsAreFinal'
<1>a. /\ pc \in [Run -> Steps] /\ base \in [Run -> RunOrNone] /\ committed \subseteq Run
      /\ started \in RunOrNone
    BY DEF TypeInv, TypeOK, ShellTypeOK, TreeTypeOK, StoreTypeOK, GithubTypeOK
<1>b. Newest # NoRun => Newest \in committed BY NewestIsCommitted DEF TypeInv
<1> USE DEF RecordsAreFinal, Past
<1>1. ASSUME NEW n \in Run, ReadLease(n) PROVE RecordsAreFinal'
    BY <1>a, <1>1 DEF ReadLease
<1>2. ASSUME NEW n \in Run, LeaseTimeout(n) PROVE RecordsAreFinal'
    BY <1>a, <1>2 DEF LeaseTimeout
<1>3. ASSUME NEW n \in Run, ClaimLease(n) PROVE RecordsAreFinal'
    BY <1>a, <1>3 DEF ClaimLease
<1>4. ASSUME NEW n \in Run, SelectSnapshot(n) PROVE RecordsAreFinal'
    BY <1>a, <1>b, <1>4 DEF SelectSnapshot
<1>5. ASSUME NEW n \in Run, CopySnapshot(n) PROVE RecordsAreFinal'
    BY <1>a, <1>5 DEF CopySnapshot
<1>6. ASSUME NEW n \in Run, VerifyRestore(n) PROVE RecordsAreFinal'
    BY <1>a, <1>6 DEF VerifyRestore
<1>7. ASSUME NEW n \in Run, Acknowledge(n) PROVE RecordsAreFinal'
    BY <1>a, <1>7 DEF Acknowledge
<1>8. ASSUME NEW n \in Run, GatePoll(n) PROVE RecordsAreFinal'
    BY <1>a, <1>8 DEF GatePoll, ReadsEngaged, Freeze
<1>9. ASSUME NEW n \in Run, GateElapsed(n) PROVE RecordsAreFinal'
    BY <1>a, <1>9 DEF GateElapsed, Freeze
<1>10. ASSUME NEW n \in Run, PublishManifest(n) PROVE RecordsAreFinal'
    BY <1>a, <1>10 DEF PublishManifest, SendManifest, Dies
<1>11. ASSUME NEW n \in Run, Upload(n) PROVE RecordsAreFinal'
    BY <1>a, <1>11 DEF Upload, Dies
<1>12. ASSUME NEW n \in Run, CheckUpload(n) PROVE RecordsAreFinal'
    BY <1>a, <1>12 DEF CheckUpload
<1>13. ASSUME NEW n \in Run, PublishCommit(n) PROVE RecordsAreFinal'
    BY <1>a, <1>13 DEF PublishCommit, WriteRecord
<1>14. ASSUME NEW n \in Run, AdoptCommit(n) PROVE RecordsAreFinal'
    BY <1>a, <1>14 DEF AdoptCommit
<1>15. ASSUME NEW n \in Run, Purge(n) PROVE RecordsAreFinal'
    BY <1>a, <1>15 DEF Purge
<1>16. ASSUME NEW n \in Run, FinishBackup(n) PROVE RecordsAreFinal'
    BY <1>a, <1>16 DEF FinishBackup
<1>17. ASSUME NEW n \in Run, CheckBeforeHandover(n) PROVE RecordsAreFinal'
    BY <1>a, <1>17 DEF CheckBeforeHandover, ReadsEngaged, ReadsClear
<1>18. ASSUME NEW n \in Run, Dispatch(n) PROVE RecordsAreFinal'
    BY <1>a, <1>18 DEF Dispatch, DispatchSuccessor
<1>19. ASSUME NEW n \in Run, Redispatch(n) PROVE RecordsAreFinal'
    BY <1>a, <1>19 DEF Redispatch, DispatchSuccessor
<1>20. ASSUME NEW n \in Run, AckSeen(n) PROVE RecordsAreFinal'
    BY <1>a, <1>20 DEF AckSeen, AwaitSteps
<1>21. ASSUME NEW n \in Run, AckTimeout(n) PROVE RecordsAreFinal'
    <2>1. pc[n] \in AwaitSteps /\ AfterTimeout(n) \in {"redispatch", "drain"}
        BY <1>21 DEF AckTimeout, AwaitSteps, AfterTimeout
    <2> QED BY <1>a, <1>21, <2>1 DEF AckTimeout, AwaitSteps
<1>22. ASSUME NEW n \in Run, EnterEmergency(n) PROVE RecordsAreFinal'
    BY <1>a, <1>22 DEF EnterEmergency, ReadsEngaged, ReadsClear
<1>23. ASSUME NEW n \in Run, DispatchInEmergency(n) PROVE RecordsAreFinal'
    BY <1>a, <1>23 DEF DispatchInEmergency, DispatchSuccessor
<1>24. ASSUME NEW n \in Run, Drain(n) PROVE RecordsAreFinal'
    BY <1>a, <1>24 DEF Drain
<1>25. ASSUME NEW n \in Run, ReleaseLease(n) PROVE RecordsAreFinal'
    BY <1>a, <1>25 DEF ReleaseLease
<1>26. ASSUME NEW n \in Run, WorkloadWrites(n) PROVE RecordsAreFinal'
    BY <1>a, <1>26 DEF WorkloadWrites
<1>27. ASSUME NEW n \in Run, GateHeartbeat(n) PROVE RecordsAreFinal'
    BY <1>a, <1>27 DEF GateHeartbeat
<1>28. ASSUME NEW n \in Run, RenewWhileWaiting(n) PROVE RecordsAreFinal'
    BY <1>a, <1>28 DEF RenewWhileWaiting, WriteLease
<1>29. ASSUME NEW n \in Run, Terminate(n) PROVE RecordsAreFinal'
    BY <1>a, <1>29 DEF Terminate, Live, Ended
<1>30. ASSUME NEW n \in Run, Kill(n) PROVE RecordsAreFinal'
    BY <1>a, <1>30 DEF Kill, Live, Ended
<1>31. ASSUME Start PROVE RecordsAreFinal'
    <2>1. started + 1 \in Run /\ started + 1 > started
        BY <1>31, QueueStarts DEF Start, TypeInv, TypeOK, GithubTypeOK, RunOrNone, Run
    <2>2. pc[started + 1] = "unborn" BY <2>1 DEF Unborn
    <2>3. /\ pc' = [pc EXCEPT ![started + 1] = "lease"] \/ pc' = [pc EXCEPT ![started + 1] = "failed"]
          /\ UNCHANGED <<storeVars, treeVars>>
        BY <1>31 DEF Start
    <2> QED BY <1>a, <2>1, <2>2, <2>3
<1>32. ASSUME LeaseAges \/ HeartbeatAges \/ HeartbeatsLost \/ Watchdog \/ Operator PROVE RecordsAreFinal'
    <2>1. UNCHANGED <<pc, storeVars, treeVars>>
        BY <1>32 DEF LeaseAges, HeartbeatAges, HeartbeatsLost, Watchdog, WatchdogCheck, WatchdogRead,
               WatchdogDispatch,
           Operator, EngageKillSwitch, ClearKillSwitch, SetKillSwitch, Failover, ManualDispatch
    <2> QED BY <2>1
<1>33. ASSUME UNCHANGED vars PROVE RecordsAreFinal'
    BY <1>33 DEF vars
<1> QED
    BY <1>1, <1>2, <1>3, <1>4, <1>5, <1>6, <1>7, <1>8, <1>9, <1>10, <1>11, <1>12,
       <1>13, <1>14, <1>15, <1>16, <1>17, <1>18, <1>19, <1>20, <1>21, <1>22, <1>23, <1>24,
       <1>25, <1>26, <1>27, <1>28, <1>29, <1>30, <1>31, <1>32, <1>33
    DEF Next, Progress, Background, Disturbance

\* A run copies and verifies only snapshots whose own run has done with them.
THEOREM RestoresFinished == Spec => []NoRestoreOfUnfinished
<1>1. Init => Unborn /\ Budget /\ RecordsAreFinal
    BY ConstantsAssumption DEF Init, Unborn, Budget, Allowance, Mishaps, RecordsAreFinal,
           Run, RunOrNone
<1>2. TypeInv /\ Unborn /\ Budget /\ [Next]_vars => (Unborn /\ Budget)' BY BudgetStep
<1>3. TypeInv /\ Unborn /\ RecordsAreFinal /\ [Next]_vars => RecordsAreFinal' BY RecordsStep
<1>4. TypeInv /\ RecordsAreFinal => NoRestoreOfUnfinished
    <2> SUFFICES ASSUME TypeInv, RecordsAreFinal, NEW n \in Run, NEW m \in Run,
                        pc[n] \in {"copy", "verify"}, base[n] = m
                 PROVE  pc[m] \notin BackupSteps
        BY DEF NoRestoreOfUnfinished
    <2>1. m # NoRun BY DEF Run, NoRun
    <2>2. pc[m] \in Past BY <2>1 DEF RecordsAreFinal
    <2> QED BY <2>2 DEF Past, BackupSteps
<1> QED BY <1>1, <1>2, <1>3, <1>4, Typed, PTL DEF Spec

-----------------------------------------------------------------------------
(* What is restored is what was committed *)

Early == {"unborn", "lease", "claim", "select", "copy", "verify", "ack"}

\* Between the manifest and the record the tree, the manifest, and whatever is
\* left of the snapshot are the same.
BackupIsFrozen ==
    \A n \in Run :
        /\ pc[n] \in {"upload", "check", "record"} =>
              manifest[n] = tree[n] /\ snapshot[n].manifest \in {Missing, tree[n]}
        /\ pc[n] = "record" => snapshot[n].files \in {Missing, tree[n]}

\* A record vouches for whatever is left of its snapshot.
RecordsVouch ==
    \A c \in committed : /\ digest[c] # Missing
                         /\ snapshot[c].manifest \in {Missing, digest[c]}
                         /\ snapshot[c].files \in {Missing, digest[c]}

\* A restored tree is the committed one, apart from the work of its own run.
RestoreIsExact ==
    \A n \in Run :
        /\ pc[n] \in {"unborn", "lease", "claim", "select", "copy"} => tree[n] = {}
        /\ pc[n] \in {"verify", "ack", "running"} /\ base[n] # NoRun
              => tree[n] \ {n} = digest[base[n]]

\* Nothing contains the work of a run before it has started its workload.
NoTrace ==
    \A n, m \in Run :
        pc[n] \in Early => /\ n \notin tree[m]
                           /\ digest[m] # Missing => n \notin digest[m]
                           /\ snapshot[m].files # Missing => n \notin snapshot[m].files

SnapshotInv == BackupIsFrozen /\ RecordsVouch /\ RestoreIsExact /\ NoTrace

\* Every action keeps tree, manifest, files and record in agreement.
LEMMA SnapshotStep ==
    ASSUME Freezes, "hash" \notin Faults, TypeInv, Unborn, RecordsAreFinal, SnapshotInv,
           [Next]_vars
    PROVE  SnapshotInv'
<1>a. /\ pc \in [Run -> Steps] /\ base \in [Run -> RunOrNone] /\ committed \subseteq Run
      /\ tree \in [Run -> Content] /\ manifest \in [Run -> {Missing} \union Content]
      /\ snapshot \in [Run -> Directory] /\ digest \in [Run -> {Missing} \union Content]
    BY DEF TypeInv, TypeOK, ShellTypeOK, TreeTypeOK, StoreTypeOK
<1>b. \A n \in committed : pc[n] \in Past BY DEF RecordsAreFinal
<1>c. \A n \in Run : base[n] # NoRun => base[n] \in committed BY DEF RecordsAreFinal
<1>d. \A n \in Run : tree[n] # Missing
    BY <1>a, MissingAssumption DEF Content
<1> USE DEF SnapshotInv, Early
<1>1. ASSUME NEW n \in Run, ReadLease(n) PROVE SnapshotInv'
    BY <1>a, <1>1 DEF ReadLease,
       BackupIsFrozen, RecordsVouch, RestoreIsExact, NoTrace
<1>2. ASSUME NEW n \in Run, LeaseTimeout(n) PROVE SnapshotInv'
    BY <1>a, <1>2 DEF LeaseTimeout,
       BackupIsFrozen, RecordsVouch, RestoreIsExact, NoTrace
<1>3. ASSUME NEW n \in Run, ClaimLease(n) PROVE SnapshotInv'
    BY <1>a, <1>3 DEF ClaimLease,
       BackupIsFrozen, RecordsVouch, RestoreIsExact, NoTrace
<1>4. ASSUME NEW n \in Run, SelectSnapshot(n) PROVE SnapshotInv'
    <2>1. \A m \in Run : m # n => base'[m] = base[m] /\ pc'[m] = pc[m]
        BY <1>a, <1>4 DEF SelectSnapshot
    <2>2. pc[n] = "select" /\ pc'[n] \in {"ack", "copy"} /\ (pc'[n] = "ack" => base'[n] = NoRun)
        BY <1>a, <1>4 DEF SelectSnapshot
    <2>3. UNCHANGED <<storeVars, tree, manifest>> BY <1>4 DEF SelectSnapshot
    <2>4. BackupIsFrozen' BY <2>1, <2>2, <2>3 DEF BackupIsFrozen
    <2>5. RecordsVouch' BY <2>3 DEF RecordsVouch
    <2>6. RestoreIsExact' BY <2>1, <2>2, <2>3 DEF RestoreIsExact
    <2>7. NoTrace' BY <2>1, <2>2, <2>3 DEF NoTrace
    <2> QED BY <2>4, <2>5, <2>6, <2>7
<1>5. ASSUME NEW n \in Run, CopySnapshot(n) PROVE SnapshotInv'
    <2>1. pc[n] = "copy" /\ base[n] \in committed /\ base[n] \in Run /\ base[n] # NoRun
        BY <1>a, <1>c, <1>5 DEF CopySnapshot, TypeInv, Selected, Run, NoRun
    <2>2. UNCHANGED <<storeVars, base, manifest>> /\ pc' \in {[pc EXCEPT ![n] = "verify"],
           [pc EXCEPT ![n] = "failed"]}
        BY <1>5 DEF CopySnapshot
    <2>3. \A m \in Run : m # n => tree'[m] = tree[m] BY <1>a, <1>5 DEF CopySnapshot
    <2>4. CASE tree' = tree /\ pc' = [pc EXCEPT ![n] = "failed"]
        BY <1>a, <2>2, <2>4 DEF BackupIsFrozen, RecordsVouch, RestoreIsExact, NoTrace
    <2>5. CASE /\ snapshot[base[n]].files # Missing /\ pc' = [pc EXCEPT ![n] = "verify"]
               /\ tree' = [tree EXCEPT ![n] = @ \union snapshot[base[n]].files]
        <3>1. tree[n] = {} BY <2>1 DEF RestoreIsExact
        <3>2. snapshot[base[n]].files = digest[base[n]] BY <2>1, <2>5 DEF RecordsVouch
        <3>3. tree'[n] = digest[base[n]] BY <1>a, <2>5, <3>1, <3>2
        <3>4. n \notin digest[base[n]] BY <2>1, <2>5, <3>2 DEF NoTrace
        <3>5. BackupIsFrozen' BY <1>a, <2>2, <2>3, <2>5 DEF BackupIsFrozen
        <3>6. RecordsVouch' BY <2>2 DEF RecordsVouch
        <3>7. tree'[n] \ {n} = digest[base[n]] BY <3>3, <3>4
        <3>8. RestoreIsExact' BY <1>a, <2>2, <2>3, <2>5, <3>7 DEF RestoreIsExact
        <3>9. \A m \in Run : pc[m] \in Early => m \notin digest[base[n]]
            BY <2>1, <2>5, <3>2 DEF NoTrace
        <3>10. NoTrace' BY <1>a, <2>1, <2>2, <2>3, <2>5, <3>3, <3>9 DEF NoTrace
        <3> QED BY <3>5, <3>6, <3>8, <3>10
    <2> QED BY <1>5, <2>4, <2>5 DEF CopySnapshot
<1>6. ASSUME NEW n \in Run, VerifyRestore(n) PROVE SnapshotInv'
    BY <1>a, <1>6 DEF VerifyRestore,
       BackupIsFrozen, RecordsVouch, RestoreIsExact, NoTrace
<1>7. ASSUME NEW n \in Run, Acknowledge(n) PROVE SnapshotInv'
    BY <1>a, <1>7 DEF Acknowledge,
       BackupIsFrozen, RecordsVouch, RestoreIsExact, NoTrace
<1>8. ASSUME NEW n \in Run, GatePoll(n) PROVE SnapshotInv'
    BY <1>a, <1>8 DEF GatePoll, ReadsEngaged, Freeze,
       BackupIsFrozen, RecordsVouch, RestoreIsExact, NoTrace
<1>9. ASSUME NEW n \in Run, GateElapsed(n) PROVE SnapshotInv'
    BY <1>a, <1>9 DEF GateElapsed, Freeze,
       BackupIsFrozen, RecordsVouch, RestoreIsExact, NoTrace
<1>10. ASSUME NEW n \in Run, PublishManifest(n) PROVE SnapshotInv'
    <2>1. pc[n] = "manifest" /\ n \notin committed BY <1>b, <1>10 DEF PublishManifest, Past
    <2>2. UNCHANGED <<committed, parent, digest, base, tree>> BY <1>10 DEF PublishManifest
    <2>3. manifest' = [manifest EXCEPT ![n] = tree[n]] BY <1>10 DEF PublishManifest
    <2>4. \/ pc' = [pc EXCEPT ![n] = "failed"] /\ snapshot' = snapshot
          \/ pc' = [pc EXCEPT ![n] = "upload"] /\ snapshot' = [snapshot EXCEPT ![n].manifest = tree[n]]
        BY <1>10 DEF PublishManifest, SendManifest, Dies
    <2>5. \A m \in Run : /\ snapshot'[m].files = snapshot[m].files
                         /\ m # n => snapshot'[m] = snapshot[m] /\ pc'[m] = pc[m]
        BY <1>a, <2>4 DEF Directory
    <2>6. pc'[n] \in {"upload",
           "failed"} /\ (pc'[n] = "upload" => snapshot'[n].manifest = tree[n])
        BY <1>a, <2>4 DEF Directory
    <2>7. BackupIsFrozen' BY <1>a, <2>2, <2>3, <2>5, <2>6 DEF BackupIsFrozen
    <2>8. RecordsVouch' BY <1>a, <2>1, <2>2, <2>5 DEF RecordsVouch
    <2>9. RestoreIsExact' BY <2>2, <2>5, <2>6 DEF RestoreIsExact
    <2>10. NoTrace' BY <2>2, <2>5, <2>6 DEF NoTrace
    <2> QED BY <2>7, <2>8, <2>9, <2>10
<1>11. ASSUME NEW n \in Run, Upload(n) PROVE SnapshotInv'
    <2>1. pc[n] = "upload" /\ n \notin committed BY <1>b, <1>11 DEF Upload, Past
    <2>2. UNCHANGED <<committed, parent, digest, treeVars>> BY <1>11 DEF Upload
    <2>3. /\ pc' \in {[pc EXCEPT ![n] = "failed"], [pc EXCEPT ![n] = "check"]}
          /\ snapshot' \in {snapshot, [snapshot EXCEPT ![n].files = tree[n]]}
        BY <1>11 DEF Upload, Dies
    <2>4. \A m \in Run : /\ snapshot'[m].manifest = snapshot[m].manifest
                         /\ m # n => snapshot'[m] = snapshot[m] /\ pc'[m] = pc[m]
        BY <1>a, <2>3 DEF Directory
    <2>5. pc'[n] \in {"check", "failed"} /\ snapshot'[n].files \in {snapshot[n].files, tree[n]}
        BY <1>a, <2>3 DEF Directory
    <2>6. BackupIsFrozen' BY <2>1, <2>2, <2>4, <2>5 DEF BackupIsFrozen
    <2>7. RecordsVouch' BY <1>a, <2>1, <2>2, <2>4 DEF RecordsVouch
    <2>8. RestoreIsExact' BY <2>2, <2>4, <2>5 DEF RestoreIsExact
    <2>9. NoTrace' BY <2>1, <2>2, <2>4, <2>5 DEF NoTrace
    <2> QED BY <2>6, <2>7, <2>8, <2>9
<1>12. ASSUME NEW n \in Run, CheckUpload(n) PROVE SnapshotInv'
    <2>1. pc[n] = "check" /\ UNCHANGED <<storeVars, treeVars>> BY <1>12 DEF CheckUpload
    <2>2. \/ pc' = [pc EXCEPT ![n] = "failed"]
          \/ pc' = [pc EXCEPT ![n] = "record"] /\ snapshot[n].files = tree[n]
        BY <1>12 DEF CheckUpload
    <2> QED BY <1>a, <2>1, <2>2 DEF BackupIsFrozen, RecordsVouch, RestoreIsExact, NoTrace
<1>13. ASSUME NEW n \in Run, PublishCommit(n) PROVE SnapshotInv'
    <2>1. pc[n] = "record" /\ n \notin committed BY <1>b, <1>13 DEF PublishCommit, Past
    <2>2. UNCHANGED <<snapshot, treeVars>> /\ pc' \in {[pc EXCEPT ![n] = "adopt"],
           [pc EXCEPT ![n] = "failed"]}
        BY <1>13 DEF PublishCommit
    <2>3. manifest[n] = tree[n] /\ snapshot[n].manifest \in {Missing, tree[n]}
          /\ snapshot[n].files \in {Missing, tree[n]}
        BY <2>1 DEF BackupIsFrozen
    <2>4. \/ UNCHANGED <<committed, digest>>
          \/ committed' = committed \union {n} /\ digest' = [digest EXCEPT ![n] = tree[n]]
        BY <1>13, <2>3 DEF PublishCommit, WriteRecord
    <2>5. \A m \in Run : m # n => digest'[m] = digest[m] /\ pc'[m] = pc[m]
        BY <1>a, <2>2, <2>4
    <2>6. pc'[n] \in {"adopt", "failed"} BY <1>a, <2>2
    <2>7. BackupIsFrozen' BY <2>2, <2>5, <2>6 DEF BackupIsFrozen
    <2>8. RecordsVouch' BY <1>a, <1>d, <2>2, <2>3, <2>4 DEF RecordsVouch
    <2>9. RestoreIsExact'
        <3>1. \A m \in Run : base[m] # NoRun => base[m] \in Run /\ digest'[base[m]] = digest[base[m]]
            BY <1>a, <1>c, <2>1, <2>5
        <3> QED BY <2>2, <2>5, <2>6, <3>1 DEF RestoreIsExact
    <2>10. NoTrace'
        <3>1. digest'[n] \in {digest[n], tree[n]} BY <1>a, <2>4
        <3> QED BY <2>2, <2>5, <2>6, <3>1 DEF NoTrace
    <2> QED BY <2>7, <2>8, <2>9, <2>10
<1>14. ASSUME NEW n \in Run, AdoptCommit(n) PROVE SnapshotInv'
    BY <1>a, <1>14 DEF AdoptCommit,
       BackupIsFrozen, RecordsVouch, RestoreIsExact, NoTrace
<1>15. ASSUME NEW n \in Run, Purge(n) PROVE SnapshotInv'
    <2>1. UNCHANGED <<committed, digest, pc, base, tree, manifest>> BY <1>15 DEF Purge
    <2>2. PICK d : snapshot' \in {snapshot,
           [snapshot EXCEPT ![d] = NoDirectory]} BY <1>15 DEF Purge
    <2>3. \A m \in Run : snapshot'[m] = snapshot[m]
                         \/ (snapshot'[m].files = Missing /\ snapshot'[m].manifest = Missing)
        BY <1>a, <2>2 DEF NoDirectory
    <2> QED BY <1>a, <2>1, <2>3 DEF BackupIsFrozen, RecordsVouch, RestoreIsExact, NoTrace
<1>16. ASSUME NEW n \in Run, FinishBackup(n) PROVE SnapshotInv'
    BY <1>a, <1>16 DEF FinishBackup,
       BackupIsFrozen, RecordsVouch, RestoreIsExact, NoTrace
<1>17. ASSUME NEW n \in Run, CheckBeforeHandover(n) PROVE SnapshotInv'
    BY <1>a, <1>17 DEF CheckBeforeHandover, ReadsEngaged, ReadsClear,
       BackupIsFrozen, RecordsVouch, RestoreIsExact, NoTrace
<1>18. ASSUME NEW n \in Run, Dispatch(n) PROVE SnapshotInv'
    BY <1>a, <1>18 DEF Dispatch, DispatchSuccessor,
       BackupIsFrozen, RecordsVouch, RestoreIsExact, NoTrace
<1>19. ASSUME NEW n \in Run, Redispatch(n) PROVE SnapshotInv'
    BY <1>a, <1>19 DEF Redispatch, DispatchSuccessor,
       BackupIsFrozen, RecordsVouch, RestoreIsExact, NoTrace
<1>20. ASSUME NEW n \in Run, AckSeen(n) PROVE SnapshotInv'
    BY <1>a, <1>20 DEF AckSeen, AwaitSteps,
       BackupIsFrozen, RecordsVouch, RestoreIsExact, NoTrace
<1>21. ASSUME NEW n \in Run, AckTimeout(n) PROVE SnapshotInv'
    <2>1. AfterTimeout(n) \in {"redispatch", "drain"} /\ pc[n] \in AwaitSteps
        BY <1>21 DEF AckTimeout, AwaitSteps, AfterTimeout
    <2> QED BY <1>a, <1>21, <2>1 DEF AckTimeout, AwaitSteps, BackupIsFrozen, RecordsVouch,
           RestoreIsExact, NoTrace
<1>22. ASSUME NEW n \in Run, EnterEmergency(n) PROVE SnapshotInv'
    BY <1>a, <1>22 DEF EnterEmergency, ReadsEngaged, ReadsClear,
       BackupIsFrozen, RecordsVouch, RestoreIsExact, NoTrace
<1>23. ASSUME NEW n \in Run, DispatchInEmergency(n) PROVE SnapshotInv'
    BY <1>a, <1>23 DEF DispatchInEmergency, DispatchSuccessor,
       BackupIsFrozen, RecordsVouch, RestoreIsExact, NoTrace
<1>24. ASSUME NEW n \in Run, Drain(n) PROVE SnapshotInv'
    BY <1>a, <1>24 DEF Drain,
       BackupIsFrozen, RecordsVouch, RestoreIsExact, NoTrace
<1>25. ASSUME NEW n \in Run, ReleaseLease(n) PROVE SnapshotInv'
    BY <1>a, <1>25 DEF ReleaseLease,
       BackupIsFrozen, RecordsVouch, RestoreIsExact, NoTrace
<1>26. ASSUME NEW n \in Run, WorkloadWrites(n) PROVE SnapshotInv'
    <2>1. pc[n] = "running" BY <1>26 DEF WorkloadWrites, WritingSteps
    <2>2. tree' = [tree EXCEPT ![n] = @ \union {n}] /\ UNCHANGED <<storeVars, pc, base,
           manifest>>
        BY <1>26 DEF WorkloadWrites
    <2>3. tree'[n] = tree[n] \union {n} /\ \A m \in Run : m # n => tree'[m] = tree[m]
        BY <1>a, <2>2
    <2>4. BackupIsFrozen' BY <2>1, <2>2, <2>3 DEF BackupIsFrozen
    <2>5. RecordsVouch' BY <2>2 DEF RecordsVouch
    <2>6. tree'[n] \ {n} = tree[n] \ {n} BY <2>3
    <2>7. RestoreIsExact' BY <2>1, <2>2, <2>3, <2>6 DEF RestoreIsExact
    <2>8. NoTrace' BY <2>1, <2>2, <2>3 DEF NoTrace
    <2> QED BY <2>4, <2>5, <2>7, <2>8
<1>27. ASSUME NEW n \in Run, GateHeartbeat(n) PROVE SnapshotInv'
    BY <1>a, <1>27 DEF GateHeartbeat,
       BackupIsFrozen, RecordsVouch, RestoreIsExact, NoTrace
<1>28. ASSUME NEW n \in Run, RenewWhileWaiting(n) PROVE SnapshotInv'
    BY <1>a, <1>28 DEF RenewWhileWaiting, WriteLease,
       BackupIsFrozen, RecordsVouch, RestoreIsExact, NoTrace
<1>29. ASSUME NEW n \in Run, Terminate(n) PROVE SnapshotInv'
    BY <1>a, <1>29 DEF Terminate, Live, Ended,
       BackupIsFrozen, RecordsVouch, RestoreIsExact, NoTrace
<1>30. ASSUME NEW n \in Run, Kill(n) PROVE SnapshotInv'
    BY <1>a, <1>30 DEF Kill, Live, Ended,
       BackupIsFrozen, RecordsVouch, RestoreIsExact, NoTrace
<1>31. ASSUME Start PROVE SnapshotInv'
    <2>1. started + 1 \in Run /\ started + 1 > started
        BY <1>31, QueueStarts DEF Start, TypeInv, TypeOK, GithubTypeOK, RunOrNone, Run
    <2>2. pc[started + 1] = "unborn" BY <2>1 DEF Unborn
    <2>3. /\ pc' = [pc EXCEPT ![started + 1] = "lease"] \/ pc' = [pc EXCEPT ![started + 1] = "failed"]
          /\ UNCHANGED <<storeVars, treeVars>>
        BY <1>31 DEF Start
    <2>4. \A m \in Run : m # started + 1 => pc'[m] = pc[m] BY <1>a, <2>1, <2>3
    <2>5. pc'[started + 1] \in {"lease", "failed"} BY <1>a, <2>1, <2>3
    <2>6. BackupIsFrozen' /\ RecordsVouch' BY <2>3, <2>4, <2>5 DEF BackupIsFrozen, RecordsVouch
    <2>7. RestoreIsExact' /\ NoTrace' BY <2>1, <2>2, <2>3, <2>4, <2>5 DEF RestoreIsExact,
           NoTrace
    <2> QED BY <2>6, <2>7
<1>32. ASSUME LeaseAges \/ HeartbeatAges \/ HeartbeatsLost \/ Watchdog \/ Operator PROVE SnapshotInv'
    <2>1. UNCHANGED <<pc, storeVars, treeVars>>
        BY <1>32 DEF LeaseAges, HeartbeatAges, HeartbeatsLost, Watchdog, WatchdogCheck, WatchdogRead,
               WatchdogDispatch,
           Operator, EngageKillSwitch, ClearKillSwitch, SetKillSwitch, Failover, ManualDispatch
    <2> QED BY <2>1 DEF BackupIsFrozen, RecordsVouch, RestoreIsExact, NoTrace
<1>33. ASSUME UNCHANGED vars PROVE SnapshotInv'
    BY <1>33 DEF vars, BackupIsFrozen, RecordsVouch, RestoreIsExact, NoTrace
<1> QED
    BY <1>1, <1>2, <1>3, <1>4, <1>5, <1>6, <1>7, <1>8, <1>9, <1>10, <1>11, <1>12,
       <1>13, <1>14, <1>15, <1>16, <1>17, <1>18, <1>19, <1>20, <1>21, <1>22, <1>23, <1>24,
       <1>25, <1>26, <1>27, <1>28, <1>29, <1>30, <1>31, <1>32, <1>33
    DEF Next, Progress, Background, Disturbance

LEMMA SnapshotsStaySound ==
    ASSUME Freezes, "hash" \notin Faults
    PROVE  Spec => [](TypeInv /\ RecordsAreFinal /\ SnapshotInv)
<1>1. Init => Unborn /\ Budget /\ RecordsAreFinal /\ SnapshotInv
    <2> SUFFICES ASSUME Init PROVE Unborn /\ Budget /\ RecordsAreFinal /\ SnapshotInv OBVIOUS
    <2>1. Unborn /\ Budget
        BY ConstantsAssumption DEF Init, Unborn, Budget, Allowance, Mishaps, Run, RunOrNone
    <2>2. RecordsAreFinal /\ BackupIsFrozen /\ RecordsVouch /\ RestoreIsExact
        BY DEF Init, RecordsAreFinal, BackupIsFrozen, RecordsVouch, RestoreIsExact
    <2>3. NoTrace BY DEF Init, NoTrace, NoDirectory
    <2> QED BY <2>1, <2>2, <2>3 DEF SnapshotInv
<1>2. TypeInv /\ Unborn /\ Budget /\ [Next]_vars => (Unborn /\ Budget)' BY BudgetStep
<1>3. TypeInv /\ Unborn /\ RecordsAreFinal /\ [Next]_vars => RecordsAreFinal' BY RecordsStep
<1>4. TypeInv /\ Unborn /\ RecordsAreFinal /\ SnapshotInv /\ [Next]_vars => SnapshotInv'
    BY SnapshotStep
<1> QED BY <1>1, <1>2, <1>3, <1>4, Typed, PTL DEF Spec

\* With a frozen workload and hashing that works, every snapshot that has a record
\* can be verified, whatever else goes wrong on Drive, and however often runs are
\* cancelled.
THEOREM SnapshotsKeepTheirPromise ==
    Freezes /\ "hash" \notin Faults => (Spec => []CommittedVerifies)
<1> SUFFICES ASSUME Freezes, "hash" \notin Faults PROVE Spec => []CommittedVerifies OBVIOUS
<1>1. SnapshotInv => CommittedVerifies BY DEF SnapshotInv, RecordsVouch, CommittedVerifies
<1> QED BY <1>1, SnapshotsStaySound, PTL

\* Under the same conditions, a run serves exactly the tree that the record of the
\* generation it restored vouches for.
THEOREM RunsServeVouchedTrees ==
    Freezes /\ "hash" \notin Faults => (Spec => []RunsOnVouchedTree)
<1> SUFFICES ASSUME Freezes, "hash" \notin Faults PROVE Spec => []RunsOnVouchedTree OBVIOUS
<1>1. SnapshotInv => RunsOnVouchedTree BY DEF SnapshotInv, RestoreIsExact, RunsOnVouchedTree
<1> QED BY <1>1, SnapshotsStaySound, PTL
-----------------------------------------------------------------------------
(* Pruning spares the newest *)

Newer(d) == {e \in Directories : e > d}
Outranked(d) == Cardinality(Newer(d)) >= Keep

\* What is about to be purged, and what a record stands for without its files,
\* has at least Keep newer directories, however many runs prune at once.
RetentionInv ==
    /\ \A n \in Run : \A d \in doomed[n] : Outranked(d)
    /\ \A n \in Run :
          (n \in committed \/ pc[n] = "record") /\ snapshot[n].files = Missing
              => Outranked(n)

\* A directory with more newer ones than another has at least as many later.
LEMMA MoreNewer ==
    ASSUME NEW A \in SUBSET Run, NEW B \in SUBSET A
    PROVE  Cardinality(B) >= Keep => Cardinality(A) >= Keep
<1>1. IsFiniteSet(Run) BY FS_Interval, ConstantsAssumption DEF Run
<1>2. IsFiniteSet(A) /\ IsFiniteSet(B) BY <1>1, FS_Subset
<1>3. Cardinality(A) \in Nat /\ Cardinality(B) \in Nat /\ Cardinality(B) <= Cardinality(A)
    BY <1>2, FS_Subset, FS_CardinalityType
<1> QED BY <1>3, ConstantsAssumption

\* As long as no directory disappears, nothing loses rank.
LEMMA RanksStay ==
    ASSUME NEW d, Directories \subseteq Directories', Outranked(d)
    PROVE  Outranked(d)'
<1>1. Newer(d) \subseteq Newer(d)' /\ Newer(d)' \subseteq Run BY DEF Newer, Directories
<1> QED BY <1>1, MoreNewer DEF Outranked

\* Purges go by rank, so one that follows another never takes away what the
\* retention counted on; and a record is written only after its files arrived.
LEMMA RetentionStep ==
    ASSUME TypeInv, RetentionInv, [Next]_vars
    PROVE  RetentionInv'
<1>a. /\ pc \in [Run -> Steps] /\ snapshot \in [Run -> Directory] /\ committed \subseteq Run
      /\ doomed \in [Run -> SUBSET Run] /\ tree \in [Run -> Content]
    BY DEF TypeInv, TypeOK, ShellTypeOK, TreeTypeOK, StoreTypeOK
<1>b. ASSUME UNCHANGED <<snapshot, committed, doomed>>,
             \A n \in Run : pc'[n] = "record" => pc[n] = "record"
      PROVE  RetentionInv'
    <2>1. Directories \subseteq Directories' BY <1>b DEF Directories
    <2> QED BY <1>b, <2>1, RanksStay DEF RetentionInv
<1>1. ASSUME NEW n \in Run, ReadLease(n) PROVE RetentionInv'
    BY <1>a, <1>b, <1>1 DEF ReadLease
<1>2. ASSUME NEW n \in Run, LeaseTimeout(n) PROVE RetentionInv'
    BY <1>a, <1>b, <1>2 DEF LeaseTimeout
<1>3. ASSUME NEW n \in Run, ClaimLease(n) PROVE RetentionInv'
    BY <1>a, <1>b, <1>3 DEF ClaimLease
<1>4. ASSUME NEW n \in Run, SelectSnapshot(n) PROVE RetentionInv'
    BY <1>a, <1>b, <1>4 DEF SelectSnapshot
<1>5. ASSUME NEW n \in Run, CopySnapshot(n) PROVE RetentionInv'
    BY <1>a, <1>b, <1>5 DEF CopySnapshot
<1>6. ASSUME NEW n \in Run, VerifyRestore(n) PROVE RetentionInv'
    BY <1>a, <1>b, <1>6 DEF VerifyRestore
<1>7. ASSUME NEW n \in Run, Acknowledge(n) PROVE RetentionInv'
    BY <1>a, <1>b, <1>7 DEF Acknowledge
<1>8. ASSUME NEW n \in Run, GatePoll(n) PROVE RetentionInv'
    BY <1>a, <1>b, <1>8 DEF GatePoll, ReadsEngaged, Freeze
<1>9. ASSUME NEW n \in Run, GateElapsed(n) PROVE RetentionInv'
    BY <1>a, <1>b, <1>9 DEF GateElapsed, Freeze
<1>10. ASSUME NEW n \in Run, PublishManifest(n) PROVE RetentionInv'
    <2>1. UNCHANGED <<committed, doomed>> BY <1>10 DEF PublishManifest
    <2>2. \/ snapshot' = snapshot /\ pc' = [pc EXCEPT ![n] = "failed"]
          \/ \E m \in Content : /\ snapshot' = [snapshot EXCEPT ![n].manifest = m]
                               /\ pc' = [pc EXCEPT ![n] = "upload"]
        <3>1. manifest \in [Run -> {Missing} \union Content]
            BY DEF TypeInv, TypeOK, TreeTypeOK
        <3> QED BY <1>a, <1>10, <3>1 DEF PublishManifest, SendManifest, Dies
    <2>3. \A m \in Run : /\ snapshot'[m].files = snapshot[m].files
                         /\ pc'[m] = "record" => pc[m] = "record"
                         /\ Exists(snapshot[m]) => Exists(snapshot'[m])
        BY <1>a, <2>2, MissingAssumption DEF Directory, Exists, NoDirectory, Content
    <2>4. Directories \subseteq Directories' BY <2>3 DEF Directories
    <2> QED BY <2>1, <2>3, <2>4, RanksStay DEF RetentionInv
<1>11. ASSUME NEW n \in Run, Upload(n) PROVE RetentionInv'
    <2>1. UNCHANGED <<committed, doomed>> BY <1>11 DEF Upload
    <2>2. /\ snapshot' \in {snapshot, [snapshot EXCEPT ![n].files = tree[n]]}
          /\ pc' \in {[pc EXCEPT ![n] = "check"], [pc EXCEPT ![n] = "failed"]}
        BY <1>11 DEF Upload, Dies
    <2>3. \A m \in Run : /\ snapshot'[m].files = Missing => snapshot[m].files = Missing
                         /\ pc'[m] = "record" => pc[m] = "record"
                         /\ Exists(snapshot[m]) => Exists(snapshot'[m])
        BY <1>a, <2>2, MissingAssumption DEF Directory, Exists, NoDirectory, Content
    <2>4. Directories \subseteq Directories' BY <2>3 DEF Directories
    <2> QED BY <2>1, <2>3, <2>4, RanksStay DEF RetentionInv
<1>12. ASSUME NEW n \in Run, CheckUpload(n) PROVE RetentionInv'
    <2>1. UNCHANGED <<snapshot, committed, doomed>> BY <1>12 DEF CheckUpload
    <2>2. \A m \in Run : pc'[m] = "record" => pc[m] = "record" \/ snapshot[m].files # Missing
        BY <1>a, <1>12, MissingAssumption DEF CheckUpload, Content
    <2>3. Directories \subseteq Directories' BY <2>1 DEF Directories
    <2> QED BY <2>1, <2>2, <2>3, RanksStay DEF RetentionInv
<1>13. ASSUME NEW n \in Run, PublishCommit(n) PROVE RetentionInv'
    <2>1. UNCHANGED <<snapshot, doomed>> /\ pc[n] = "record" BY <1>13 DEF PublishCommit
    <2>2. /\ committed' \in {committed, committed \union {n}}
          /\ pc' \in {[pc EXCEPT ![n] = "adopt"], [pc EXCEPT ![n] = "failed"]}
        BY <1>13 DEF PublishCommit, WriteRecord
    <2>3. \A m \in Run : m \in committed' \/ pc'[m] = "record"
                           => m \in committed \/ pc[m] = "record"
        BY <1>a, <2>1, <2>2
    <2>4. Directories \subseteq Directories' BY <2>1 DEF Directories
    <2> QED BY <2>1, <2>3, <2>4, RanksStay DEF RetentionInv
<1>14. ASSUME NEW n \in Run, AdoptCommit(n) PROVE RetentionInv'
    <2>1. UNCHANGED <<snapshot, committed>> /\ pc' = [pc EXCEPT ![n] = "purge"]
        BY <1>14 DEF AdoptCommit
    <2>2. doomed' \in {doomed, [doomed EXCEPT ![n] = Doomed \ {n}]} BY <1>14 DEF AdoptCommit
    <2>3. \A d \in Doomed : Outranked(d) BY DEF Doomed, Outranked, Newer
    <2>4. \A m \in Run : \A d \in doomed'[m] : Outranked(d)
        BY <1>a, <2>2, <2>3 DEF RetentionInv
    <2>5. Directories \subseteq Directories' BY <2>1 DEF Directories
    <2>6. \A m \in Run : pc'[m] = "record" => pc[m] = "record" BY <1>a, <2>1
    <2> QED BY <2>1, <2>4, <2>5, <2>6, RanksStay DEF RetentionInv
<1>15. ASSUME NEW n \in Run, Purge(n) PROVE RetentionInv'
    <2>1. UNCHANGED <<committed, pc>> BY <1>15 DEF Purge
    <2> DEFINE oldest == CHOOSE d \in doomed[n] : \A e \in doomed[n] : d <= e
    <2>2. oldest \in doomed[n]
        <3>1. doomed[n] # {} /\ doomed[n] \subseteq Nat BY <1>a, <1>15 DEF Purge, Run
        <3> QED BY <3>1, HasLeast
    <2>3. /\ doomed' = [doomed EXCEPT ![n] = @ \ {oldest}]
          /\ snapshot' \in {snapshot, [snapshot EXCEPT ![oldest] = NoDirectory]}
        BY <1>15 DEF Purge
    <2> HIDE DEF oldest
    <2>4. oldest \in Run /\ Outranked(oldest) BY <1>a, <2>2 DEF RetentionInv
    <2>5. \A m \in Run : /\ doomed'[m] \subseteq doomed[m]
                         /\ m # oldest => snapshot'[m] = snapshot[m]
        BY <1>a, <2>3, <2>4
    <2>6. Directories \ {oldest} \subseteq Directories' /\ Directories' \subseteq Run
        BY <2>5 DEF Directories
    <2>7. ASSUME NEW d \in Run, Outranked(d) PROVE Outranked(d)'
        <3>1. CASE d >= oldest
            <4>1. Newer(d) \subseteq Newer(d)' BY <2>4, <2>6, <3>1 DEF Newer, Directories, Run
            <4>2. Newer(d)' \subseteq Run BY <2>6 DEF Newer
            <4> QED BY <2>7, <4>1, <4>2, MoreNewer DEF Outranked
        <3>2. CASE d < oldest
            <4>1. Newer(oldest) \subseteq Newer(d)'
                BY <2>4, <2>6, <3>2 DEF Newer, Directories, Run
            <4>2. Newer(d)' \subseteq Run BY <2>6 DEF Newer
            <4> QED BY <2>4, <4>1, <4>2, MoreNewer DEF Outranked
        <3> QED BY <2>4, <3>1, <3>2 DEF Run
    <2>8. \A m \in Run : \A d \in doomed'[m] : Outranked(d)'
        BY <1>a, <2>5, <2>7 DEF RetentionInv
    <2>9. ASSUME NEW m \in Run, m \in committed \/ pc[m] = "record", snapshot'[m].files = Missing
          PROVE  Outranked(m)'
        <3>1. m = oldest \/ snapshot[m].files = Missing BY <2>5, <2>9
        <3>2. Outranked(m) BY <2>4, <2>9, <3>1 DEF RetentionInv
        <3> QED BY <2>7, <3>2
    <2> QED BY <2>1, <2>8, <2>9 DEF RetentionInv
<1>16. ASSUME NEW n \in Run, FinishBackup(n) PROVE RetentionInv'
    BY <1>a, <1>b, <1>16 DEF FinishBackup
<1>17. ASSUME NEW n \in Run, CheckBeforeHandover(n) PROVE RetentionInv'
    BY <1>a, <1>b, <1>17 DEF CheckBeforeHandover, ReadsEngaged, ReadsClear
<1>18. ASSUME NEW n \in Run, Dispatch(n) PROVE RetentionInv'
    BY <1>a, <1>b, <1>18 DEF Dispatch, DispatchSuccessor
<1>19. ASSUME NEW n \in Run, Redispatch(n) PROVE RetentionInv'
    BY <1>a, <1>b, <1>19 DEF Redispatch, DispatchSuccessor
<1>20. ASSUME NEW n \in Run, AckSeen(n) PROVE RetentionInv'
    BY <1>a, <1>b, <1>20 DEF AckSeen
<1>21. ASSUME NEW n \in Run, AckTimeout(n) PROVE RetentionInv'
    <2>1. pc[n] \in AwaitSteps /\ AfterTimeout(n) \in {"redispatch", "drain"}
        BY <1>21 DEF AckTimeout, AwaitSteps, AfterTimeout
    <2> QED BY <1>a, <1>b, <1>21, <2>1 DEF AckTimeout
<1>22. ASSUME NEW n \in Run, EnterEmergency(n) PROVE RetentionInv'
    BY <1>a, <1>b, <1>22 DEF EnterEmergency, ReadsEngaged, ReadsClear
<1>23. ASSUME NEW n \in Run, DispatchInEmergency(n) PROVE RetentionInv'
    BY <1>a, <1>b, <1>23 DEF DispatchInEmergency, DispatchSuccessor
<1>24. ASSUME NEW n \in Run, Drain(n) PROVE RetentionInv'
    BY <1>a, <1>b, <1>24 DEF Drain
<1>25. ASSUME NEW n \in Run, ReleaseLease(n) PROVE RetentionInv'
    BY <1>a, <1>b, <1>25 DEF ReleaseLease
<1>26. ASSUME NEW n \in Run, WorkloadWrites(n) PROVE RetentionInv'
    BY <1>a, <1>b, <1>26 DEF WorkloadWrites
<1>27. ASSUME NEW n \in Run, GateHeartbeat(n) PROVE RetentionInv'
    BY <1>a, <1>b, <1>27 DEF GateHeartbeat
<1>28. ASSUME NEW n \in Run, RenewWhileWaiting(n) PROVE RetentionInv'
    BY <1>a, <1>b, <1>28 DEF RenewWhileWaiting, WriteLease
<1>29. ASSUME NEW n \in Run, Terminate(n) PROVE RetentionInv'
    BY <1>a, <1>b, <1>29 DEF Terminate
<1>30. ASSUME NEW n \in Run, Kill(n) PROVE RetentionInv'
    BY <1>a, <1>b, <1>30 DEF Kill
<1>31. ASSUME Start PROVE RetentionInv'
    <2>1. started + 1 \in Run
        BY <1>31, QueueStarts DEF Start, TypeInv, TypeOK, GithubTypeOK, RunOrNone, Run
    <2>2. /\ pc' = [pc EXCEPT ![started + 1] = "lease"] \/ pc' = [pc EXCEPT ![started + 1] = "failed"]
          /\ UNCHANGED <<snapshot, committed, doomed>>
        BY <1>31 DEF Start
    <2> QED BY <1>a, <1>b, <2>1, <2>2
<1>32. ASSUME LeaseAges \/ HeartbeatAges \/ HeartbeatsLost \/ Watchdog \/ Operator PROVE RetentionInv'
    <2>1. UNCHANGED <<pc, snapshot, committed, doomed>>
        BY <1>32 DEF LeaseAges, HeartbeatAges, HeartbeatsLost, Watchdog, WatchdogCheck, WatchdogRead,
           WatchdogDispatch,
           Operator, EngageKillSwitch, ClearKillSwitch, SetKillSwitch, Failover, ManualDispatch
    <2> QED BY <1>b, <2>1
<1>33. ASSUME UNCHANGED vars PROVE RetentionInv'
    BY <1>b, <1>33 DEF vars
<1> QED
    BY <1>1, <1>2, <1>3, <1>4, <1>5, <1>6, <1>7, <1>8, <1>9, <1>10, <1>11,
       <1>12, <1>13, <1>14, <1>15, <1>16, <1>17, <1>18, <1>19, <1>20, <1>21, <1>22,
       <1>23, <1>24, <1>25, <1>26, <1>27, <1>28, <1>29, <1>30, <1>31, <1>32, <1>33
    DEF Next, Progress, Background, Disturbance

\* A committed snapshot that has lost its files was outranked by Keep newer ones.
LEMMA RetentionHolds == Spec => [](TypeInv /\ RetentionInv)
<1>1. Init => RetentionInv
    BY DEF Init, RetentionInv
<1>2. TypeInv /\ RetentionInv /\ [Next]_vars => RetentionInv' BY RetentionStep
<1> QED BY <1>1, <1>2, Typed, PTL DEF Spec

\* With a frozen workload and hashing that works, the snapshot that the next restore
\* selects is there, and what restore_from_drive checks of it holds, however many runs
\* upload, die and prune at once, unless the record vouches for an empty tree, which
\* no restore accepts, or Keep or more directories (committed or not) have newer names,
\* when pruning may take it.
THEOREM NewestStaysRestorable ==
    Freezes /\ "hash" \notin Faults => (Spec => []NewestIsRestorable)
<1> SUFFICES ASSUME Freezes, "hash" \notin Faults PROVE Spec => []NewestIsRestorable OBVIOUS
<1>1. TypeInv /\ SnapshotInv /\ RetentionInv => NewestIsRestorable
    <2> SUFFICES ASSUME TypeInv, SnapshotInv, RetentionInv, Newest # NoRun,
                        digest[Newest] # {}, Cardinality(Newer(Newest)) < Keep
                 PROVE  Restorable(Newest)
        BY DEF NewestIsRestorable, Newer
    <2>1. Newest \in committed /\ Newest \in Run
        BY NewestIsCommitted DEF TypeInv, TypeOK, StoreTypeOK
    <2>2. Newer(Newest) \subseteq Run BY DEF Newer, Directories
    <2>3. Cardinality(Newer(Newest)) \in Nat
        <3>1. IsFiniteSet(Run) BY FS_Interval, ConstantsAssumption DEF Run
        <3>2. IsFiniteSet(Newer(Newest)) BY <2>2, <3>1, FS_Subset
        <3> QED BY <3>2, FS_CardinalityType
    <2>4. ~Outranked(Newest) BY <2>3, ConstantsAssumption DEF Outranked
    <2>5. snapshot[Newest].files # Missing BY <2>1, <2>4 DEF RetentionInv
    <2> QED BY <2>1, <2>5 DEF SnapshotInv, RecordsVouch, Restorable, Verifies
<1> QED BY <1>1, SnapshotsStaySound, RetentionHolds, PTL
=============================================================================
