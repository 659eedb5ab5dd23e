----------------------------- MODULE FleetTypes -----------------------------
(***************************************************************************)
(* Type correctness of the fleet for any number of runs, faults, kills and *)
(* commands, proved with TLAPS.  LoopProofs and SnapshotProofs build on it. *)
(* In each of them the invariants that make a property inductive come      *)
(* first, then a lemma with one step for every action of Next.             *)
(***************************************************************************)
EXTENDS FleetProperties, FiniteSetTheorems, WellFoundedInduction, TLAPS

USE DEF At, Goto, Works, Fails, Heartbeats, leaseVars, storeVars, githubVars,
        exitVars, treeVars, outsideVars

-----------------------------------------------------------------------------
(* The newest of the committed snapshots *)

\* Natural numbers are well-founded, so a set of them has a least element.
LEMMA HasLeast ==
    ASSUME NEW S \in SUBSET Nat, S # {}
    PROVE  \E n \in S : \A m \in S : n <= m
<1>1. PICK n \in S : \A m \in S : ~(<<m, n>> \in OpToRel(<, Nat))
    BY NatLessThanWellFounded, WFMin
<1>2. ASSUME NEW m \in S PROVE n <= m
    <2>1. m \in Nat /\ n \in Nat OBVIOUS
    <2>2. m < n => <<m, n>> \in OpToRel(<, Nat) BY <2>1 DEF OpToRel
    <2>3. ~(m < n) BY <1>1, <2>2, Zenon
    <2> QED BY <2>1, <2>3
<1> QED BY <1>2

\* A set of runs has a greatest element: the complement to MaxRuns is least.
LEMMA HasGreatest ==
    ASSUME NEW S \in SUBSET Run, S # {}
    PROVE  \E n \in S : \A m \in S : m <= n
<1>1. MaxRuns \in Nat BY ConstantsAssumption
<1> DEFINE T == {MaxRuns - n : n \in S}
<1>2. T \in SUBSET Nat /\ T # {}
    <2>1. \A n \in S : MaxRuns - n \in Nat BY <1>1 DEF Run
    <2> QED BY <2>1
<1>3. PICK t \in T : \A u \in T : t <= u
    <2> HIDE DEF T
    <2> QED BY <1>2, HasLeast
<1>4. PICK n \in S : t = MaxRuns - n BY <1>3
<1>5. ASSUME NEW m \in S PROVE m <= n
    <2>1. MaxRuns - m \in T OBVIOUS
    <2>2. t <= MaxRuns - m BY <1>3, <2>1
    <2> QED BY <2>2, <1>1, <1>4 DEF Run
<1> QED BY <1>5

\* latest_committed_snapshot answers with a committed run that none is newer than.
LEMMA NewestIsCommitted ==
    ASSUME TypeOK
    PROVE  /\ Newest \in RunOrNone /\ (Newest # NoRun => Newest \in committed)
           /\ (committed # {} => Newest \in committed)
           /\ \A m \in committed : m <= Newest
<1>1. CASE committed = {} BY <1>1, ConstantsAssumption DEF Newest, RunOrNone, NoRun
<1>2. CASE committed # {}
    <2>1. committed \in SUBSET Run BY DEF TypeOK, StoreTypeOK
    <2>2. \E n \in committed : \A m \in committed : m <= n BY <1>2, <2>1, HasGreatest
    <2>3. Newest \in committed /\ \A m \in committed : m <= Newest
        BY <1>2, <2>2 DEF Newest, NewestOf
    <2> QED BY <2>1, <2>3, ConstantsAssumption DEF Run, RunOrNone, NoRun
<1> QED BY <1>1, <1>2

-----------------------------------------------------------------------------
(* Type correctness *)

\* GitHub never holds more dispatched runs than the bound leaves room for.
Capacity == IsFiniteSet(queue) /\ started + Cardinality(queue) <= MaxRuns

\* Starting a queued run keeps the queue within its bound.
LEMMA QueueStarts ==
    ASSUME TypeOK, Capacity, NEW r \in queue, queue' = queue \ {r}, started' = started + 1
    PROVE  started + 1 \in Run /\ Capacity'
<1>1. /\ IsFiniteSet(queue') /\ Cardinality(queue') = Cardinality(queue) - 1
      /\ Cardinality(queue) \in Nat /\ Cardinality(queue') \in Nat
    BY FS_RemoveElement, FS_CardinalityType DEF Capacity
<1>2. started \in Nat /\ MaxRuns \in Nat
    BY ConstantsAssumption DEF TypeOK, GithubTypeOK, RunOrNone
<1> QED BY <1>1, <1>2 DEF Capacity, Run

\* So does accepting a dispatch, whoever asks for it.
LEMMA QueueGrows ==
    ASSUME TypeOK, Capacity, NEW origin \in RunOrNone, NEW commit \in RunOrNone,
           Enqueue(origin, commit)
    PROVE  /\ dispatches' \in [RunOrNone -> Nat] /\ queue' \subseteq Request
           /\ started' = started /\ Capacity'
<1> DEFINE r == [origin |-> origin, number |-> dispatches[origin] + 1, commit |-> commit]
<1>0. /\ dispatches \in [RunOrNone -> Nat] /\ queue \subseteq Request
      /\ started \in RunOrNone /\ started \in Nat /\ MaxRuns \in Nat
    BY ConstantsAssumption DEF TypeOK, GithubTypeOK, RunOrNone
<1>1. r \in Request BY <1>0 DEF Request
<1>2. /\ dispatches' \in [RunOrNone -> Nat] /\ queue' = queue \union {r}
      /\ started' = started /\ started + Cardinality(queue) < MaxRuns
    BY <1>0 DEF Enqueue, HasCapacity
<1> HIDE DEF r
<1>3. /\ IsFiniteSet(queue') /\ Cardinality(queue) \in Nat
      /\ Cardinality(queue') \in {Cardinality(queue), Cardinality(queue) + 1}
    BY <1>2, FS_AddElement, FS_CardinalityType DEF Capacity
<1> QED BY <1>0, <1>1, <1>2, <1>3 DEF Capacity

\* Replacing the manifest or the files of a snapshot leaves the store well-typed.
LEMMA DirectoryUpdates ==
    ASSUME snapshot \in [Run -> Directory], NEW n \in Run, NEW c \in {Missing} \union Content
    PROVE  /\ [snapshot EXCEPT ![n].manifest = c] \in [Run -> Directory]
           /\ [snapshot EXCEPT ![n].files = c] \in [Run -> Directory]
BY DEF Directory

\* A run copies and verifies the snapshot it selected.
Selected == \A n \in Run : pc[n] \in {"copy", "verify"} => base[n] \in Run

\* Every action keeps the types, the queue's bound, and what a run has selected.
LEMMA TypeStep ==
    ASSUME TypeOK, Capacity, Selected, [Next]_vars
    PROVE  TypeOK' /\ Capacity' /\ Selected'
<1> DEFINE Parts == /\ LeaseTypeOK /\ SignalTypeOK /\ StoreTypeOK /\ GithubTypeOK
                    /\ ShellTypeOK /\ TreeTypeOK /\ OutsideTypeOK /\ Capacity /\ Selected
<1> SUFFICES Parts' BY DEF TypeOK
<1> USE DEF Steps, RestoreSteps, BackupSteps, EmergencySteps, DrainSteps, Ended
<1>a. /\ Run \subseteq RunOrNone /\ NoRun \in RunOrNone
    BY ConstantsAssumption DEF Run, RunOrNone, NoRun
<1>b. /\ NoDirectory \in Directory
      /\ \A d \in Directory : d.files \in {Missing} \union Content
                              /\ d.manifest \in {Missing} \union Content
    BY DEF NoDirectory, Directory
<1>c. \A n \in Run : /\ snapshot[n] \in Directory /\ tree[n] \in Content
                     /\ manifest[n] \in {Missing} \union Content
                     /\ lastGood[n] \in RunOrNone
      /\ pc \in [Run -> Steps] /\ base \in [Run -> RunOrNone]
      /\ snapshot \in [Run -> Directory]
    BY DEF TypeOK, StoreTypeOK, TreeTypeOK, ShellTypeOK
<1>d. Parts BY DEF TypeOK
<1>1. ASSUME NEW n \in Run, ReadLease(n) PROVE Parts'
    BY <1>1, <1>c, <1>d DEF LeaseTypeOK, SignalTypeOK, StoreTypeOK, GithubTypeOK,
           ShellTypeOK, TreeTypeOK, OutsideTypeOK, Capacity, Selected, ReadLease
<1>2. ASSUME NEW n \in Run, LeaseTimeout(n) PROVE Parts'
    BY <1>2, <1>c, <1>d DEF LeaseTypeOK, SignalTypeOK, StoreTypeOK, GithubTypeOK,
           ShellTypeOK, TreeTypeOK, OutsideTypeOK, Capacity, Selected, LeaseTimeout
<1>3. ASSUME NEW n \in Run, ClaimLease(n) PROVE Parts'
    <2>1. LeaseTypeOK' BY <1>3, <1>d, <1>a DEF LeaseTypeOK, ClaimLease, WriteLease
    <2> QED BY <1>3, <1>c, <1>d, <2>1 DEF SignalTypeOK, StoreTypeOK, GithubTypeOK,
           ShellTypeOK, TreeTypeOK, OutsideTypeOK, Capacity, Selected, ClaimLease, WriteLease
<1>4. ASSUME NEW n \in Run, SelectSnapshot(n) PROVE Parts'
    <2>1. Newest \in RunOrNone BY NewestIsCommitted
    <2>2. base' \in [Run -> RunOrNone] BY <1>4, <1>a, <1>c, <2>1 DEF SelectSnapshot
    <2>3. pc' = [pc EXCEPT ![n] = IF base'[n] = NoRun THEN "ack" ELSE "copy"]
        BY <1>4 DEF SelectSnapshot
    <2>4. \A m \in Run : m # n => base'[m] = base[m] BY <1>4, <1>c DEF SelectSnapshot
    <2>5. \A m \in Run : base'[m] # NoRun => base'[m] \in Run
        BY <2>2 DEF Run, RunOrNone, NoRun
    <2>6. Selected' BY <1>c, <1>d, <2>3, <2>4, <2>5 DEF Selected
    <2>7. ShellTypeOK' BY <1>4, <1>d, <2>3 DEF ShellTypeOK, SelectSnapshot
    <2>8. TreeTypeOK' BY <1>4, <1>d, <2>2 DEF TreeTypeOK, SelectSnapshot
    <2> QED BY <1>4, <1>d, <2>6, <2>7, <2>8 DEF LeaseTypeOK, SignalTypeOK, StoreTypeOK,
            GithubTypeOK, OutsideTypeOK, Capacity, SelectSnapshot
<1>5. ASSUME NEW n \in Run, CopySnapshot(n) PROVE Parts'
    <2>1. PICK t \in Content : tree' = [tree EXCEPT ![n] = t]
        <3>1. base[n] \in Run BY <1>5, <1>d DEF Selected, CopySnapshot
        <3>2. snapshot[base[n]].files \in {Missing} \union Content BY <1>b, <1>c, <3>1
        <3>3. CASE tree' = [tree EXCEPT ![n] = @ \union snapshot[base[n]].files]
                   /\ snapshot[base[n]].files # Missing
            BY <1>c, <3>2, <3>3 DEF Content
        <3>4. CASE UNCHANGED tree
            BY <1>c, <1>d, <3>4 DEF TreeTypeOK
        <3> QED BY <1>5, <3>3, <3>4 DEF CopySnapshot
    <2>2. TreeTypeOK' BY <1>5, <1>d, <2>1 DEF TreeTypeOK, CopySnapshot
    <2> QED BY <1>5, <1>c, <1>d, <2>2 DEF LeaseTypeOK, SignalTypeOK, StoreTypeOK, GithubTypeOK,
            ShellTypeOK, OutsideTypeOK, Capacity, Selected, CopySnapshot
<1>6. ASSUME NEW n \in Run, VerifyRestore(n) PROVE Parts'
    <2>1. base[n] \in Run BY <1>6, <1>d DEF Selected, VerifyRestore
    <2>2. snapshot[base[n]].manifest \in {Missing} \union Content BY <1>b, <1>c, <2>1
    <2>3. TreeTypeOK' BY <1>6, <1>d, <2>2 DEF TreeTypeOK, VerifyRestore
    <2> QED BY <1>6, <1>c, <1>d, <2>3 DEF LeaseTypeOK, SignalTypeOK, StoreTypeOK, GithubTypeOK,
            ShellTypeOK, OutsideTypeOK, Capacity, Selected, VerifyRestore
<1>7. ASSUME NEW n \in Run, Acknowledge(n) PROVE Parts'
    <2>1. SignalTypeOK' BY <1>7, <1>d, <1>a DEF SignalTypeOK, Acknowledge
    <2> QED BY <1>7, <1>c, <1>d, <2>1 DEF LeaseTypeOK, StoreTypeOK, GithubTypeOK,
           ShellTypeOK, TreeTypeOK, OutsideTypeOK, Capacity, Selected, Acknowledge
<1>8. ASSUME NEW n \in Run, GatePoll(n) PROVE Parts'
    <2>1. SignalTypeOK' BY <1>8, <1>d DEF SignalTypeOK, GatePoll, Freeze
    <2>2. OutsideTypeOK' BY <1>8, <1>d DEF OutsideTypeOK, GatePoll, ReadsEngaged
    <2>3. ShellTypeOK' BY <1>8, <1>d DEF ShellTypeOK, GatePoll, Freeze
    <2> QED BY <1>8, <1>c, <1>d, <2>1, <2>2, <2>3 DEF LeaseTypeOK, StoreTypeOK, GithubTypeOK,
           TreeTypeOK, Capacity, Selected, GatePoll, ReadsEngaged, Freeze
<1>9. ASSUME NEW n \in Run, GateElapsed(n) PROVE Parts'
    <2>1. SignalTypeOK' BY <1>9, <1>d DEF SignalTypeOK, GateElapsed, Freeze
    <2>2. ShellTypeOK' BY <1>9, <1>d DEF ShellTypeOK, GateElapsed, Freeze
    <2> QED BY <1>9, <1>c, <1>d, <2>1, <2>2 DEF LeaseTypeOK, StoreTypeOK, GithubTypeOK,
           TreeTypeOK, OutsideTypeOK, Capacity, Selected, GateElapsed, Freeze
<1>10. ASSUME NEW n \in Run, PublishManifest(n) PROVE Parts'
    <2>1. PICK step \in {"upload", "failed"} : pc' = [pc EXCEPT ![n] = step]
        BY <1>10 DEF PublishManifest, SendManifest, Dies
    <2>2. snapshot' \in {snapshot, [snapshot EXCEPT ![n].manifest = tree[n]],
                         [snapshot EXCEPT ![n].manifest = manifest[n]]}
        BY <1>10 DEF PublishManifest, SendManifest, Dies
    <2>3. snapshot' \in [Run -> Directory]
        <3>1. {tree[n], manifest[n]} \subseteq {Missing} \union Content BY <1>c
        <3>2. /\ [snapshot EXCEPT ![n].manifest = tree[n]] \in [Run -> Directory]
              /\ [snapshot EXCEPT ![n].manifest = manifest[n]] \in [Run -> Directory]
            BY <1>c, <3>1, DirectoryUpdates
        <3> QED BY <1>c, <2>2, <3>2
    <2>4. StoreTypeOK' BY <1>10, <1>d, <2>3 DEF StoreTypeOK, PublishManifest
    <2>5. ShellTypeOK' /\ Selected' BY <1>10, <1>d, <1>c, <2>1 DEF ShellTypeOK, Selected,
           PublishManifest
    <2>6. TreeTypeOK' BY <1>10, <1>c, <1>d DEF TreeTypeOK, PublishManifest
    <2> QED BY <1>10, <1>d, <2>4, <2>5, <2>6 DEF LeaseTypeOK, SignalTypeOK, GithubTypeOK,
            OutsideTypeOK, Capacity, PublishManifest
<1>11. ASSUME NEW n \in Run, Upload(n) PROVE Parts'
    <2>1. PICK step \in {"check", "failed"} : pc' = [pc EXCEPT ![n] = step]
        BY <1>11 DEF Upload, Dies
    <2>2. snapshot' \in {snapshot, [snapshot EXCEPT ![n].files = tree[n]]}
        BY <1>11 DEF Upload, Dies
    <2>3. snapshot' \in [Run -> Directory]
        <3>1. tree[n] \in {Missing} \union Content BY <1>c
        <3>2. [snapshot EXCEPT ![n].files = tree[n]] \in [Run -> Directory]
            BY <1>c, <3>1, DirectoryUpdates
        <3> QED BY <1>c, <2>2, <3>2
    <2>4. StoreTypeOK' BY <1>11, <1>d, <2>3 DEF StoreTypeOK, Upload
    <2>5. ShellTypeOK' /\ Selected' BY <1>11, <1>d, <1>c, <2>1 DEF ShellTypeOK, Selected, Upload
    <2> QED BY <1>11, <1>d, <2>4, <2>5 DEF LeaseTypeOK, SignalTypeOK, GithubTypeOK,
            TreeTypeOK, OutsideTypeOK, Capacity, Upload
<1>12. ASSUME NEW n \in Run, CheckUpload(n) PROVE Parts'
    BY <1>12, <1>c, <1>d DEF LeaseTypeOK, SignalTypeOK, StoreTypeOK, GithubTypeOK,
           ShellTypeOK, TreeTypeOK, OutsideTypeOK, Capacity, Selected, CheckUpload
<1>13. ASSUME NEW n \in Run, PublishCommit(n) PROVE Parts'
    <2>1. StoreTypeOK' BY <1>13, <1>d DEF StoreTypeOK, PublishCommit, WriteRecord,
           ShellTypeOK, TreeTypeOK
    <2> QED BY <1>13, <1>c, <1>d, <2>1 DEF LeaseTypeOK, SignalTypeOK, GithubTypeOK,
           ShellTypeOK, TreeTypeOK, OutsideTypeOK, Capacity, Selected, PublishCommit,
                  WriteRecord
<1>14. ASSUME NEW n \in Run, AdoptCommit(n) PROVE Parts'
    <2>1. PICK D \in SUBSET Run : doomed' = [doomed EXCEPT ![n] = D]
        <3>1. Doomed \ {n} \in SUBSET Run BY DEF Doomed, Directories
        <3>2. CASE doomed' = [doomed EXCEPT ![n] = Doomed \ {n}] BY <3>1, <3>2
        <3>3. CASE UNCHANGED doomed BY <1>d, <3>3 DEF TreeTypeOK
        <3> QED BY <1>14, <3>2, <3>3 DEF AdoptCommit
    <2>2. TreeTypeOK' BY <1>14, <1>d, <2>1 DEF TreeTypeOK, AdoptCommit
    <2>3. ShellTypeOK' BY <1>14, <1>a, <1>d DEF ShellTypeOK, AdoptCommit
    <2> QED BY <1>14, <1>c, <1>d, <2>2, <2>3 DEF LeaseTypeOK, SignalTypeOK, StoreTypeOK,
           GithubTypeOK,
            OutsideTypeOK, Capacity, Selected, AdoptCommit
<1>15. ASSUME NEW n \in Run, Purge(n) PROVE Parts'
    <2>1. StoreTypeOK' BY <1>15, <1>d, <1>b, <1>c, MissingAssumption DEF StoreTypeOK, Purge
    <2>2. TreeTypeOK' BY <1>15, <1>d DEF TreeTypeOK, Purge
    <2> QED BY <1>15, <1>c, <1>d, <2>1, <2>2 DEF LeaseTypeOK, SignalTypeOK, GithubTypeOK,
           ShellTypeOK, OutsideTypeOK, Capacity, Selected, Purge
<1>16. ASSUME NEW n \in Run, FinishBackup(n) PROVE Parts'
    <2>1. SignalTypeOK' BY <1>16, <1>d DEF SignalTypeOK, FinishBackup
    <2> QED BY <1>16, <1>c, <1>d, <2>1 DEF LeaseTypeOK, StoreTypeOK, GithubTypeOK,
           ShellTypeOK, TreeTypeOK, OutsideTypeOK, Capacity, Selected, FinishBackup
<1>17. ASSUME NEW n \in Run, CheckBeforeHandover(n) PROVE Parts'
    <2>1. OutsideTypeOK' BY <1>17, <1>d DEF OutsideTypeOK, CheckBeforeHandover, ReadsEngaged,
           ReadsClear
    <2> QED BY <1>17, <1>c, <1>d, <2>1 DEF LeaseTypeOK, SignalTypeOK, StoreTypeOK,
           GithubTypeOK, ShellTypeOK, TreeTypeOK, Capacity, Selected, CheckBeforeHandover,
                  ReadsEngaged, ReadsClear
<1>18. ASSUME NEW n \in Run, Dispatch(n) PROVE Parts'
    <2>1. GithubTypeOK' /\ Capacity'
        <3>1. CASE UNCHANGED githubVars
            BY <1>d, <3>1 DEF GithubTypeOK, Capacity
        <3>2. CASE Enqueue(n, lastGood[n])
            BY <1>a, <1>c, <1>d, <3>2, QueueGrows DEF GithubTypeOK
        <3> QED BY <1>18, <3>1, <3>2 DEF Dispatch, DispatchSuccessor
    <2> QED BY <1>18, <1>c, <1>d, <2>1 DEF Selected, LeaseTypeOK, SignalTypeOK, StoreTypeOK,
            ShellTypeOK, TreeTypeOK, OutsideTypeOK, Dispatch, DispatchSuccessor
<1>19. ASSUME NEW n \in Run, Redispatch(n) PROVE Parts'
    <2>1. GithubTypeOK' /\ Capacity'
        <3>1. CASE UNCHANGED githubVars
            BY <1>d, <3>1 DEF GithubTypeOK, Capacity
        <3>2. CASE Enqueue(n, lastGood[n])
            BY <1>a, <1>c, <1>d, <3>2, QueueGrows DEF GithubTypeOK
        <3> QED BY <1>19, <3>1, <3>2 DEF Redispatch, DispatchSuccessor
    <2> QED BY <1>19, <1>c, <1>d, <2>1 DEF Selected, LeaseTypeOK, SignalTypeOK, StoreTypeOK,
            ShellTypeOK, TreeTypeOK, OutsideTypeOK, Redispatch, DispatchSuccessor
<1>20. ASSUME NEW n \in Run, AckSeen(n) PROVE Parts'
    BY <1>20, <1>c, <1>d DEF LeaseTypeOK, SignalTypeOK, StoreTypeOK, GithubTypeOK,
           ShellTypeOK, TreeTypeOK, OutsideTypeOK, Capacity, Selected, AckSeen
<1>21. ASSUME NEW n \in Run, AckTimeout(n) PROVE Parts'
    <2>1. AfterTimeout(n) \in {"redispatch", "drain"}
        BY <1>21 DEF AckTimeout, AwaitSteps, AfterTimeout
    <2>2. ShellTypeOK' BY <1>21, <1>d, <2>1 DEF ShellTypeOK, AckTimeout
    <2> QED BY <1>21, <1>c, <1>d, <2>1, <2>2 DEF LeaseTypeOK, SignalTypeOK, StoreTypeOK,
            GithubTypeOK, TreeTypeOK, OutsideTypeOK, Capacity, Selected, AckTimeout
<1>22. ASSUME NEW n \in Run, EnterEmergency(n) PROVE Parts'
    <2>1. SignalTypeOK' BY <1>22, <1>d DEF SignalTypeOK, EnterEmergency
    <2>2. OutsideTypeOK' BY <1>22, <1>d DEF OutsideTypeOK, EnterEmergency, ReadsEngaged,
           ReadsClear
    <2> QED BY <1>22, <1>c, <1>d, <2>1, <2>2 DEF LeaseTypeOK, StoreTypeOK, GithubTypeOK,
           ShellTypeOK, TreeTypeOK, Capacity, Selected, EnterEmergency, ReadsEngaged, ReadsClear
<1>23. ASSUME NEW n \in Run, DispatchInEmergency(n) PROVE Parts'
    <2>1. GithubTypeOK' /\ Capacity'
        <3>1. CASE UNCHANGED githubVars
            BY <1>d, <3>1 DEF GithubTypeOK, Capacity
        <3>2. CASE Enqueue(n, lastGood[n])
            BY <1>a, <1>c, <1>d, <3>2, QueueGrows DEF GithubTypeOK
        <3> QED BY <1>23, <3>1, <3>2 DEF DispatchInEmergency, DispatchSuccessor
    <2> QED BY <1>23, <1>c, <1>d, <2>1 DEF Selected, LeaseTypeOK, SignalTypeOK, StoreTypeOK,
            ShellTypeOK, TreeTypeOK, OutsideTypeOK, DispatchInEmergency, DispatchSuccessor
<1>24. ASSUME NEW n \in Run, Drain(n) PROVE Parts'
    <2>1. SignalTypeOK' BY <1>24, <1>d DEF SignalTypeOK, Drain
    <2> QED BY <1>24, <1>c, <1>d, <2>1 DEF LeaseTypeOK, StoreTypeOK, GithubTypeOK,
           ShellTypeOK, TreeTypeOK, OutsideTypeOK, Capacity, Selected, Drain
<1>25. ASSUME NEW n \in Run, ReleaseLease(n) PROVE Parts'
    <2>1. LeaseTypeOK' BY <1>25, <1>d, <1>a DEF LeaseTypeOK, ReleaseLease
    <2> QED BY <1>25, <1>c, <1>d, <2>1 DEF SignalTypeOK, StoreTypeOK, GithubTypeOK,
           ShellTypeOK, TreeTypeOK, OutsideTypeOK, Capacity, Selected, ReleaseLease
<1>26. ASSUME NEW n \in Run, WorkloadWrites(n) PROVE Parts'
    <2>1. TreeTypeOK' BY <1>26, <1>d DEF TreeTypeOK, WorkloadWrites, Content
    <2> QED BY <1>26, <1>c, <1>d, <2>1 DEF LeaseTypeOK, SignalTypeOK, StoreTypeOK,
           GithubTypeOK, ShellTypeOK, OutsideTypeOK, Capacity, Selected, WorkloadWrites
<1>27. ASSUME NEW n \in Run, GateHeartbeat(n) PROVE Parts'
    <2>1. SignalTypeOK' BY <1>27, <1>d DEF SignalTypeOK, GateHeartbeat
    <2> QED BY <1>27, <1>c, <1>d, <2>1 DEF LeaseTypeOK, StoreTypeOK, GithubTypeOK,
           ShellTypeOK, TreeTypeOK, OutsideTypeOK, Capacity, Selected, GateHeartbeat
<1>28. ASSUME NEW n \in Run, RenewWhileWaiting(n) PROVE Parts'
    <2>1. LeaseTypeOK' BY <1>28, <1>d, <1>a DEF LeaseTypeOK, RenewWhileWaiting, WriteLease
    <2>2. SignalTypeOK' BY <1>28, <1>d DEF SignalTypeOK, RenewWhileWaiting
    <2> QED BY <1>28, <1>c, <1>d, <2>1, <2>2 DEF StoreTypeOK, GithubTypeOK, ShellTypeOK,
           TreeTypeOK, OutsideTypeOK, Capacity, Selected, RenewWhileWaiting, WriteLease
<1>29. ASSUME NEW n \in Run, Terminate(n) PROVE Parts'
    BY <1>29, <1>c, <1>d DEF LeaseTypeOK, SignalTypeOK, StoreTypeOK, GithubTypeOK,
           ShellTypeOK, TreeTypeOK, OutsideTypeOK, Capacity, Selected, Terminate
<1>30. ASSUME NEW n \in Run, Kill(n) PROVE Parts'
    BY <1>30, <1>c, <1>d DEF LeaseTypeOK, SignalTypeOK, StoreTypeOK, GithubTypeOK,
           ShellTypeOK, TreeTypeOK, OutsideTypeOK, Capacity, Selected, Kill
<1>31. ASSUME Start PROVE Parts'
    <2> DEFINE n == started + 1
    <2>1. PICK r \in queue :
              /\ started' = n /\ queue' = queue \ {r}
              /\ lastGood' = [lastGood EXCEPT ![n] = r.commit]
        BY <1>31 DEF Start
    <2>2. n \in Run /\ Capacity' BY <2>1, QueueStarts
    <2>3. r.commit \in RunOrNone /\ r \in Request
        BY <1>d DEF GithubTypeOK, Request
    <2> HIDE DEF n
    <2>4. GithubTypeOK' BY <1>31, <1>a, <1>d, <2>1, <2>2 DEF GithubTypeOK, Start, n
    <2>5. ShellTypeOK' BY <1>31, <1>d, <2>1, <2>2, <2>3 DEF ShellTypeOK, Start, n
    <2>6. OutsideTypeOK' BY <1>31, <1>d, <2>2 DEF OutsideTypeOK, Start, n
    <2> QED BY <1>31, <1>d, <2>2, <2>4, <2>5, <2>6, <1>c
            DEF Selected, LeaseTypeOK, SignalTypeOK, StoreTypeOK, TreeTypeOK, Start
<1>32. ASSUME LeaseAges PROVE Parts'
    BY <1>32, <1>d DEF LeaseTypeOK, SignalTypeOK, StoreTypeOK, GithubTypeOK,
       ShellTypeOK, TreeTypeOK, OutsideTypeOK, Capacity, Selected, LeaseAges
<1>33. ASSUME HeartbeatAges \/ HeartbeatsLost PROVE Parts'
    BY <1>33, <1>d DEF LeaseTypeOK, SignalTypeOK, StoreTypeOK, GithubTypeOK,
       ShellTypeOK, TreeTypeOK, OutsideTypeOK, Capacity, Selected, HeartbeatAges, HeartbeatsLost
<1>34. ASSUME WatchdogCheck \/ WatchdogRead PROVE Parts'
    BY <1>34, <1>d DEF LeaseTypeOK, SignalTypeOK, StoreTypeOK, GithubTypeOK,
       ShellTypeOK, TreeTypeOK, OutsideTypeOK, Capacity, Selected, WatchdogCheck,
              WatchdogRead, ReadsClear
<1>35. ASSUME WatchdogDispatch PROVE Parts'
    <2>1. GithubTypeOK' /\ Capacity'
        <3>1. CASE UNCHANGED githubVars
            BY <1>d, <3>1 DEF GithubTypeOK, Capacity
        <3>2. CASE Enqueue(NoRun, NoRun)
            BY <1>a, <1>d, <3>2, QueueGrows DEF GithubTypeOK
        <3> QED BY <1>35, <3>1, <3>2 DEF WatchdogDispatch
    <2> QED BY <1>35, <1>d, <2>1 DEF Selected, LeaseTypeOK, SignalTypeOK, StoreTypeOK,
            ShellTypeOK, TreeTypeOK, OutsideTypeOK, WatchdogDispatch
<1>36. ASSUME EngageKillSwitch \/ ClearKillSwitch PROVE Parts'
    <2>1. PICK engaged \in BOOLEAN : SetKillSwitch(engaged)
        BY <1>36 DEF EngageKillSwitch, ClearKillSwitch
    <2>2. commands > 0 /\ commands' = commands - 1
        BY <1>36, Zenon DEF EngageKillSwitch, ClearKillSwitch, Command
    <2>3. OutsideTypeOK' BY <1>d, <2>1, <2>2 DEF OutsideTypeOK, SetKillSwitch, Unchecked
    <2> QED BY <1>d, <2>1, <2>3 DEF LeaseTypeOK, SignalTypeOK, StoreTypeOK, GithubTypeOK,
            ShellTypeOK, TreeTypeOK, Capacity, Selected, SetKillSwitch
<1>37. ASSUME Failover \/ ManualDispatch PROVE Parts'
    <2>1. GithubTypeOK' /\ Capacity'
        BY <1>37, <1>a, <1>d, QueueGrows DEF GithubTypeOK, Failover, ManualDispatch
    <2> QED BY <1>37, <1>d, <2>1 DEF Selected, LeaseTypeOK, SignalTypeOK, StoreTypeOK,
            ShellTypeOK, TreeTypeOK, OutsideTypeOK, Failover, ManualDispatch, Command
<1>38. ASSUME UNCHANGED vars PROVE Parts'
    BY <1>38, <1>d DEF LeaseTypeOK, SignalTypeOK, StoreTypeOK, GithubTypeOK,
       ShellTypeOK, TreeTypeOK, OutsideTypeOK, Capacity, Selected, vars
<1> QED
    BY <1>1, <1>2, <1>3, <1>4, <1>5, <1>6, <1>7, <1>8, <1>9, <1>10, <1>11, <1>12,
       <1>13, <1>14, <1>15, <1>16, <1>17, <1>18, <1>19, <1>20, <1>21, <1>22, <1>23, <1>24,
       <1>25, <1>26, <1>27, <1>28, <1>29, <1>30, <1>31, <1>32, <1>33, <1>34, <1>35, <1>36,
       <1>37, <1>38
    DEF Next, Progress, Background, Disturbance, Watchdog, Operator

\* Every variable keeps its type: in particular no run number leaves the bound,
\* and no run copies a snapshot that it did not select.
THEOREM TypeCorrect == Spec => [](TypeOK /\ Capacity /\ Selected)
<1>1. Init => TypeOK /\ Capacity /\ Selected
    <2> SUFFICES ASSUME Init PROVE TypeOK /\ Capacity /\ Selected OBVIOUS
    <2>1. NoRun \in RunOrNone /\ NoDirectory \in Directory
        BY ConstantsAssumption DEF NoRun, RunOrNone, NoDirectory, Directory
    <2>2. Capacity BY FS_EmptySet, ConstantsAssumption DEF Init, Capacity
    <2>3. Selected BY DEF Init, Selected
    <2>4. LeaseTypeOK /\ SignalTypeOK /\ StoreTypeOK
        BY <2>1 DEF Init, LeaseTypeOK, SignalTypeOK, StoreTypeOK
    <2>5. GithubTypeOK /\ ShellTypeOK
        BY <2>1 DEF Init, GithubTypeOK, ShellTypeOK, Steps, Ended, NoRun
    <2>6. TreeTypeOK /\ OutsideTypeOK
        BY <2>1, ConstantsAssumption DEF Init, TreeTypeOK, OutsideTypeOK, Content
    <2> QED BY <2>2, <2>3, <2>4, <2>5, <2>6 DEF TypeOK
<1>2. TypeOK /\ Capacity /\ Selected /\ [Next]_vars => (TypeOK /\ Capacity /\ Selected)'
    BY TypeStep
<1> QED BY <1>1, <1>2, PTL DEF Spec
=============================================================================
