------------------------------ MODULE Snapshot ------------------------------
(***************************************************************************)
(* Restoring, freezing, backing up and pruning (runner/lib/restore.sh,     *)
(* freeze.sh, manifest.sh and backup.sh).  The workload keeps one file,    *)
(* which it rewrites; its content is the set of runs whose work it holds,  *)
(* so a manifest describes a tree exactly when the two sets are equal.     *)
(***************************************************************************)
EXTENDS Cluster

NewestOf(S) == CHOOSE n \in S : \A m \in S : m <= n
\* Mutant: the newest directory, rather than the newest record, is restored.
NewestByListing == IF Directories = {} THEN NoRun ELSE NewestOf(Directories)

Newest == IF committed = {} THEN NoRun ELSE NewestOf(committed)

-----------------------------------------------------------------------------
(* Restore *)

\* latest_committed_snapshot: a failed listing, a failed read and a torn record
\* all print nothing, and restore_from_drive then starts from an empty tree.
SelectSnapshot(n) ==
    /\ At(n, "select")
    /\ \/ Works /\ base' = [base EXCEPT ![n] = Newest]
       \/ Fails("list") /\ base' = [base EXCEPT ![n] = NoRun]
    /\ Goto(n, IF base'[n] = NoRun THEN "ack" ELSE "copy")
    /\ UNCHANGED <<leaseVars, heartbeat, killSwitch, storeVars, ack, githubVars,
                   exitVars, tree, manifest, doomed, outsideVars>>

\* Mutant: a failed copy does not die.
CopyRegardless(n) ==
    /\ At(n, "copy")
    /\ LET files == snapshot[base[n]].files IN
       \/ files # Missing /\ Works /\ tree' = [tree EXCEPT ![n] = @ \union files]
       \/ ((files = Missing /\ Works) \/ Fails("copy")) /\ UNCHANGED tree
    /\ Goto(n, "verify")
    /\ UNCHANGED <<leaseVars, heartbeat, killSwitch, storeVars, ack, githubVars,
                   exitVars, base, manifest, doomed, outsideVars>>

\* The additive rclone copy; a purged directory makes it fail, and failing dies.
CopySnapshot(n) ==
    /\ At(n, "copy")
    /\ LET files == snapshot[base[n]].files IN
       \/ /\ files # Missing /\ Works
          /\ tree' = [tree EXCEPT ![n] = @ \union files]
          /\ Goto(n, "verify")
       \/ files = Missing /\ Works /\ UNCHANGED tree /\ Goto(n, "failed")
       \/ Fails("copy") /\ UNCHANGED tree /\ Goto(n, "failed")
    /\ UNCHANGED <<leaseVars, heartbeat, killSwitch, storeVars, ack, githubVars,
                   exitVars, base, manifest, doomed, outsideVars>>

\* sha256sum -c: every listed file is there with the listed hash.  An empty tree
\* has an empty manifest, which is no list of checksums and fails.
Verifies(listed, files) == listed = files /\ listed # {}

\* The manifest is fetched and checked; one that cannot be fetched skips the check.
VerifyRestore(n) ==
    /\ At(n, "verify")
    /\ LET listed == snapshot[base[n]].manifest IN
       \/ /\ listed # Missing /\ Works
          /\ manifest' = [manifest EXCEPT ![n] = listed]
          /\ Goto(n, IF Verifies(listed, tree[n]) THEN "ack" ELSE "failed")
       \/ /\ (listed = Missing /\ Works) \/ Fails("fetch")
          /\ UNCHANGED manifest
          /\ Goto(n, "ack")
    /\ UNCHANGED <<leaseVars, heartbeat, killSwitch, storeVars, ack, githubVars,
                   exitVars, base, tree, doomed, outsideVars>>

-----------------------------------------------------------------------------
(* The workload, and freezing it *)

\* Mutant: the freeze suspends nothing.
WritingStepsUnfrozen == {"running"} \union BackupSteps

\* The steps during which a rewrite by the workload can still reach a snapshot.
WritingSteps == {"running"} \union (IF Freezes THEN {} ELSE BackupSteps)

WorkloadWrites(n) ==
    /\ pc[n] \in WritingSteps
    /\ n \notin tree[n]
    /\ tree' = [tree EXCEPT ![n] = @ \union {n}]
    /\ UNCHANGED <<leaseVars, heartbeat, killSwitch, storeVars, ack, githubVars, pc,
                   exitVars, base, manifest, doomed, outsideVars, faults>>

\* phase_snapshot, which follows the gate: heartbeats around freeze_workload.
Freeze(n) == Heartbeats /\ Goto(n, "manifest")

-----------------------------------------------------------------------------
(* Backup *)

SendManifest(n, m) ==
    /\ snapshot' = [snapshot EXCEPT ![n].manifest = m]
    /\ Goto(n, "upload")
Dies(n) == UNCHANGED snapshot /\ Goto(n, "failed")

\* manifest_write, and the upload of the manifest.  Hashing runs with errexit
\* off: when it fails, the manifest left by the restore stays where it is and
\* backup_publish goes on; with none at all, there is nothing to upload.
PublishManifest(n) ==
    /\ At(n, "manifest")
    /\ \/ /\ Works
          /\ manifest' = [manifest EXCEPT ![n] = tree[n]]
          /\ SendManifest(n, tree[n])
       \/ /\ Fails("hash") /\ UNCHANGED manifest
          /\ IF manifest[n] = Missing THEN Dies(n) ELSE SendManifest(n, manifest[n])
       \/ /\ Fails("upload")
          /\ manifest' = [manifest EXCEPT ![n] = tree[n]]
          /\ Dies(n)
    /\ UNCHANGED <<leaseVars, heartbeat, killSwitch, committed, parent, digest, ack,
                   githubVars, exitVars, base, tree, doomed, outsideVars>>

\* The copy may also exit 0 without the file, if there is one, having arrived whole.
Upload(n) ==
    /\ At(n, "upload")
    /\ \/ /\ Works
          /\ snapshot' = [snapshot EXCEPT ![n].files = tree[n]]
          /\ Goto(n, "check")
       \/ tree[n] # {} /\ Fails("truncate") /\ UNCHANGED snapshot /\ Goto(n, "check")
       \/ Fails("upload") /\ Dies(n)
    /\ UNCHANGED <<leaseVars, heartbeat, killSwitch, committed, parent, digest, ack,
                   githubVars, exitVars, treeVars, outsideVars>>

\* rclone check --one-way compares the tree with the uploaded files, not with
\* the manifest.
CheckUpload(n) ==
    /\ At(n, "check")
    /\ \/ Works /\ Goto(n, IF snapshot[n].files = tree[n] THEN "record" ELSE "failed")
       \/ Fails("upload") /\ Goto(n, "failed")
    /\ UNCHANGED <<leaseVars, heartbeat, killSwitch, storeVars, ack, githubVars,
                   exitVars, treeVars, outsideVars>>

WriteRecord(n) ==
    /\ committed' = committed \union {n}
    /\ parent' = [parent EXCEPT ![n] = lastGood[n]]
    /\ digest' = [digest EXCEPT ![n] = manifest[n]]

\* The commit record; when writing it is reported to have failed, it may exist
\* all the same, and the run dies.
PublishCommit(n) ==
    /\ At(n, "record")
    /\ \/ Works /\ WriteRecord(n) /\ Goto(n, "adopt")
       \/ /\ Fails("commit") /\ Goto(n, "failed")
          /\ WriteRecord(n) \/ UNCHANGED <<committed, parent, digest>>
    /\ UNCHANGED <<leaseVars, heartbeat, killSwitch, snapshot, ack, githubVars,
                   exitVars, treeVars, outsideVars>>

-----------------------------------------------------------------------------
(* Pruning *)

\* Mutant: one directory too many is pruned.
DoomedTooMany == {d \in Directories : Cardinality({e \in Directories : e > d}) >= Keep - 1}

\* The directories that have at least Keep newer ones, by name.
Doomed == {d \in Directories : Cardinality({e \in Directories : e > d}) >= Keep}

\* phase_backup: LAST_GOOD_COMMIT becomes the snapshot just committed, and
\* backup_prune lists the directories, once; a failed listing prunes nothing.
AdoptCommit(n) ==
    /\ At(n, "adopt")
    /\ lastGood' = [lastGood EXCEPT ![n] = n]
    /\ \/ Works /\ doomed' = [doomed EXCEPT ![n] = Doomed \ {n}]
       \/ Fails("prune") /\ UNCHANGED doomed
    /\ Goto(n, "purge")
    /\ UNCHANGED <<leaseVars, heartbeat, killSwitch, storeVars, ack, githubVars,
                   reason, handoverDone, scrubbed, base, tree, manifest, outsideVars>>

\* They are purged one by one, oldest first; a failed purge is only warned about.
Purge(n) ==
    /\ At(n, "purge") /\ doomed[n] # {}
    /\ LET oldest == CHOOSE d \in doomed[n] : \A e \in doomed[n] : d <= e IN
       /\ doomed' = [doomed EXCEPT ![n] = @ \ {oldest}]
       /\ \/ Works /\ snapshot' = [snapshot EXCEPT ![oldest] = NoDirectory]
          \/ Fails("prune") /\ UNCHANGED snapshot
    /\ UNCHANGED <<leaseVars, heartbeat, killSwitch, committed, parent, digest, ack,
                   githubVars, pc, exitVars, base, tree, manifest, outsideVars>>

\* The heartbeats "committed" and "handover" that follow the pruning.
FinishBackup(n) ==
    /\ At(n, "purge") /\ doomed[n] = {}
    /\ Heartbeats
    /\ Goto(n, "handover")
    /\ UNCHANGED <<leaseVars, killSwitch, storeVars, ack, githubVars,
                   exitVars, treeVars, outsideVars, faults>>
=============================================================================
