--------------------------- MODULE FleetProperties ---------------------------
(***************************************************************************)
(* What the fleet of runs promises: the properties its runs check, and     *)
(* those that a comment or a document of the repository claims.            *)
(***************************************************************************)
EXTENDS Fleet

\* Whenever the manifest and the files of a committed snapshot are both there,
\* the files are what the manifest lists. (backup_publish, under a frozen
\* workload; pruning may have removed either, and a manifest that lists nothing
\* fails verification all the same: NodeMigrates.)
CommittedVerifies ==
    \A n \in committed :
        Missing \in {snapshot[n].manifest, snapshot[n].files}
            \/ snapshot[n].manifest = snapshot[n].files

\* What restore_from_drive accepts: the files, and a manifest that fits or none.
Restorable(n) ==
    LET d == snapshot[n]
    IN  d.files # Missing /\ (d.manifest = Missing \/ Verifies(d.manifest, d.files))

\* The snapshot the next restore will pick can be restored, however many runs
\* were uploading, dying and pruning.  Two cases are left out, since in both the
\* code strands its successors: an empty tree (NodeMigrates), and Keep or more
\* directories with newer names, which partial uploads and slower runs leave and
\* over which pruning takes the newest committed snapshot.
\* (backup_publish, backup_prune, restore_from_drive)
NewestIsRestorable ==
    Newest # NoRun /\ digest[Newest] # {} /\ Cardinality({d \in Directories : d > Newest}) < Keep
        => Restorable(Newest)

\* No run copies or verifies a snapshot that its own run is still writing: a
\* record appears only after the upload has been checked. (backup_publish)
NoRestoreOfUnfinished ==
    \A n, m \in Run :
        pc[n] \in {"copy", "verify"} /\ base[n] = m => pc[m] \notin BackupSteps

\* When the workload starts on a restored tree, that tree is the one the
\* record's manifest_sha256 vouches for, although the record is never compared
\* with it. (restore_from_drive)
RunsOnVouchedTree ==
    \A n \in Run :
        pc[n] = "running" /\ base[n] # NoRun => tree[n] \ {n} = digest[base[n]]

\* A run asks for at most two successors, and for one more each time a call
\* went wrong or a run was cancelled: no failure path makes the fleet multiply.
\* (phase_handover and emergency_handover)
DispatchesAreBounded ==
    \A n \in Run : dispatches[n] <= 2 + (MaxFaults - faults) + (MaxKills - kills)

\* A run that has yet to look at the kill switch when it is engaged, or that
\* starts while it is, dispatches nobody, whichever way it ends, as long as the
\* switch stays on: an engaged switch ends the loop within one generation.
KillSwitchEndsLoop ==
    [][\A n \in sealed : dispatches'[n] = dispatches[n]]_vars

\* Every run ends: neither the lease, nor the wait for an ack, nor both waiting
\* on each other hold one for ever.
RunsEnd == \A n \in Run : pc[n] = "lease" ~> pc[n] = "exited"

\* With nobody running and nothing queued, the watchdog starts a run again.
Down == queue = {} /\ (\A n \in Run : ~Live(n)) /\ ~killSwitch /\ HasCapacity
LoopRecovers == Down ~> ~Down

\* A run that is serving when the kill switch is engaged still commits its
\* snapshot, unless a call fails or a run is cancelled (OPERATIONS.md, "Kill switch").
GracefulStop ==
    \A n \in Run :
        pc[n] = "running" /\ killSwitch
            ~> n \in committed \/ ~killSwitch \/ faults < MaxFaults \/ kills < MaxKills

-----------------------------------------------------------------------------
(* Claims of comments and documents that the code does not keep *)

\* A new run "waits for the current one or the current one is genuinely gone"
\* (OPERATIONS.md, on the failover command).
WaitsForLiveHolder ==
    [][\A n \in Run : lease # NoRun /\ lease # n /\ Live(lease)
                      /\ pc[n] = "lease" => pc'[n] # "claim"]_vars

\* An ack is "proof that the state now exists in two places" (phase_restore).
AckProvesRestore ==
    \A c \in Run : ack[c] # NoRun /\ c \in committed => digest[c] \subseteq tree[ack[c]]

\* Without a workload the node "still snapshots WORK_DIR, and still migrates"
\* (SETUP.md): where no call fails, no successor dies in verifying its restore.
NodeMigrates == [][\A n \in Run : pc[n] = "verify" => pc'[n] # "failed"]_vars
=============================================================================
