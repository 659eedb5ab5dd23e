-------------------------------- MODULE Lease --------------------------------
(***************************************************************************)
(* The single-writer lease, state/lease.json (runner/lib/lease.sh).        *)
(* Reading the file and writing it are two calls to Drive with no          *)
(* precondition between them, so they are two steps here.  The wait of     *)
(* LEASE_WAIT_SECONDS may end at any time; LeaseAges is the passing of     *)
(* LEASE_STALE_SECONDS since the holder last wrote.                        *)
(***************************************************************************)
EXTENDS Cluster

\* Mutant: the run key of another run is written.
WriteLeaseOfNext(n) == lease' = n + 1 /\ leaseFresh' = TRUE

\* What a call of lease_write does to the file.
WriteLease(n) == lease' = n /\ leaseFresh' = TRUE

\* The read of lease_acquire: no file, an unreadable one and a stale one all
\* lead to a write; one's own is already acquired.
ReadLease(n) ==
    /\ At(n, "lease")
    /\ \/ /\ lease = NoRun \/ ~leaseFresh
          /\ lease # n
          /\ Goto(n, "claim") /\ Works
       \/ lease = n /\ Goto(n, "select") /\ Works
       \/ Fails("lease") /\ Goto(n, "claim")
    /\ UNCHANGED <<leaseVars, heartbeat, killSwitch, storeVars, ack, githubVars,
                   exitVars, treeVars, outsideVars>>

\* Mutant: no deadline.
LeaseTimeoutNever(n) == FALSE

\* Someone else's fresh lease, and the deadline has passed: die.
LeaseTimeout(n) ==
    /\ At(n, "lease")
    /\ lease \notin {NoRun, n} /\ leaseFresh
    /\ Goto(n, "failed")
    /\ Works
    /\ UNCHANGED <<leaseVars, heartbeat, killSwitch, storeVars, ack, githubVars,
                   exitVars, treeVars, outsideVars>>

\* The write overwrites whatever is there.  When it is reported to have failed,
\* the file may have been replaced all the same, and the loop reads it again.
ClaimLease(n) ==
    /\ At(n, "claim")
    /\ \/ Works /\ WriteLease(n) /\ Goto(n, "select")
       \/ Fails("claim") /\ (WriteLease(n) \/ UNCHANGED leaseVars) /\ Goto(n, "lease")
    /\ UNCHANGED <<heartbeat, killSwitch, storeVars, ack, githubVars,
                   exitVars, treeVars, outsideVars>>

\* lease_release deletes the file without looking whose it is, and is the last
\* thing drain_node does.
ReleaseLease(n) ==
    /\ At(n, "release")
    /\ \/ RcloneWorks(n) /\ Works /\ lease' = NoRun /\ leaseFresh' = FALSE
       \/ ~RcloneWorks(n) /\ Works /\ UNCHANGED leaseVars
       \/ Fails("release") /\ UNCHANGED leaseVars
    /\ Goto(n, "exited")
    /\ UNCHANGED <<heartbeat, killSwitch, storeVars, ack, githubVars,
                   exitVars, treeVars, outsideVars>>

\* Only the loop of wait_for_ack renews, so a lease ages under any other holder.
LeaseAges ==
    /\ "lease" \in MayAge
    /\ lease # NoRun /\ leaseFresh
    /\ pc[lease] \notin AwaitSteps
    /\ leaseFresh' = FALSE
    /\ UNCHANGED <<lease, heartbeat, killSwitch, storeVars, ack, githubVars, pc,
                   exitVars, treeVars, outsideVars, faults>>
=============================================================================
