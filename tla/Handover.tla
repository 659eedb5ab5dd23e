------------------------------ MODULE Handover ------------------------------
(***************************************************************************)
(* Acknowledging a restore, dispatching a successor, waiting for its       *)
(* acknowledgement, the emergency handover of the EXIT trap, and draining  *)
(* (runner/lib/handover.sh, drain.sh and the handlers of lifecycle.sh).    *)
(* ACK_TIMEOUT_SECONDS may have passed at any turn of wait_for_ack.        *)
(***************************************************************************)
EXTENDS Lease

\* Mutant: the answer is the one cached at startup.
ReadsClearCached == Works

\* killswitch_engaged: a failed read counts as "not engaged".
ReadsEngaged == killSwitch /\ Works
ReadsClear == (~killSwitch /\ Works) \/ (killSwitch /\ Fails("killswitch"))

\* The end of phase_restore: the ack names LAST_GOOD_COMMIT, whatever snapshot
\* was restored, and failing to write it is only warned about.  Then the
\* workload starts; "restored" and "running" heartbeats surround that.
Acknowledge(n) ==
    /\ At(n, "ack")
    /\ \/ /\ Works
          /\ ack' = IF lastGood[n] = NoRun THEN ack ELSE [ack EXCEPT ![lastGood[n]] = n]
       \/ lastGood[n] # NoRun /\ Fails("ack") /\ UNCHANGED ack
    /\ Heartbeats
    /\ Goto(n, "running")
    /\ UNCHANGED <<leaseVars, killSwitch, storeVars, githubVars,
                   exitVars, treeVars, outsideVars>>

-----------------------------------------------------------------------------
(* The planned handover *)

\* The check at the head of phase_handover.
CheckBeforeHandover(n) ==
    /\ At(n, "handover")
    /\ \/ /\ ReadsEngaged
          /\ reason' = [reason EXCEPT ![n] = "killswitch"]
          /\ Goto(n, "drain")
       \/ ReadsClear /\ UNCHANGED reason /\ Goto(n, "dispatch")
    /\ UNCHANGED <<leaseVars, heartbeat, killSwitch, storeVars, ack, githubVars,
                   lastGood, handoverDone, scrubbed, treeVars, outsideVars>>

\* The workflow's reason input is a choice without "killswitch": GitHub rejects it.
CanDispatch(n) == reason[n] # "killswitch" /\ HasCapacity

\* dispatch_successor, called in step `at': GitHub accepts and the script goes on
\* in `accepted', or all attempts fail and it goes on in `refused'.  A dispatch
\* whose reply is lost has been accepted, and the next attempt repeats it.
DispatchSuccessor(n, at, accepted, refused) ==
    /\ At(n, at)
    /\ \/ CanDispatch(n) /\ Works /\ Enqueue(n, lastGood[n]) /\ Goto(n, accepted)
       \/ CanDispatch(n) /\ Fails("reply") /\ Enqueue(n, lastGood[n]) /\ UNCHANGED pc
       \/ /\ (~CanDispatch(n) /\ Works) \/ Fails("dispatch")
          /\ UNCHANGED githubVars /\ Goto(n, refused)
    /\ UNCHANGED <<leaseVars, heartbeat, killSwitch, storeVars, ack,
                   exitVars, treeVars, outsideVars>>

Dispatch(n) == DispatchSuccessor(n, "dispatch", "await", "drain")
\* The second dispatch is followed by the second wait whether or not it succeeded.
Redispatch(n) == DispatchSuccessor(n, "redispatch", "reawait", "reawait")

\* Mutant: every window that passes is followed by another dispatch.
AfterTimeoutAgain(n) == IF pc[n] = "emergencyAwait" THEN "drain" ELSE "redispatch"

\* The step that follows a wait_for_ack when it returns 1.
AfterTimeout(n) ==
    CASE pc[n] = "await" -> "redispatch"
      [] pc[n] = "reawait" -> "drain"
      [] pc[n] = "emergencyAwait" -> "drain"

AckSeen(n) ==
    /\ pc[n] \in AwaitSteps
    /\ ack[lastGood[n]] # NoRun
    /\ handoverDone' = [handoverDone EXCEPT ![n] = TRUE]
    /\ Goto(n, "drain")
    /\ UNCHANGED <<leaseVars, heartbeat, killSwitch, storeVars, ack, githubVars,
                   lastGood, reason, scrubbed, treeVars, outsideVars, faults>>

AckTimeout(n) ==
    /\ pc[n] \in AwaitSteps
    /\ Goto(n, AfterTimeout(n))
    /\ UNCHANGED <<leaseVars, heartbeat, killSwitch, storeVars, ack, githubVars,
                   exitVars, treeVars, outsideVars, faults>>

\* A turn of the loop without either: the lease is rewritten, whoever holds it.
RenewWhileWaiting(n) ==
    /\ pc[n] \in AwaitSteps
    /\ WriteLease(n)
    /\ Heartbeats
    /\ UNCHANGED <<killSwitch, storeVars, ack, githubVars, pc,
                   exitVars, treeVars, outsideVars, faults>>

-----------------------------------------------------------------------------
(* The emergency handover *)

\* The head of emergency_handover: HANDOVER_DONE is set, the workload thawed, the
\* heartbeat says "failed", and the kill switch is looked at.  Once the key file
\* is gone every read fails, hence "not engaged".
EnterEmergency(n) ==
    /\ At(n, "failed")
    /\ handoverDone' = [handoverDone EXCEPT ![n] = TRUE]
    /\ IF RcloneWorks(n) THEN Heartbeats ELSE UNCHANGED heartbeat
    /\ \/ RcloneWorks(n) /\ ReadsEngaged /\ UNCHANGED reason /\ Goto(n, "drain")
       \/ /\ (RcloneWorks(n) /\ ReadsClear) \/ (~RcloneWorks(n) /\ Works)
          /\ reason' = [reason EXCEPT ![n] = "emergency"]
          /\ Goto(n, "emergencyDispatch")
    /\ UNCHANGED <<leaseVars, killSwitch, storeVars, ack, githubVars,
                   lastGood, scrubbed, treeVars, outsideVars>>

\* The wait is skipped when there is no commit to wait for.  Once GH_PAT is
\* unset, gh_api dies, and no trap is left.
DispatchInEmergency(n) ==
    \/ /\ ~scrubbed[n]
       /\ DispatchSuccessor(n, "emergencyDispatch",
              IF lastGood[n] = NoRun THEN "drain" ELSE "emergencyAwait", "drain")
    \/ /\ scrubbed[n] /\ At(n, "emergencyDispatch")
       /\ Goto(n, "exited")
       /\ UNCHANGED <<leaseVars, heartbeat, killSwitch, storeVars, ack, githubVars,
                      exitVars, treeVars, outsideVars, faults>>

-----------------------------------------------------------------------------
(* Draining *)

\* drain_workload (the planned path only), then drain_node up to the release: the
\* workload and the tunnel stop, the heartbeat says "handover_complete", and the
\* credentials are scrubbed.
Drain(n) ==
    /\ At(n, "drain")
    /\ IF RcloneWorks(n) THEN Heartbeats ELSE UNCHANGED heartbeat
    /\ scrubbed' = [scrubbed EXCEPT ![n] = TRUE]
    /\ Goto(n, "release")
    /\ UNCHANGED <<leaseVars, killSwitch, storeVars, ack, githubVars,
                   lastGood, reason, handoverDone, treeVars, outsideVars, faults>>
=============================================================================
