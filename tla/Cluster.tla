------------------------------- MODULE Cluster -------------------------------
(***************************************************************************)
(* The state that the node lifecycle (runner/) works on: the shared Drive  *)
(* folder, GitHub's queue of dispatched runs, and the shell variables each  *)
(* run keeps.  The modules Lease, Snapshot, Handover and Fleet extend this  *)
(* one and hold the actions.                                               *)
(*                                                                         *)
(* A run is numbered by the order in which its script started, so the      *)
(* order of run numbers is the order of SNAPSHOT_TS, the snapshot's name.  *)
(***************************************************************************)
EXTENDS Integers, FiniteSets

CONSTANTS
    MaxRuns,      \* bound: runs ever dispatched
    Keep,         \* max(BACKUP_RETENTION, 2)
    MaxFaults,    \* bound: calls to Drive or GitHub that go wrong
    MaxKills,     \* bound: runs cancelled or reclaimed
    MaxCommands,  \* bound: operator commands (kill switch flips, dispatches)
    Faults,       \* the kinds of call that may go wrong
    Commands,     \* the operator commands that may be given
    MayAge,       \* which records may outlive their staleness threshold
    Freezes,      \* WORKLOAD_PATTERN matches every process writing WORK_DIR
    PollSet,      \* the environment defines KILLSWITCH_POLL_SECONDS
    Scheduled,    \* the workflow's schedule, hence the watchdog, is enabled
    OAuth,        \* rclone is authenticated by RCLONE_DRIVE_TOKEN, not by a key file
    Missing       \* a model value: no such file

FaultKinds ==
    {"preflight", "lease", "claim", "list", "copy", "fetch", "ack", "hash",
     "upload", "truncate", "commit", "prune", "killswitch", "marker", "dispatch",
     "reply", "release",
     "heartbeat"}

ASSUME ConstantsAssumption ==
    /\ MaxRuns \in Nat \ {0}
    /\ Keep \in Nat /\ Keep >= 2
    /\ MaxFaults \in Nat /\ MaxKills \in Nat /\ MaxCommands \in Nat
    /\ Faults \subseteq FaultKinds
    /\ Commands \subseteq {"engage", "clear", "failover", "manual"}
    /\ MayAge \subseteq {"lease", "heartbeat"}
    /\ {Freezes, PollSet, Scheduled, OAuth} \subseteq BOOLEAN

Run == 1..MaxRuns
NoRun == 0
RunOrNone == 0..MaxRuns

ASSUME MissingAssumption == \A files \in SUBSET Run : files # Missing

VARIABLES
    \* ---- Drive
    lease,        \* the run_key in state/lease.json, NoRun when there is no file
    leaseFresh,   \* its heartbeat_unix is at most LEASE_STALE_SECONDS old
    heartbeat,    \* heartbeat.json: "none", "fresh" or "stale"
    killSwitch,   \* KILLSWITCH.json says engaged
    snapshot,     \* snapshots/<ts>/: its MANIFEST.sha256 and its files
    committed,    \* the runs with a record in state/COMMIT
    parent,       \* the parent each commit record names
    digest,       \* the manifest each commit record's manifest_sha256 stands for
    ack,          \* the run that last wrote state/ACK/<commit>.json
    \* ---- GitHub
    started,      \* number of runs whose script has started
    queue,        \* dispatched runs whose script has not started
    dispatches,   \* per dispatcher, the number of dispatches GitHub accepted
    \* ---- shell variables of each run
    pc,           \* the step the script is about to perform
    lastGood,     \* LAST_GOOD_COMMIT
    reason,       \* NODE_REASON
    handoverDone, \* HANDOVER_DONE
    scrubbed,     \* scrub_credentials has run
    base,         \* the snapshot restore_from_drive selected
    tree,         \* WORK_DIR: the runs whose work it contains
    manifest,     \* PIPE_DIR/MANIFEST.sha256: the tree it describes
    doomed,       \* the directories backup_prune still has to purge
    \* ---- the rest
    appSwitch,    \* the desktop app's own kill switch flag
    watchdog,     \* the step the scheduled watchdog is about to perform
    sealed,       \* history: runs that meet only an engaged kill switch
    faults, kills, commands  \* what is left of the bounds

leaseVars == <<lease, leaseFresh>>
storeVars == <<snapshot, committed, parent, digest>>
githubVars == <<started, queue, dispatches>>
exitVars == <<lastGood, reason, handoverDone, scrubbed>>
treeVars == <<base, tree, manifest, doomed>>
outsideVars == <<appSwitch, watchdog, sealed, kills, commands>>
vars == <<leaseVars, heartbeat, killSwitch, storeVars, ack, githubVars, pc,
          exitVars, treeVars, outsideVars, faults>>

-----------------------------------------------------------------------------

RestoreSteps == {"select", "copy", "verify"}
BackupSteps == {"manifest", "upload", "check", "record"}
AwaitSteps == {"await", "reawait", "emergencyAwait"}
EmergencySteps == {"failed", "emergencyDispatch", "emergencyAwait"}
DrainSteps == {"drain", "release"}
Ended == {"unborn", "exited"}
Steps ==
    {"lease", "claim", "ack", "running", "adopt", "purge", "handover",
     "dispatch", "await", "redispatch", "reawait"}
    \union RestoreSteps \union BackupSteps \union EmergencySteps
    \union DrainSteps \union Ended

Content == SUBSET Run
Directory == [manifest : {Missing} \union Content, files : {Missing} \union Content]
NoDirectory == [manifest |-> Missing, files |-> Missing]
Request == [origin : RunOrNone, number : Nat, commit : RunOrNone]

LeaseTypeOK == lease \in RunOrNone /\ leaseFresh \in BOOLEAN
SignalTypeOK ==
    /\ heartbeat \in {"none", "fresh", "stale"}
    /\ killSwitch \in BOOLEAN
    /\ ack \in [Run -> RunOrNone]
StoreTypeOK ==
    /\ snapshot \in [Run -> Directory]
    /\ committed \subseteq Run
    /\ parent \in [Run -> RunOrNone]
    /\ digest \in [Run -> {Missing} \union Content]
GithubTypeOK ==
    /\ started \in RunOrNone
    /\ queue \subseteq Request
    /\ dispatches \in [RunOrNone -> Nat]
ShellTypeOK ==
    /\ pc \in [Run -> Steps]
    /\ lastGood \in [Run -> RunOrNone]
    /\ reason \in [Run -> {"cycle", "killswitch", "emergency"}]
    /\ handoverDone \in [Run -> BOOLEAN] /\ scrubbed \in [Run -> BOOLEAN]
TreeTypeOK ==
    /\ base \in [Run -> RunOrNone]
    /\ tree \in [Run -> Content]
    /\ manifest \in [Run -> {Missing} \union Content]
    /\ doomed \in [Run -> SUBSET Run]
OutsideTypeOK ==
    /\ appSwitch \in BOOLEAN
    /\ watchdog \in {"off", "heartbeat", "dispatch"}
    /\ sealed \subseteq Run
    /\ faults \in Nat /\ kills \in Nat /\ commands \in Nat

TypeOK ==
    /\ LeaseTypeOK /\ SignalTypeOK /\ StoreTypeOK /\ GithubTypeOK
    /\ ShellTypeOK /\ TreeTypeOK /\ OutsideTypeOK

\* The Drive folder and the repository are empty; nothing has been dispatched.
Init ==
    /\ lease = NoRun /\ leaseFresh = FALSE
    /\ heartbeat = "none"
    /\ killSwitch = FALSE
    /\ snapshot = [n \in Run |-> NoDirectory]
    /\ committed = {}
    /\ parent = [n \in Run |-> NoRun]
    /\ digest = [n \in Run |-> Missing]
    /\ ack = [n \in Run |-> NoRun]
    /\ started = 0
    /\ queue = {}
    /\ dispatches = [o \in RunOrNone |-> 0]
    /\ pc = [n \in Run |-> "unborn"]
    /\ lastGood = [n \in Run |-> NoRun]
    /\ reason = [n \in Run |-> "cycle"]
    /\ handoverDone = [n \in Run |-> FALSE]
    /\ scrubbed = [n \in Run |-> FALSE]
    /\ base = [n \in Run |-> NoRun]
    /\ tree = [n \in Run |-> {}]
    /\ manifest = [n \in Run |-> Missing]
    /\ doomed = [n \in Run |-> {}]
    /\ appSwitch = FALSE
    /\ watchdog = "off"
    /\ sealed = {}
    /\ faults = MaxFaults /\ kills = MaxKills /\ commands = MaxCommands

-----------------------------------------------------------------------------

At(n, step) == pc[n] = step
Goto(n, step) == pc' = [pc EXCEPT ![n] = step]

Works == UNCHANGED faults
\* One call of this kind exhausts its retries, or is interrupted.
Fails(kind) == kind \in Faults /\ faults > 0 /\ faults' = faults - 1

\* rclone can still authenticate: scrub_credentials shreds the key file, and
\* leaves the exported OAuth token alone.
RcloneWorks(n) == OAuth \/ ~scrubbed[n]

\* heartbeat_write: never fatal; a stretch of failed ones is HeartbeatsLost (Fleet).
Heartbeats == heartbeat' = "fresh"

Live(n) == pc[n] \notin Ended
Exists(d) == d # NoDirectory
Directories == {n \in Run : Exists(snapshot[n])}

\* GitHub accepts a dispatch of the workflow by `origin' (NoRun for the watchdog
\* and the operator) with the given commit input, as long as MaxRuns allows.
HasCapacity == started + Cardinality(queue) < MaxRuns
Enqueue(origin, commit) ==
    /\ HasCapacity
    /\ dispatches' = [dispatches EXCEPT ![origin] = @ + 1]
    /\ queue' = queue \union
          {[origin |-> origin, number |-> dispatches[origin] + 1, commit |-> commit]}
    /\ UNCHANGED started
=============================================================================
