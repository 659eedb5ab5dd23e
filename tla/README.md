# node-runner: specification and proofs

node-runner keeps one workload alive on GitHub Actions for ever: each run of the
workflow restores the newest snapshot from a Google Drive folder, serves for 340
minutes, freezes the workload, uploads and commits a new snapshot, dispatches its own
successor and drains.  A desktop app holds the credentials in an encrypted vault,
watches the loop, and can stop it or dispatch a run by hand.  This directory holds TLA+
specifications of that program, TLC configurations that check them, and TLAPS proofs.

## 1. Inventory

| Component | State | Operations | What makes it correct |
|---|---|---|---|
| Lifecycle script (`runner/lifecycle.sh`) | shell variables of one run, the step it is at, its EXIT/TERM/INT traps | preflight, restore, start workload, gate, snapshot, backup, handover, emergency handover | every run ends; a failure neither multiplies the loop nor kills it |
| Lease (`lib/lease.sh`) | `state/lease.json` | acquire (read, judge, write), renew, release | one writer at a time; nobody waits for ever |
| Snapshots (`lib/restore.sh`, `backup.sh`, `manifest.sh`, `freeze.sh`) | `snapshots/<ts>/`, `state/COMMIT/<ts>.json`, the work directory | select, copy, verify, freeze, hash, upload, check, record, prune | what is committed can be restored, and is what was vouched for |
| Handover and drain (`lib/handover.sh`, `drain.sh`) | GitHub's queue, `state/ACK/...` | dispatch with retries, wait for the ack, drain, scrub | bounded dispatches, no circular wait |
| Shared library (`lib/common.sh`) | `heartbeat.json`, `KILLSWITCH.json`, credentials | retry, heartbeat, read the kill switch, GitHub calls | an engaged switch ends the loop |
| Watchdog (`watchdog.sh`, the schedule of `runner.yml`) | none of its own | check switch, read heartbeat, dispatch | a dead loop is started again |
| Vault library (`desktop/nrvault`) | `vault.bin`, `.bak`, `.tmp`, `vault.meta.json` | seal, unseal, rotate, update, save, destroy | a crash leaves the old vault or the new one; what was saved can be opened |
| App state and commands (`desktop/src-tauri`: `state.rs`, `commands.rs`, `lib.rs`) | the unlocked session, the cached Drive client, settings, the kill switch flag | 23 commands, the tray, auto-lock | locked means locked; no acknowledged edit is lost |
| GitHub and Drive clients (`gh/`, `drive/`) | cached token, etag, node status | poll, dispatch, ledger, heartbeat, stop marker, secret upload | the dashboard shows the state of the latest run; a cached token is fresh |
| Dashboard (`desktop/src/*.ts`) | view state, countdown | render, call commands | shows what the commands return |
| Tool installer, icon script, CI workflow, mock data | none | build time only | not part of the running system |

**Interactions.**  Runs never talk to each other: they share the Drive folder (lease,
commit records, acks, heartbeat, kill switch) without any precondition on a write, and
dispatch one another through GitHub's API.  The watchdog reads the heartbeat and
dispatches.  The app writes the kill switch marker and dispatches, and reads heartbeat
and ledger.  Inside the app, synchronous commands run on the main thread, asynchronous
ones on a thread pool, beside the poller and the auto-lock task; they share the session
mutex, which no command holds from its first read to its last write.

**What is hard.**  Two live runs overlap by design.  Reading a file and acting on it are
separate calls everywhere (lease, kill switch, heartbeat, ack).  A run may be cancelled
at any step, with a trap that runs a second handover, or reclaimed with none.  Every
call to Drive or GitHub may fail after its retries, some after having taken effect.
`set -e` is off wherever a function is called in a condition.  The list with lines is
`hazards` in `PROJECT.json`.

## 2. Modules

| Module | Models |
|---|---|
| `Cluster` | the shared state (Drive folder, GitHub queue, shell variables of each run), the type invariant, the initial state |
| `Lease` | `lease.sh`: reading and writing are two steps, ageing is a step of its own |
| `Snapshot` | `restore.sh`, `freeze.sh`, `manifest.sh`, `backup.sh` |
| `Handover` | `handover.sh`, `drain.sh`, `emergency_handover`, `killswitch_engaged` |
| `Fleet` | composes `Snapshot` and `Handover` into runs, and adds GitHub starting them, cancellation and loss of runs, the watchdog and the operator |
| `FleetProperties` | the properties, and the claims of comments and documents that the code does not keep |
| `MCFleet` | fault sets for TLC |
| `FleetTypes`, `LoopProofs`, `SnapshotProofs` | proofs |
| `AtomicFile` | the files of the vault directory and the system calls of `atomic.rs` |
| `VaultStore` | the vault commands of `commands.rs`, `store.rs` beneath them, the session |
| `AtomicVault` | what the vault promises, without files: none or one whole envelope |
| `VaultProperties` | the refinement of `AtomicVault` and the other properties of the vault |
| `VaultTypes`, `VaultProofs` | proofs |
| `Desktop` | the app around its vault: session, cached Drive client, Drive folder, stop switch, its file and its marker, dispatching, auto-lock, restarts |
| `MCDesktop` | symmetry for TLC |
| `DesktopProofs` | proofs |
| `Sealing` | the envelope of `vault.rs` with ideal cryptography: what each key, nonce and tag binds, both ways to open it, edits, rotations, accidents |
| `Poller` | the status on the dashboard and the task that refreshes it with conditional requests |
| `TokenCache` | the access tokens of a Drive client with overlapping requests |
| `Injection` | the upload of credentials as secrets of the repository |
| `LogTail` | the app's log and the cursor of the dashboard |
| `IdleLock` | how long an unlocked session may stay idle |
| `SealingProofs`, `AppProofs` | proofs, the latter of the last five |
| `MCApp` | `VaultProperties` and these six, each explored by itself |

**How state and actions correspond to the code.**  A run is a number: the order in which
scripts start, which is the order of `SNAPSHOT_TS` and so of snapshot names.  `pc[n]` is
the call the script of run `n` makes next; an action is what the script does from one
call to Drive or GitHub that others can observe up to the next.  Heartbeats around an
action are part of it.  `LAST_GOOD_COMMIT` is `lastGood`, `HANDOVER_DONE` is
`handoverDone`, `NODE_REASON` is `reason` (only "killswitch" and "emergency" matter:
GitHub rejects the former as a value of the `reason` input).  The workload has one file,
whose content is the set of runs whose work it holds; a manifest is the content it
describes, so hashing and checking are equality of sets, and so is verifying, except that the
manifest of an empty tree, which has no lines, never verifies.

In the vault, `call[t]` is the command that thread `t` runs and `step` the system call it
makes next (`create`, `write`, `backup`, `copy`, `rename` are the lines of `write_atomic`,
`zero` and `unlink` those of `wipe`).  `target[t]` is the open file handle: it follows the
file through a rename, as handles do.  An envelope is the passphrase that opens it and the
set of edits its payload contains; `session` is the payload in memory; `acked` is history,
the edits whose command returned Ok.  Since every sealing draws fresh nonces, two sealings
are never equal in the program; in the model two are equal only when they have the same
edits and passphrase, which `MaxPass` and `MaxEdits` (each new one is used once) rule out
except for a save that follows a failed one.

In `Desktop`, `main` is the step of the synchronous command on the main thread, `auto` that
of the auto-lock task, and `call[p]` the asynchronous command on thread `p`: `folder`,
`key`, `cache` and `keep` are the steps of `AppState::drive` (each under its own lock),
`find` and `put` those of `set_killswitch`.  The payload is reduced to the Drive credential
in it, since `VaultStore` says what saving it does; `VaultStore` and `Desktop` share the
commands, each with the half it is about.  `markers[f]` lists the stop markers of a folder
newest first, the order in which `find_child` sees them.  History variables say what was
answered: `stopped` that a stop which no other stop command overlapped (`alone`) was answered
and the switch not touched since, `marked` the folder in which the latest stop command
(`last`), overlapped or not, reported to have written a stop; `held` is what the session held
since `drive()` was called.  `Fleet` sees of all this only the operator's commands; there the folder has one
marker.

The six smaller modules share no state with one another.  In `Sealing` a ciphertext is the
record of the key, nonce, associated data and text it was made of, and opens for exactly
those; `WrapKey` stands for Argon2id and HKDF, `OsWrapped` for DPAPI (both give a key of its
own to every input), and everything random is the number of the write that drew it.  `Damage`
replaces one part of the file by garbage or by the same part of an earlier generation.  Of
the checks of `from_bytes` only the bound on the cost is modelled, which is the only one
that a plausible accident to a header of the right length passes or fails by chance.  In
`Poller` `step` is the next lock or request of `refresh`, `asked` its snapshot of the
settings; an etag is the answer it came with.  In `TokenCache` `request[r].now` is the clock
as `token()` read it, and time passes while an exchange or a request is on its way, up to
its timeouts; a laptop that sleeps in the middle of a call is not modelled.  In `Injection`
the vault may be edited or locked, and the repository's key replaced, between any two
requests; a box sealed to key `k` is stored only while `k` is current, as GitHub does with
`key_id`, and an answer may be lost after a write arrived.  In `LogTail` a line is its
sequence number, `poll[p]` a poll that was sent and is answered later, and `seen` what the
dashboard has shown, under the number it computed.  `IdleLock` counts `idle` in ticks of a
clock that does not run while the task decides; `Desktop` has the same task with the time
left open.

**Failures.**  `Faults` names the kinds of call that may exhaust their retries, and
`MaxFaults` how many do.  A fault does what the shell then does: dies (and the EXIT trap
runs the emergency handover), warns and goes on, or reads as "nothing there".  "commit"
and "claim" faults include a write that arrived although it was reported as failed,
"truncate" an upload that exits 0 without being whole, "reply" a dispatch that GitHub
accepted without the answer arriving, "hash" a manifest that could not be computed, and
"heartbeat" a stretch of lost heartbeats or one failed read of it.  `Terminate` is
SIGTERM or SIGINT at any step, `Kill` the loss of the machine.

**Time.**  Deadlines are nondeterministic: `AckTimeout` and `LeaseTimeout` may happen at
any turn of their loops, `LeaseAges` and `HeartbeatAges` (constant `MayAge`) at any point
where the holder does not renew: a lease is renewed only while waiting for an ack, a
heartbeat is written in the gate and in that wait.  So the checks hold for every choice
of `ACK_TIMEOUT_SECONDS`, `LEASE_WAIT_SECONDS` and the staleness thresholds.

## 3. Runs and bounds

| Run | Instance | Checks and shows |
|---|---|---|
| `handover` | 4 runs, the first started by hand, 1 truncated upload or failing copy, manifest or record | `DispatchesAreBounded`: a run dispatches at most two successors, plus one per failure; `CommittedVerifies`, `RunsOnVouchedTree`: a committed snapshot matches its manifest and a workload starts on the tree its record vouches for; `NewestIsRestorable`: the snapshot the next restore selects is there and verifies, unless its tree is empty or `Keep` directories have newer names |
| `killswitch` | 2 runs, 1 cancellation or loss, 1 failing call, 3 operator commands, key-file credentials | `TypeOK`, `NoRestoreOfUnfinished`, `KillSwitchEndsLoop`: whoever still has its check ahead dispatches nobody |
| `recovery` | 2 runs that wait for each other, watchdog, 1 failing call, a switch that is engaged, fair | `RunsEnd`, `GracefulStop`, `LoopRecovers`: no circular wait, a stop commits, and a loop that died is started again |
| `poll_unset`, `failover`, `hollow_ack`, `empty_tree` | 2 runs, no or one failing call | one claim each, violated, see below |
| `app`, files | 2 edits, 2 passphrases, 2 failing calls, 1 crash, one command at a time | `KeepsPromise` (refinement of `AtomicVault`, for which an unreadable `vault.bin`, as an interrupted destroy leaves it, is none), `PreviousGenerationKept`, `DestroyLeavesNothing`, `TypeOK`, no deadlock; `AlarmsHaveCause`: without a crash or a failed call no mistyped passphrase is recorded as tampering |
| `app`, envelope | 3 envelopes written, 2 passphrases, 2 costs, 2 accidents | `BothPathsOpen`: edits that never see the passphrase, and rotations, keep both ways in; `OpenedIsWhole`: only an envelope as written opens; `ErrorsTellApart`: damage and a wrong passphrase are not mistaken for one another; `NoncesAreFresh`: no nonce twice under a key |
| `app`, poller | 2 repositories, one with 2 runs, 3 instants, cycle of 1 | `EtagVouches`: what is shown belongs to the answer of the etag; `CountdownFollowsServer`: an active run's countdown is GitHub's |
| `app`, tokens | 2 overlapping requests, lifetime 4, margin 2, 10 ticks | `SentTokensAreFresh` |
| `app`, injection | 2 overlapping uploads of 2 credentials, 2 values, 2 repository keys | `StoresOnlyReadable`: nothing is stored for a replaced key; `ReportsAreTrue`: a secret reported as stored has the vault's value |
| `app`, log | 2 overlapping polls, 2 lines kept of 4 | `NothingSkipped`, `LabelsAreTrue` |
| `app`, idle | limits of 2, 3 and 5 ticks, period of 2 | `LockedInTime` |
| `desktop` | 2 threads, 2 credentials, 1 folder that may be cleared, 2 markers | `ClientsHoldLiveKey`: a client belongs to a credential the open session held; after a stop that overlapped no other stop command, `StoppedStaysStopped`: nobody is dispatched, restarts included, and `MarkerSaysStop`: when the marker was reported as written, the one found first says stop; `TypeOK`, no deadlock |
| `late_release` | 2 threads, 1 credential, 2 markers | `AnsweredStopIsMarked` violated |
| `vault_race` | as the files of `app`, with overlapping commands, no failure, no crash | `RotationKeepsEdits` violated |
| `stale_status` | 1 repository, 1 run | `NotModifiedIsCurrent` violated |

The rows of `app` are one run: its seven parts share no state, so `MCApp` explores one
behaviour of one part at a time (`part`) and leaves the others where they start, which visits
the sum of their states and not the product.  Every part also has its type invariant.

In the fleet and the vault nothing is symmetric (runs and edits are ordered); in `desktop`
the threads and the credentials are, and no property is a liveness property.  In the runs of the
fleet deadlock is not checked: the loop ends by design, when the kill switch is engaged, a dispatch fails
without a watchdog, or the bound `MaxRuns` is exhausted.  Bounds: `MaxRuns` runs,
`MaxFaults` failing calls, `MaxKills` cancellations, `MaxCommands` commands; all are
counters in guards.  Two runs are enough for the relations between a run and its
predecessor; three for one run pruning while two others restore and upload; four for a
predecessor, its two successors and a stray one.  `handover` has, for the size of its
state space, only the failures a verified snapshot could suffer from (`killswitch` has the
others, with two runs), and one of them; its four properties are theorems for any budget and any kind
but hashing.  In `recovery` no run is lost with its machine: what that leaves to the others, a
lease nobody releases and a heartbeat that grows old, a failed release leaves too, and a
cancellation besides would multiply the states beyond what liveness checking bears.
Cancellations and losses are in `killswitch`.  Retention is 2, the smallest value
`backup_prune` accepts, so that pruning happens within the bounds.

In the files of `app`, two edits and two passphrases give a backup, a rotation and a second save; two
failures and one crash reach a failure while recovering from a failure, at every system
call.  Deadlock is checked: a user can always try to unlock, so a command that never
answers would show.  There is one command at a time, as a user who waits for answers
does (`Concurrent = FALSE`); with overlapping commands the refinement does not hold, as
`vault_race` shows.

Three writes of an envelope are a vault, an edit and a rotation in either order, and give
every part two earlier versions to be replaced with; two accidents can damage a part and
what it is checked against.  At these bounds an envelope stays as it is (`MCApp` lets it
stutter; the other parts can always move).  In the poller the second repository never has a
run (`Busy`): run numbers are global, so answers of two repositories that both have runs
never share an etag, and what differs is a repository without runs, whose listing they may
share.  Three instants are before, at and after the end of a cycle of 1.  A token of 4 ticks
is renewed with 2 left and a request lasts at most 2: the proportions that matter are those
of `TokenAssumption` (the timeouts, 20 s and 30 s, are within the margin of 300 s, which is
within the lifetime), and 10 ticks let a second generation of tokens expire.  Two uploads of
two credentials meet a replaced key, an edit and each other between any two requests; two
polls of a buffer of 2 are overtaken by overflow and by clearing.  The limits of `IdleLock`
are smaller than, between and larger than two periods.

In `desktop`, two threads give an overlap of any two asynchronous commands, beside the main
thread and the auto-lock; two credentials are the cached and the current one; two markers are
what two overlapping stops leave.  A third marker is not created (`MaxMarkers`): a stop then
fails as any other request may.  A folder that is replaced by another differs from one that
is cleared and set again only in where the marker goes, which `marked` names.

Every property of a passing run has a mutant in `PROJECT.json`: a plausible bug in a
mapped definition under which TLC finds the property violated.

**Fairness** (`FairSpec`): weak fairness of GitHub starting a queued run, of each run's
own steps (`Progress`: a script in a live job is scheduled and its loops are bounded by
deadlines, so a timeout counts as progress), of the scheduled watchdog (a cron job) and
of the heartbeat growing old.  The fairness of the watchdog is that of its working steps: while
the switch is engaged it starts only after a failed read, which no cron job is owed.  Nothing is
assumed of the operator, of failures, of cancellations or of optional activity (`Background`).

### What the code does differently from what it says

The runs expected to be violated show seven disagreements; `findings` quotes them.

* `KILLSWITCH_POLL_SECONDS` (lifecycle.sh:233) is defined nowhere; with `set -u` the gate
  dies on its first turn.  `PollSet = TRUE` is the program as intended, and what the
  other runs check.
* The lease is renewed only in `wait_for_ack`: 15 minutes into its gate a serving run's
  lease is stale, and any new run takes it.
* A failed listing of the commit records reads as "no commit": the run starts empty,
  acknowledges the commit it was given, and commits the empty tree as the newest.
* An empty work directory is committed with a manifest of no lines, which `sha256sum -c`
  refuses: the successor dies in its restore, and so does every later one, since all select
  the same record (`empty_tree`).  SETUP.md says that a node without a workload migrates.
* Two stop commands may overlap, since nothing orders their requests to Drive: the marker
  of a slow release may replace that of a stop that was answered as written meanwhile
  (`late_release`).  The loop then continues while the app shows the stop.
* `vault_rotate` re-seals the payload it loaded, on a pool thread; a secret saved and
  acknowledged on the main thread meanwhile is written over.
* After a 304 the poller computes the countdown from the start time without asking whether
  the run is active: a finished run counts down again (poller.rs:136 says that it has no
  remaining lifetime, api.rs:108 that the earlier status is still current).  The same answer
  keeps the phase "locked" or "no_credential" of a cycle in between.

More that the model does because the code does it, without a run of its own: a failed
`manifest_write` leaves the restore's manifest in place and the backup goes on, since
`errexit` is off inside `if ! backup_publish` (fault "hash", excluded from
`handover` and from the theorems about snapshots); pruning counts directories, committed or
not, and spares only the run's own snapshot, so that where runs overlap (a stale lease, a node
dispatched by hand) one may purge the newest committed snapshot of another, which is the case
`NewestIsRestorable` leaves out, and after one failed upload a run purges the snapshot it
restored, its fallback, before its commit is acknowledged; without `WORKLOAD_PATTERN` nothing
is frozen (`Freezes = FALSE`) and the files may disagree with the manifest, after which
every successor dies in verification, for there is no fallback to an older commit; with
a service-account key the drain shreds the key before the release of the lease, which
then always fails (`OAuth = FALSE`); a run that lost the wait for the lease overwrites
it from its emergency handover; two successors of one commit may both serve it, and the
later commit lacks the work of the earlier; clearing the kill switch lets the watchdog
start the loop again.

In the vault, likewise: two overlapping writers share one temporary name, so what is renamed
may be the bytes of both, and the copy in `vault.bak` as well (atomic.rs:4-6 speaks of crashes
only); a crash in `destroy` after `vault.bin` is zeroed leaves a file that exists and opens for
nobody, so creating, unlocking and destroying are all refused, and `recoverable_from_backup`,
which asks for an absent file, says no although the backup is whole; a crash between the rename of `vault.bin` and the write of its
fingerprint makes the next mistyped passphrase a recorded tampering although nobody touched
the file (`AlarmsHaveCause` names the exception), and with overlapping commands an unlock may
write an old fingerprint back; a damaged header is an error without a strike (SECURITY.md:140 counts it); a rotation
that reports an error for the metadata has changed the passphrase.

In the app around it, likewise: `drive()` caches its client after the session was locked or
the folder replaced, although commands.rs:213 drops the client "so its access token does not
outlive the unlock" and commands.rs:424 says that a changed folder invalidates it; a later
stop may so be reported as written when it went to the old folder.  Two overlapping first
stops create two markers; the app takes the newest, and which of them the node's
`rclone cat` reads is Drive's choice, so what is checked of the marker is what the app finds; overlapping
saves of `killswitch.json` share its temporary file and may leave either position, or a file
that reads as released.  A stop whose save fails is engaged until the next start only.  An
unlock or a rotation that ends after a lock opens the session again, and the auto-lock locks
a session opened between its two holds.  With no runs the
poller keeps `started_at`.  Not in a model, but seen in the code:
`FileResource` in ledger.rs has no camelCase renaming, so `mimeType` is never read and
`list_snapshots` filters out everything; the app never learns the slot, so a dispatch always
targets "blue".

In the envelope: an edit by the OS path does not verify the file before it writes new tags
over it (vault.rs:642), so a cost or a wrapped key that an accident has changed is vouched
for from then on, and the passphrase no longer opens the vault, with a matching fingerprint;
`UnlockRequest::either` never falls back to the OS path when the passphrase fails; a changed
payload nonce is reported as "integrity", since only the key wrap leaves it out; the flags
are refused for unknown bits in two of their three bytes only (vault.rs:325); a rotation
keeps the cost of the header, although commands.rs speaks of a freshly calibrated key; saves
and rotations keep the DEK, although aead.rs speaks of a fresh one on every seal.
`kdf_is_below`, `rekey` and `TokenCache::invalidate` have no caller, so a token that Google
has refused is used until it expires.  In the rest: of two overlapping uploads the older
value may stay; an upload that meets a lock reports its secrets as not present; overlapping
log polls may show a line twice; only setting and deleting a secret count as activity for
the auto-lock, which may also lock a session that was just used.

Assumed of cryptography: it is ideal, as above; and the accidents that change a file do not
know any key.

Assumed of the platform: a completed rename survives a crash, and is not seen before the
data synced ahead of it; a write through a handle goes to the file, whatever its name now.

## 4. Proofs

The theorems hold for every value of the constants that satisfies the assumptions of their
module, and are checked by `tlapm` with no assumption besides those stated below.  Those of
the fleet are about `Spec` and assume `ConstantsAssumption` and `MissingAssumption` (an
unbounded number of runs, faults and cancellations).

* `FleetTypes!TypeCorrect`: `Spec => [](TypeOK /\ Capacity /\ Selected)`.  `TypeOK` alone
  is not inductive: `Start` numbers the next run, which stays within `Run` only because
  started and queued runs together respect the bound (`Capacity`), and a copy reads the
  directory of `base`, which is a run only once something was selected (`Selected`).
  One lemma per action and per part of `TypeOK` the action touches.
* `LoopProofs!BoundedDispatches` (`DispatchesAreBounded`): the strengthening `Budget`
  bounds each run's dispatches by what its step still allows (`Allowance`) plus the
  faults and cancellations used so far; each dispatch lowers the allowance, and the only
  steps that raise it consume a fault or a cancellation.  `Unborn` says that a run that
  has not started has dispatched nobody.
* `LoopProofs!KillSwitchIsFinal` (`KillSwitchEndsLoop`, when reads of the switch do not
  fail): `Barred` says where a run in `sealed` can be: never between its check and its
  dispatch while the switch is on.
* `SnapshotProofs!RestoresFinished` (`NoRestoreOfUnfinished`): `RecordsAreFinal`, a record
  exists only for a run past its backup steps, and a run never returns to them.
* `SnapshotProofs!SnapshotsKeepTheirPromise` (`CommittedVerifies`) and
  `RunsServeVouchedTrees` (`RunsOnVouchedTree`), for a frozen workload and without the
  "hash" fault: `BackupIsFrozen` (from the manifest to the record, manifest, uploaded
  manifest and tree are equal), `RecordsVouch` (a committed directory holds what its
  record's digest stands for, or has lost it to a purge), `RestoreIsExact` (after the copy
  the tree is the digest of `base`), and `NoTrace` (a run that has not started has left
  nothing).
* `SnapshotProofs!NewestStaysRestorable` (`NewestIsRestorable`), under the same two
  conditions.  Its premise leaves out the two cases in which the code does strand its
  successors: a record of an empty tree (`empty_tree`), and `Keep` or more directories with
  newer names, over which pruning takes it.  `RetentionInv`: every directory some run is about to purge, and every
  committed one that has lost its files, is outranked by at least `Keep` newer directories.
  It survives purges by several runs at once, whose lists may be old, because a purge of
  `e` that lowers the rank of an older `d` leaves `d` all of the directories that outrank
  `e`.  A record written after its directory was purged is covered too: the check before
  it saw the files, so a purge came in between.
* `VaultTypes!VaultTypeCorrect`: `TypeOK` of the vault, with or without overlapping
  commands.  The strengthening `AllFit` says what each step relies on: an envelope about to
  be written or fingerprinted is complete (not a draft whose passphrase is still unknown),
  and an open handle is on the temporary file or, after another writer's rename, on the file
  itself.  It assumes `VaultAssumption`: the marks for absent, empty and torn files are not
  contents.
* `VaultProofs`: `VaultKeepsPromise` (the refinement `KeepsPromise`, step by step),
  `VaultKeepsGeneration` (`PreviousGenerationKept`), `DestroyedIsGone`
  (`DestroyLeavesNothing`) and `AlarmsAreJustified` (`AlarmsHaveCause`), for any number of
  failures and crashes, while one command runs at a time (`~Concurrent`).  That is the
  behaviour of a user who waits for answers; overlapping commands do lose edits
  (`vault_race`), so the hypothesis is needed.  A single command still takes many steps, and
  may fail or be cut off by a crash at each.  `Steady` says that at most one thread is busy
  and that its step determines the temporary file (complete from `backup` on), the backup,
  the open handle and what is to be saved: an envelope whose payload extends the
  stored one (an edit) or equals it (a rotation).  `CalmInv` says that,
  without a failed call or a crash, the recorded fingerprint is that of `vault.bin` except
  while a save or a destruction is replacing it, so only a changed file can look like
  tampering.
* `DesktopProofs`, for any number of overlapping commands: `DesktopTypeCorrect` (`TypeOK`)
  and `ClientsAreLive` (`ClientsHoldLiveKey`) from `Typed`, which adds to the types what a
  call holds at each step of `drive()`, in particular that the credential it copied is one
  the session has held since the call began; `StopsAreFinal` (`StoppedStaysStopped`) and
  `MarkersSayStop` (`MarkerSaysStop`) from `StopInv`: a stop that no other stop
  command overlaps decides the flag and then the file, an answered one has both, no marker is
  vouched for before it is answered, and a marker that was found stays in its folder.  Both
  theorems are about such stops only; what an overlapping release does is `late_release`.
* `SealingProofs`, for any number of writes, accidents, passphrases and costs, with ideal
  cryptography: `BothPathsStayOpen`, `OnlyWholeFilesOpen`, `ErrorsAreTold`, `NoncesStayFresh`
  and the type theorem `SealingTyped`.  `SealingInv` says of every envelope written that its
  parts were made for one another (`Genuine`) out of what was drawn so far (`Drawn`);
  that the nonce of a payload names its write, and a salt the key it was drawn with; that
  whatever an accident put into the file is garbage or part of one written earlier
  (`PartsAreOld`); and that an undamaged file opens (`UndamagedOpens`).
  `SealingAssumption`: garbage is none of the values a part may have.
* `AppProofs`, each for any bounds:
  - `IdleSessionsLock` (`LockedInTime`): what is left of the task's sleep counts against
    the session (`Watched`).
  - `EtagsVouch` and `CountdownsFollow`: `TaskKnows` says what the task holds between its
    steps, and that GitHub answers 304 only to an etag.
  - `ReportsHold` and `StoresReadable`: an undisturbed upload is alone and has stored what
    it reports (`Knows`, `Alone`); a box is sealed to the key its upload fetched.
  - `LinesKeepNumbers` and `NoLinePassedOver`: the buffer is consecutive and ends at
    `nextSeq`, an answer on its way is consecutive too, and what is kept behind the cursor
    was shown (`ShownBefore`).
  - `TokensStayFresh` (`SentTokensAreFresh`): `TokenAssumption` says that from its reading of
    the clock to Google's reading of the token a request takes no longer than the margin,
    and that the margin is within the lifetime.  `Fresh` is the strengthening: requests are
    within their timeouts, the cache promises no more than Google does, a token about to be
    stored is no older than the clock its expiry is counted from, and one about to be sent
    outlives the request's timeouts.
  - the type invariant of each.

Every safety property of the passing runs is thus a theorem.  Three hypotheses go beyond the
assumptions on the constants: reads of the kill switch do not fail (`KillSwitchEndsLoop`);
the workload is frozen and hashing works (the contents of snapshots); one vault command runs
at a time (`VaultProofs`).  The configurations of the passing runs meet the same hypotheses.
Model-checked only: the liveness properties (`RunsEnd`, `LoopRecovers`, `GracefulStop`),
since fairness and `ENABLED` are beyond the prover, and the violations, which are
counterexamples.

## 5. Not modelled

Redaction and layout of logs and of the heartbeat's tail; the tunnel connector and its
20 s stop; `wait_for_dirty_pages` (its timeout is not an error); the guards on the
configuration (`FREEZE_AT_MINUTES < CYCLE_MINUTES <= 355`); slots (they name a run in the
logs; nothing is decided by them); the inside of the cryptographic primitives (standard
libraries), memory locking, and the byte format of an envelope beyond what its tags bind; the
job list and the rate limit, which are only displayed; the dashboard beyond its log cursor, the installer, CI and the icon script (no state the loop depends on).

## 6. Plan

1. (done) the fleet: lease, snapshots, handover, watchdog, kill switch; type invariant,
   loop and snapshot theorems.
2. (done) the vault: system calls of the store, refinement of the atomic vault checked,
   type theorem.
3. (done) the desktop around it (`Desktop`): session, cached Drive client, auto-lock, stop
   switch; and its smaller parts: poller, envelope, token cache, uploads, log, idle time.
4. The clock of the handover (`HandoverClock`): 300 s twice against 420 s and 900 s.
5. Claims about overlapping commands are stated for the lost edit (`RotationKeepsEdits`) and
   the late release (`AnsweredStopIsMarked`); left are the shared temporary name, the
   interrupted destroy, and pruning over a newer run's unfinished upload.
6. (done) Proofs of every safety property of the passing runs.  Left: what still holds of
   the vault when commands overlap, beyond its types (an envelope that opens is whole; no
   command answers twice), and a theorem that `Desktop` and `VaultStore` agree on the
   session they share.
