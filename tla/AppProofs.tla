------------------------------ MODULE AppProofs ------------------------------
(***************************************************************************)
(* Proofs about the smaller parts of the desktop app.                      *)
(***************************************************************************)
EXTENDS IdleLock, Poller, Injection, LogTail, TokenCache, SequenceTheorems, TLAPS

(***************************************************************************)
(* The idle time of a session.                                             *)
(***************************************************************************)

\* While the task sleeps, what is left of its sleep counts against the session.
Watched == opened => idle + sleeps < granted + Period
IdleInv == IdleTypeOK /\ Watched

LEMMA IdleInductive == IdleSpec => []IdleInv
<1>1. IdleInit => IdleInv
  <2>1. IdleInit => opened \in BOOLEAN /\ decided \in BOOLEAN
    BY DEF IdleInit
  <2> QED
    BY <2>1, IdleAssumption DEF IdleInit, IdleInv, IdleTypeOK, Watched
<1>2. IdleInv /\ [IdleNext]_idleVars => IdleInv'
  <2> SUFFICES ASSUME IdleInv, [IdleNext]_idleVars PROVE IdleInv'
    OBVIOUS
  <2> opened' \in BOOLEAN /\ decided' \in BOOLEAN
    BY DEF IdleInv, IdleTypeOK, IdleNext, idleVars, IdleTick, SessionOpens, SessionTouched,
       SessionLocks, LimitSet, AutoLockLooks, AutoLockActs
  <2> USE IdleAssumption DEF IdleInv, IdleTypeOK, Watched
  <2>1. CASE IdleTick
    BY <2>1 DEF IdleTick
  <2>2. CASE SessionOpens
    BY <2>2 DEF SessionOpens
  <2>3. CASE SessionTouched
    BY <2>3 DEF SessionTouched
  <2>4. CASE SessionLocks
    BY <2>4 DEF SessionLocks
  <2>5. CASE LimitSet
    BY <2>5 DEF LimitSet
  <2>6. CASE AutoLockLooks
    BY <2>6 DEF AutoLockLooks, TooLong
  <2>7. CASE AutoLockActs
    BY <2>7 DEF AutoLockActs
  <2>8. CASE UNCHANGED idleVars
    BY <2>8 DEF idleVars
  <2> QED
    BY <2>1, <2>2, <2>3, <2>4, <2>5, <2>6, <2>7, <2>8 DEF IdleNext
<1> QED
  BY <1>1, <1>2, PTL DEF IdleSpec

\* The idle time, the sleeps and the limits stay well formed, for any limits.
THEOREM IdleTyped == IdleSpec => []IdleTypeOK
  BY IdleInductive, PTL DEF IdleInv

\* Whenever it is used, however often the limit is changed meanwhile, a session
\* that stays open is locked in time (spawn_auto_lock, Session::open, lock).
THEOREM IdleSessionsLock == IdleSpec => []LockedInTime
<1>1. IdleInv => LockedInTime
  BY IdleAssumption DEF IdleInv, IdleTypeOK, Watched, LockedInTime
<1> QED
  BY IdleInductive, <1>1, PTL

(***************************************************************************)
(* The status on the dashboard.                                            *)
(***************************************************************************)

\* The task asks for a repository, and an answer without a body needs an etag.
TaskKnows ==
    /\ step # "idle" => asked \in Slugs
    /\ step = "apply" =>
          /\ reply \in RunLookup
          /\ reply.kind = "modified" => reply.tag \in {reply.run, NoTag}
          /\ reply.kind = "not_modified" => etag # NoTag

PollerInv == PollerTypeOK /\ TaskKnows /\ EtagVouches

\* The time that is left is at most a cycle, also when clocks disagree.
LEMMA RemainingInRange ==
  ASSUME now \in 0..MaxNow, NEW started \in 0..MaxNow
  PROVE  Remaining(started) \in 0..Cycle
  BY PollerAssumption DEF Remaining, Elapsed

\* What an answer with a body makes of the status.
LEMMA ApplyRunIsStatus ==
  ASSUME PollerTypeOK, NEW run \in Listing
  PROVE  /\ ApplyRun(shown, run) \in NodeStatus
         /\ ApplyRun(shown, run).id = run.id
         /\ run # NoRuns => ApplyRun(shown, run).started = run.started
         /\ IsActive(run) /\ run.started # Unset =>
               ApplyRun(shown, run).remaining = Remaining(run.started)
<1> DEFINE about == [shown EXCEPT !.phase = run.status, !.id = run.id]
<1>1. about \in NodeStatus /\ about.id = run.id /\ now \in 0..MaxNow
  <2>1. run.id \in 0..MaxId /\ run.status \in {"active", "completed", "no_runs"}
    BY PollerAssumption DEF Listing, RunSummary, NoRuns
  <2> QED
    BY <2>1 DEF PollerTypeOK, NodeStatus
<1> HIDE DEF about
<1>2. CASE run = NoRuns
  <2>1. ApplyRun(shown, run) = [about EXCEPT !.remaining = Unset]
    BY <1>2 DEF ApplyRun, about
  <2> QED
    BY <1>1, <1>2, <2>1 DEF NodeStatus, NoRuns, IsActive
<1>3. CASE run # NoRuns /\ run.started = Unset
  <2>1. ApplyRun(shown, run) = [about EXCEPT !.started = Unset, !.remaining = Unset]
    BY <1>3 DEF ApplyRun, about
  <2> QED
    BY <1>1, <1>3, <2>1 DEF NodeStatus
<1>4. CASE run # NoRuns /\ run.started # Unset
  <2> DEFINE left == IF IsActive(run) THEN Remaining(run.started) ELSE 0
  <2>1. ApplyRun(shown, run) = [about EXCEPT !.started = run.started, !.remaining = left]
    BY <1>4 DEF ApplyRun, about
  <2>2. run.started \in 0..MaxNow
    BY <1>4 DEF Listing, RunSummary
  <2>3. left \in 0..Cycle
    BY <1>1, <2>2, RemainingInRange, PollerAssumption
  <2> QED
    BY <1>1, <1>4, <2>1, <2>2, <2>3 DEF NodeStatus
<1> QED
  BY <1>2, <1>3, <1>4

\* What an answer without a body makes of it.
LEMMA RecountIsStatus ==
  ASSUME PollerTypeOK
  PROVE  /\ Recount(shown) \in NodeStatus
         /\ Recount(shown).id = shown.id /\ Recount(shown).started = shown.started
         /\ shown.started # Unset => Recount(shown).remaining = Remaining(shown.started)
<1>1. shown \in NodeStatus /\ now \in 0..MaxNow
  BY DEF PollerTypeOK
<1>2. CASE shown.started = Unset
  BY <1>1, <1>2 DEF Recount
<1>3. CASE shown.started # Unset
  <2>1. Remaining(shown.started) \in 0..Cycle
    BY <1>1, <1>3, RemainingInRange DEF NodeStatus
  <2> QED
    BY <1>1, <1>3, <2>1 DEF Recount, NodeStatus
<1> QED
  BY <1>2, <1>3

LEMMA PollerInitOK == PollerInit => PollerInv
  BY PollerAssumption DEF PollerInit, PollerInv, PollerTypeOK, TaskKnows, EtagVouches,
     Listing, NodeStatus, NoRuns

\* GitHub, the user and the clock do not touch what the task keeps.
LEMMA OutsideKeeps ==
  ASSUME PollerInv, GitHubMoves \/ UserMoves \/ PollerTick
  PROVE  PollerInv'
<1>1. UNCHANGED taskVars
  BY DEF GitHubMoves, UserMoves, PollerTick
<1>2. TaskKnows' /\ EtagVouches'
  BY <1>1 DEF PollerInv, TaskKnows, EtagVouches, taskVars
<1>3. PollerTypeOK'
  <2>1. newest' \in [Slugs -> Listing]
    BY PollerAssumption DEF PollerInv, PollerTypeOK, GitHubMoves, UserMoves, PollerTick,
       Listing, RunSummary, NoRuns, IsActive
  <2>2. /\ now' \in 0..MaxNow /\ access' \in {"locked", "empty", "token"}
        /\ slug' \in Slugs \cup {NoSlug}
    BY PollerAssumption DEF PollerInv, PollerTypeOK, GitHubMoves, UserMoves, PollerTick
  <2> QED
    BY <1>1, <2>1, <2>2 DEF PollerInv, PollerTypeOK, taskVars
<1> QED
  BY <1>2, <1>3 DEF PollerInv

\* Losing the vault changes the phase on display and what is left, never the run.
LEMMA SessionKeeps == ASSUME PollerInv, PollSession PROVE PollerInv'
  BY PollerAssumption DEF PollerInv, PollerTypeOK, TaskKnows, EtagVouches, PollSession,
     outside, NodeStatus

LEMMA TokenKeeps == ASSUME PollerInv, PollToken PROVE PollerInv'
  BY PollerAssumption DEF PollerInv, PollerTypeOK, TaskKnows, EtagVouches, PollToken, Done,
     outside, NodeStatus

\* A body comes with its own etag or none; without an etag there is no 304.
LEMMA RequestKeeps == ASSUME PollerInv, PollRequest PROVE PollerInv'
<1>1. asked \in Slugs /\ newest[asked] \in Listing
  BY DEF PollerInv, PollerTypeOK, TaskKnows, PollRequest
<1>2. reply' \in RunLookup
  BY <1>1 DEF PollRequest, RunLookup
<1>3. /\ reply'.kind = "modified" => reply'.tag \in {reply'.run, NoTag}
      /\ reply'.kind = "not_modified" => etag # NoTag
  BY <1>1, PollerAssumption DEF PollRequest
<1> QED
  BY <1>1, <1>2, <1>3 DEF PollerInv, PollerTypeOK, TaskKnows, EtagVouches, PollRequest, outside

\* A body sets run and start time with the etag, a 304 leaves all three alone.
LEMMA ApplyKeeps == ASSUME PollerInv, PollApply PROVE PollerInv'
<1> USE DEF PollerInv
<1>1. /\ UNCHANGED outside /\ step' = "idle" /\ asked' = NoSlug /\ reply' = NoTag
      /\ reply \in RunLookup
  BY DEF PollApply, Done, TaskKnows
<1>2. CASE reply.kind = "modified" /\ shown' = ApplyRun(shown, reply.run) /\ etag' = reply.tag
  <2>1. reply.run \in Listing /\ reply.tag \in {reply.run, NoTag}
    BY <1>1, <1>2 DEF RunLookup, TaskKnows, PollApply
  <2>2. /\ shown' \in NodeStatus /\ shown'.id = reply.run.id
        /\ reply.run # NoRuns => shown'.started = reply.run.started
    BY <1>2, <2>1, ApplyRunIsStatus
  <2> QED
    BY <1>1, <1>2, <2>1, <2>2 DEF PollerTypeOK, TaskKnows, EtagVouches, outside
<1>3. CASE shown' = Recount(shown) /\ UNCHANGED etag
  BY <1>1, <1>3, RecountIsStatus DEF PollerTypeOK, TaskKnows, EtagVouches, outside
<1>4. CASE UNCHANGED <<shown, etag>>
  BY <1>1, <1>4 DEF PollerTypeOK, TaskKnows, EtagVouches, outside
<1> QED
  BY <1>2, <1>3, <1>4 DEF PollApply

LEMMA PollerInductive == PollerSpec => []PollerInv
<1>1. PollerInv /\ [PollerNext]_pollerVars => PollerInv'
  <2> SUFFICES ASSUME PollerInv, [PollerNext]_pollerVars PROVE PollerInv'
    OBVIOUS
  <2>1. CASE UNCHANGED pollerVars
    BY <2>1 DEF pollerVars, PollerInv, PollerTypeOK, TaskKnows, EtagVouches
  <2> QED
    BY <2>1, OutsideKeeps, SessionKeeps, TokenKeeps, RequestKeeps, ApplyKeeps DEF PollerNext
<1> QED
  BY PollerInitOK, <1>1, PTL DEF PollerSpec

\* What is shown and what the task keeps between its steps stay well formed.
THEOREM PollerTyped == PollerSpec => []PollerTypeOK
  BY PollerInductive, PTL DEF PollerInv

\* The run and the start time on display are those of the answer the etag came
\* with, for any number of repositories, runs and cycles (refresh, latest_run).
THEOREM EtagsVouch == PollerSpec => []EtagVouches
  BY PollerInductive, PTL DEF PollerInv

\* While the newest run is active, a successful poll leaves the countdown that
\* the run's start time gives, with a body or without one (refresh).
THEOREM CountdownsFollow == PollerSpec => CountdownFollowsServer
<1>1. ASSUME PollerInv, PollApply, reply.kind # "error"
      PROVE  LET run == IF reply.kind = "modified" THEN reply.run ELSE etag
             IN  IsActive(run) /\ run.started # Unset
                    => shown'.remaining = Remaining(run.started)
  <2>1. reply \in RunLookup
    BY <1>1 DEF PollerInv, TaskKnows, PollApply
  <2>2. CASE reply.kind = "modified"
    <3>1. reply.run \in Listing /\ shown' = ApplyRun(shown, reply.run)
      BY <1>1, <2>1, <2>2 DEF RunLookup, PollApply
    <3> QED
      BY <1>1, <2>2, <3>1, ApplyRunIsStatus DEF PollerInv
  <2>3. CASE reply.kind = "not_modified"
    <3>1. shown' = Recount(shown) /\ etag \in Listing
      BY <1>1, <2>3 DEF PollerInv, PollerTypeOK, TaskKnows, PollApply
    <3>2. etag # NoRuns => shown.started = etag.started
      BY <1>1, <2>3 DEF PollerInv, TaskKnows, EtagVouches, PollApply
    <3>3. IsActive(etag) => etag # NoRuns
      BY DEF IsActive, NoRuns
    <3> QED
      BY <1>1, <2>3, <3>1, <3>2, <3>3, RecountIsStatus DEF PollerInv
  <2> QED
    BY <1>1, <2>1, <2>2, <2>3 DEF RunLookup
<1>2. PollerInv /\ [PollerNext]_pollerVars
        => [PollApply /\ reply.kind # "error" =>
              LET run == IF reply.kind = "modified" THEN reply.run ELSE etag
              IN  IsActive(run) /\ run.started # Unset
                     => shown'.remaining = Remaining(run.started)]_pollerVars
  BY <1>1
<1> QED
  BY PollerInductive, <1>2, PTL DEF PollerSpec, CountdownFollowsServer

(***************************************************************************)
(* Uploading credentials.                                                  *)
(***************************************************************************)

UploadRecord == [step: {"idle", "key", "copy", "put"}, key: 0..MaxRepoKeys,
                 at: 1..(Required + 1), box: SealedBox \cup {NoValue},
                 ok: SUBSET SecretNames, calm: BOOLEAN]

\* What one upload knows: a box is sealed to the key it was fetched with, and
\* while nothing disturbs it, the box and what it reported hold what the vault has.
Knows(c) ==
    /\ c.step \in {"copy", "put"} => c.key \in 1..MaxRepoKeys
    /\ c.step = "put" => c.at \in SecretNames /\ c.box \in SealedBox /\ c.box.key = c.key
    /\ c.calm /\ c.step = "put" => c.box.value = vaulted[c.at]
    /\ c.calm => \A n \in c.ok: stored[n] # NoValue /\ stored[n].value = vaulted[n]

\* An undisturbed upload is the only one.
Alone(u) == upload[u].calm => \A w \in Uploads \ {u}: upload[w].step = "idle"

InjectionInv == InjectionTypeOK /\ \A u \in Uploads: Knows(upload[u]) /\ Alone(u)

\* An upload that has not begun owes nothing.
LEMMA NoUploadKnows ==
  NoUpload \in UploadRecord /\ Knows(NoUpload) /\ ~NoUpload.calm /\ NoUpload.ok = {}
  BY InjectionAssumption DEF NoUpload, UploadRecord, Knows

LEMMA InjectionInitOK == InjectionInit => InjectionInv
<1> SUFFICES ASSUME InjectionInit PROVE InjectionInv
  OBVIOUS
<1>1. InjectionTypeOK
  BY NoUploadKnows, InjectionAssumption DEF InjectionInit, InjectionTypeOK, UploadRecord
<1>2. \A u \in Uploads: upload[u] = NoUpload
  BY DEF InjectionInit
<1>3. \A u \in Uploads: Knows(upload[u]) /\ Alone(u)
  BY <1>2, NoUploadKnows DEF Alone
<1> QED
  BY <1>1, <1>3 DEF InjectionInv

\* An edit disturbs every upload, and what was disturbed owes nothing.
LEMMA DisturbedKnows ==
  ASSUME InjectionInv, NEW u \in Uploads
  PROVE  /\ Disturbed[u] \in UploadRecord /\ ~Disturbed[u].calm
         /\ Disturbed[u].step = upload[u].step /\ Disturbed[u].key = upload[u].key
         /\ Disturbed[u].at = upload[u].at /\ Disturbed[u].box = upload[u].box
  BY DEF InjectionInv, InjectionTypeOK, UploadRecord, Disturbed

LEMMA EditKeeps == ASSUME InjectionInv, EditVault PROVE InjectionInv'
<1>1. vaulted' \in [SecretNames -> Values \cup {NoValue}]
  BY DEF InjectionInv, InjectionTypeOK, EditVault
<1>2. upload' = Disturbed /\ UNCHANGED <<repoKey, stored>>
  BY DEF EditVault
<1>3. upload' \in [Uploads -> UploadRecord]
  BY <1>2, DisturbedKnows DEF Disturbed
<1>4. InjectionTypeOK'
  BY <1>1, <1>2, <1>3 DEF InjectionInv, InjectionTypeOK, UploadRecord
<1>5. ASSUME NEW u \in Uploads PROVE Knows(upload[u])' /\ Alone(u)'
  BY <1>2, DisturbedKnows DEF InjectionInv, Knows, Alone
<1> QED
  BY <1>4, <1>5 DEF InjectionInv

LEMMA RotateKeeps == ASSUME InjectionInv, RotateRepoKey PROVE InjectionInv'
  BY InjectionAssumption DEF RotateRepoKey, InjectionInv, InjectionTypeOK, Knows, Alone

\* A new upload disturbs the others; it is undisturbed itself if they are idle.
LEMMA BeginKeeps == ASSUME InjectionInv, NEW u \in Uploads, SecretsInject(u) PROVE InjectionInv'
<1> DEFINE c == [NoUpload EXCEPT !.step = "key",
                                 !.calm = \A w \in Uploads \ {u}: upload[w].step = "idle"]
<1>1. c \in UploadRecord /\ c.step = "key" /\ c.ok = {}
  <2>1. ASSUME NEW calm \in BOOLEAN
        PROVE  LET d == [NoUpload EXCEPT !.step = "key", !.calm = calm]
               IN  d \in UploadRecord /\ d.step = "key" /\ d.ok = {}
    BY NoUploadKnows DEF UploadRecord
  <2>2. (\A w \in Uploads \ {u}: upload[w].step = "idle") \in BOOLEAN
    OBVIOUS
  <2> QED
    BY <2>1, <2>2
<1>2. c.calm => \A w \in Uploads \ {u}: upload[w].step = "idle"
  BY DEF NoUpload
<1>3. upload' = [Disturbed EXCEPT ![u] = c] /\ UNCHANGED <<repoKey, vaulted, stored>>
  BY DEF SecretsInject
<1> HIDE DEF c
<1>4. upload'[u] = c /\ \A w \in Uploads \ {u}: upload'[w] = Disturbed[w]
  BY <1>3 DEF Disturbed
<1>5. upload' \in [Uploads -> UploadRecord]
  BY <1>1, <1>3, DisturbedKnows DEF Disturbed
<1>6. InjectionTypeOK'
  BY <1>3, <1>5 DEF InjectionInv, InjectionTypeOK, UploadRecord
<1>7. Knows(upload[u])' /\ Alone(u)'
  BY <1>1, <1>2, <1>3, <1>4, DisturbedKnows DEF Knows, Alone
<1>8. ASSUME NEW w \in Uploads \ {u} PROVE Knows(upload[w])' /\ Alone(w)'
  BY <1>3, <1>4, DisturbedKnows DEF InjectionInv, Knows, Alone
<1> QED
  BY <1>6, <1>7, <1>8 DEF InjectionInv

\* A step of an upload that leaves the vault and the repository alone.
LEMMA UploadMoves ==
  ASSUME InjectionInv, NEW u \in Uploads, upload[u].step # "idle",
         NEW c \in UploadRecord, Continue(u, c), Knows(c),
         c.calm => upload[u].calm, UNCHANGED <<repoKey, vaulted, stored>>
  PROVE  InjectionInv'
<1>1. upload \in [Uploads -> UploadRecord]
  BY DEF InjectionInv, InjectionTypeOK, UploadRecord
<1>2. upload'[u] = c /\ \A w \in Uploads \ {u}: upload'[w] = upload[w]
  BY <1>1 DEF Continue
<1>3. InjectionTypeOK'
  BY <1>1 DEF InjectionInv, InjectionTypeOK, UploadRecord, Continue
<1>4. ASSUME NEW w \in Uploads PROVE Knows(upload[w])' /\ Alone(w)'
  BY <1>2 DEF InjectionInv, Knows, Alone
<1> QED
  BY <1>3, <1>4 DEF InjectionInv

\* What the record of an upload that has begun is.
LEMMA UploadKnown ==
  ASSUME InjectionInv, NEW u \in Uploads
  PROVE  upload[u] \in UploadRecord /\ Knows(upload[u]) /\ Alone(u)
  BY DEF InjectionInv, InjectionTypeOK, UploadRecord

LEMMA FetchKeeps == ASSUME InjectionInv, NEW u \in Uploads, RepoPublicKey(u) PROVE InjectionInv'
<1>1. upload[u].step = "key" /\ UNCHANGED <<repoKey, vaulted, stored>>
  BY DEF RepoPublicKey
<1>2. CASE Continue(u, NoUpload)
  BY <1>1, <1>2, NoUploadKnows, UploadMoves
<1>3. CASE \E key \in FetchedKeys: Continue(u, [upload[u] EXCEPT !.step = "copy", !.key = key])
  <2> DEFINE c == [upload[u] EXCEPT !.step = "copy", !.key = repoKey]
  <2>1. Continue(u, c)
    BY <1>3 DEF FetchedKeys
  <2>2. repoKey \in 1..MaxRepoKeys /\ repoKey \in 0..MaxRepoKeys
    BY InjectionAssumption DEF InjectionInv, InjectionTypeOK
  <2>3. c \in UploadRecord /\ Knows(c) /\ (c.calm => upload[u].calm)
    BY <2>2, UploadKnown DEF UploadRecord, Knows
  <2> QED
    BY <1>1, <2>1, <2>3, UploadMoves
<1> QED
  BY <1>2, <1>3 DEF RepoPublicKey

\* The box holds what the vault holds when it is sealed.
LEMMA CopyKeeps == ASSUME InjectionInv, NEW u \in Uploads, CopySecret(u) PROVE InjectionInv'
<1> DEFINE at == upload[u].at
<1>1. /\ upload[u].step = "copy" /\ at \in SecretNames /\ at + 1 \in 1..(Required + 1)
      /\ UNCHANGED <<repoKey, vaulted, stored>>
  BY UploadKnown, InjectionAssumption DEF CopySecret, UploadRecord, SecretNames
<1>2. CASE Continue(u, [upload[u] EXCEPT !.at = @ + 1])
  <2> DEFINE c == [upload[u] EXCEPT !.at = @ + 1]
  <2>1. c \in UploadRecord /\ Knows(c) /\ (c.calm => upload[u].calm)
    BY <1>1, UploadKnown DEF UploadRecord, Knows
  <2> QED
    BY <1>1, <1>2, <2>1, UploadMoves
<1>3. CASE /\ vaulted[at] # NoValue
           /\ Continue(u, [upload[u] EXCEPT !.step = "put",
                             !.box = [key |-> upload[u].key, value |-> vaulted[at]]])
  <2> DEFINE box == [key |-> upload[u].key, value |-> vaulted[at]]
             c == [upload[u] EXCEPT !.step = "put", !.box = box]
  <2>1. box \in SealedBox /\ box.key = upload[u].key /\ box.value = vaulted[at]
    BY <1>1, <1>3, UploadKnown DEF SealedBox, Knows, InjectionInv, InjectionTypeOK
  <2>2. Continue(u, c)
    BY <1>3
  <2> HIDE DEF box
  <2>3. c \in UploadRecord /\ Knows(c) /\ (c.calm => upload[u].calm)
    BY <1>1, <2>1, UploadKnown DEF UploadRecord, Knows
  <2> QED
    BY <1>1, <2>2, <2>3, UploadMoves
<1> QED
  BY <1>2, <1>3 DEF CopySecret

LEMMA ReportKeeps == ASSUME InjectionInv, NEW u \in Uploads, Report(u) PROVE InjectionInv'
<1>1. upload[u].step = "copy" /\ Continue(u, NoUpload) /\ UNCHANGED <<repoKey, vaulted, stored>>
  BY DEF Report
<1> QED
  BY <1>1, NoUploadKnows, UploadMoves

\* A write disturbs no undisturbed upload but its own, which is alone.
LEMMA PutKeeps == ASSUME InjectionInv, NEW u \in Uploads, PutSecret(u) PROVE InjectionInv'
<1> DEFINE at == upload[u].at
           box == upload[u].box
<1>1. /\ upload[u].step = "put" /\ at \in SecretNames /\ at + 1 \in 1..(Required + 1)
      /\ box \in SealedBox /\ UNCHANGED <<repoKey, vaulted>>
  BY UploadKnown, InjectionAssumption DEF PutSecret, Knows, SecretNames
<1>2. PICK arrived \in BOOLEAN:
         /\ stored' = IF arrived THEN [stored EXCEPT ![at] = box] ELSE stored
         /\ \E ok \in ReportsOk(arrived):
               Continue(u, [upload[u] EXCEPT !.step = "copy", !.box = NoValue, !.at = @ + 1,
                              !.ok = IF ok THEN @ \cup {at} ELSE @])
  BY DEF PutSecret
<1>3. PICK ok \in ReportsOk(arrived):
         Continue(u, [upload[u] EXCEPT !.step = "copy", !.box = NoValue, !.at = @ + 1,
                        !.ok = IF ok THEN @ \cup {at} ELSE @])
  BY <1>2
<1>4. ok => arrived
  BY <1>3 DEF ReportsOk
<1> DEFINE reported == IF ok THEN upload[u].ok \cup {at} ELSE upload[u].ok
           c == [upload[u] EXCEPT !.step = "copy", !.box = NoValue, !.at = at + 1, !.ok = reported]
<1>5. Continue(u, c)
  BY <1>3
<1>6. reported \subseteq SecretNames
  BY <1>1, UploadKnown DEF UploadRecord
<1>7. /\ stored' \in [SecretNames -> SealedBox \cup {NoValue}]
      /\ \A n \in SecretNames \ {at}: stored'[n] = stored[n]
      /\ arrived => stored'[at] = box
      /\ ~arrived => stored' = stored
  BY <1>1, <1>2 DEF InjectionInv, InjectionTypeOK
<1> HIDE DEF reported
<1>8. c \in UploadRecord /\ c.step = "copy" /\ c.ok = reported /\ c.calm = upload[u].calm
      /\ c.key = upload[u].key
  BY <1>1, <1>6, UploadKnown DEF UploadRecord
<1> HIDE DEF c
<1>9. upload' \in [Uploads -> UploadRecord] /\ upload'[u] = c
      /\ \A w \in Uploads \ {u}: upload'[w] = upload[w]
  BY <1>5, <1>8 DEF InjectionInv, InjectionTypeOK, UploadRecord, Continue
<1>10. InjectionTypeOK'
  BY <1>1, <1>7, <1>9 DEF InjectionInv, InjectionTypeOK, UploadRecord
<1>11. ASSUME upload[u].calm, NEW n \in reported
       PROVE  stored'[n] # NoValue /\ stored'[n].value = vaulted[n]
  <2>1. box # NoValue /\ box.value = vaulted[at]
    BY <1>1, <1>11, UploadKnown, InjectionAssumption DEF Knows
  <2>2. CASE n \in upload[u].ok
    <3>1. stored[n] # NoValue /\ stored[n].value = vaulted[n] /\ n \in SecretNames
      BY <1>11, <2>2, UploadKnown DEF Knows, UploadRecord
    <3> QED
      BY <1>7, <2>1, <3>1
  <2>3. CASE n \notin upload[u].ok
    BY <1>4, <1>7, <1>11, <2>1, <2>3 DEF reported
  <2> QED
    BY <2>2, <2>3
<1>12. Knows(upload[u])' /\ Alone(u)'
  BY <1>1, <1>8, <1>9, <1>11, UploadKnown DEF Knows, Alone
<1>13. ASSUME NEW w \in Uploads \ {u} PROVE Knows(upload[w])' /\ Alone(w)'
  <2>1. ~upload[w].calm
    BY <1>1, UploadKnown DEF Alone
  <2> QED
    BY <1>1, <1>9, <2>1, UploadKnown DEF Knows, Alone
<1> QED
  BY <1>10, <1>12, <1>13 DEF InjectionInv

LEMMA InjectionInductive == InjectionSpec => []InjectionInv
<1>1. InjectionInv /\ [InjectionNext]_injectionVars => InjectionInv'
  <2> SUFFICES ASSUME InjectionInv, [InjectionNext]_injectionVars PROVE InjectionInv'
    OBVIOUS
  <2>1. CASE UNCHANGED injectionVars
    BY <2>1 DEF injectionVars, InjectionInv, InjectionTypeOK, Knows, Alone
  <2> QED
    BY <2>1, EditKeeps, RotateKeeps, BeginKeeps, FetchKeeps, CopyKeeps, ReportKeeps, PutKeeps
    DEF InjectionNext
<1> QED
  BY InjectionInitOK, <1>1, PTL DEF InjectionSpec

\* The stored boxes and the record of every upload stay well formed.
THEOREM InjectionTyped == InjectionSpec => []InjectionTypeOK
  BY InjectionInductive, PTL DEF InjectionInv

\* However uploads, edits and new keys interleave, an upload that nothing
\* disturbed reports as stored only what is, for any number of credentials
\* (inject_required).
THEOREM ReportsHold == InjectionSpec => []ReportsAreTrue
<1>1. InjectionInv => ReportsAreTrue
  BY DEF InjectionInv, Knows, ReportsAreTrue
<1> QED
  BY InjectionInductive, <1>1, PTL

\* Nothing is stored that was sealed to another key than the current one, for
\* any number of uploads and keys (put_secret).
THEOREM StoresReadable == InjectionSpec => StoresOnlyReadable
<1>1. ASSUME InjectionInv, [InjectionNext]_injectionVars,
             NEW n \in SecretNames, stored'[n] # stored[n]
      PROVE  stored'[n].key = repoKey
  <2>1. PICK u \in Uploads: PutSecret(u)
    BY <1>1 DEF InjectionNext, injectionVars, EditVault, RotateRepoKey, SecretsInject,
       RepoPublicKey, CopySecret, Report
  <2>2. upload[u].step = "put"
    BY <2>1 DEF PutSecret
  <2>3. KeyId(upload[u]) = repoKey /\ stored' = [stored EXCEPT ![upload[u].at] = upload[u].box]
    BY <1>1, <2>1 DEF PutSecret
  <2>4. upload[u].box.key = upload[u].key
    BY <1>1, <2>2, UploadKnown DEF Knows
  <2> QED
    BY <1>1, <2>3, <2>4 DEF KeyId, InjectionInv, InjectionTypeOK
<1>2. InjectionInv /\ [InjectionNext]_injectionVars
        => [\A n \in SecretNames: stored'[n] # stored[n] => stored'[n].key = repoKey]_injectionVars
  BY <1>1
<1> QED
  BY InjectionInductive, <1>2, PTL DEF InjectionSpec, StoresOnlyReadable

(***************************************************************************)
(* The log and the cursor that follows it.                                 *)
(***************************************************************************)

PollRecord == [step: {"idle", "asked", "answered"}, since: 0..MaxLines,
               next: 0..MaxLines, lines: Seq(LineNumbers)]

\* The lines that are kept are numbered without gaps, up to the next number.
Consecutive(s, next) ==
    Len(s) <= next /\ \A i \in 1..Len(s): s[i] = (next + i) - (Len(s) + 1)
First == nextSeq - Len(lines)

\* Every line that is kept and comes before a cursor has been shown.
ShownBefore(cursor) ==
    cursor <= nextSeq /\ \A l \in LineNumbers: First <= l /\ l < cursor => <<l, l>> \in seen

\* An answer is consecutive and leaves out nothing that is still kept.
AnswerFits(c) ==
    /\ c.step # "idle" => ShownBefore(c.since)
    /\ c.step = "answered" =>
          /\ c.next <= nextSeq /\ Consecutive(c.lines, c.next)
          /\ \A l \in LineNumbers:
                First <= l /\ c.since <= l /\ l < c.next => c.next - Len(c.lines) <= l

LogInv ==
    /\ LogTypeOK /\ LabelsAreTrue
    /\ Consecutive(lines, nextSeq) /\ ShownBefore(logSeq)
    /\ \A p \in Polls: AnswerFits(poll[p])

LEMMA LogInitOK == LogInit => LogInv
<1> SUFFICES ASSUME LogInit PROVE LogInv
  OBVIOUS
<1>1. <<>> \in Seq(LineNumbers) /\ Len(<<>>) = 0
  BY EmptySeq
<1>2. NoPoll \in PollRecord /\ NoPoll.step = "idle"
  BY <1>1, LogAssumption DEF NoPoll, PollRecord
<1> QED
  BY <1>1, <1>2, LogAssumption DEF LogInit, LogInv, LogTypeOK, LabelsAreTrue, Consecutive,
     ShownBefore, AnswerFits, PollRecord, LineNumbers

\* When lines are dropped or added, nothing comes back that was given up.
LEMMA LinesMove ==
  ASSUME LogInv, lines' \in Seq(LineNumbers), Len(lines') <= LogCapacity,
         nextSeq' \in 0..MaxLines, Consecutive(lines', nextSeq'), nextSeq <= nextSeq',
         First <= First', UNCHANGED <<logSeq, seen, poll>>
  PROVE  LogInv'
<1>1. /\ Len(lines) \in Nat /\ Len(lines') \in Nat /\ nextSeq \in Nat /\ nextSeq' \in Nat
      /\ MaxLines \in Nat /\ logSeq \in Nat
  BY LenProperties, LogAssumption DEF LogInv, LogTypeOK
<1>2. ASSUME NEW cursor \in Nat, ShownBefore(cursor) PROVE ShownBefore(cursor)'
  BY <1>1, <1>2 DEF ShownBefore, First, LineNumbers
<1>3. ASSUME NEW p \in Polls PROVE AnswerFits(poll[p])'
  <2>1. poll[p] \in PollRecord /\ AnswerFits(poll[p]) /\ poll'[p] = poll[p]
    BY DEF LogInv, LogTypeOK, PollRecord
  <2>2. poll[p].since \in Nat /\ poll[p].next \in Nat /\ Len(poll[p].lines) \in Nat
    BY <2>1, LenProperties DEF PollRecord
  <2>3. poll[p].step # "idle" => ShownBefore(poll[p].since)'
    BY <1>2, <2>1, <2>2 DEF AnswerFits, ShownBefore, First
  <2> QED
    BY <1>1, <2>1, <2>2, <2>3 DEF AnswerFits, Consecutive, First, LineNumbers
<1>4. ShownBefore(logSeq)'
  BY <1>1, <1>2 DEF LogInv, ShownBefore, First
<1> QED
  BY <1>3, <1>4 DEF LogInv, LogTypeOK, LabelsAreTrue, Consecutive

LEMMA PushKeeps == ASSUME LogInv, PushLine PROVE LogInv'
<1> DEFINE longer == Append(lines, nextSeq)
<1>1. /\ lines \in Seq(LineNumbers) /\ Len(lines) \in Nat /\ nextSeq \in LineNumbers
      /\ nextSeq \in Nat /\ MaxLines \in Nat /\ LogCapacity \in Nat \ {0}
      /\ Len(lines) <= LogCapacity /\ Len(lines) <= nextSeq
  BY LenProperties, LogAssumption DEF LogInv, LogTypeOK, PushLine, LineNumbers, Consecutive
<1>2. /\ longer \in Seq(LineNumbers) /\ Len(longer) = Len(lines) + 1 /\ longer # <<>>
      /\ \A i \in 1..Len(lines): longer[i] = lines[i]
      /\ longer[Len(lines) + 1] = nextSeq
  BY <1>1, AppendProperties
<1>3. /\ lines' = Retain(longer) /\ nextSeq' = nextSeq + 1 /\ nextSeq' \in 0..MaxLines
      /\ UNCHANGED <<logSeq, seen, poll>>
  BY <1>1 DEF PushLine
<1> HIDE DEF longer
<1>4. Consecutive(longer, nextSeq + 1)
  <2>1. \A i \in 1..Len(lines): lines[i] = (nextSeq + i) - (Len(lines) + 1)
    BY DEF LogInv, Consecutive
  <2>2. ASSUME NEW i \in 1..(Len(lines) + 1)
        PROVE  longer[i] = (nextSeq + 1 + i) - (Len(lines) + 1 + 1)
    <3>1. CASE i = Len(lines) + 1
      BY <1>1, <1>2, <3>1
    <3>2. CASE i \in 1..Len(lines)
      BY <1>1, <1>2, <2>1, <3>2
    <3> QED
      BY <1>1, <3>1, <3>2
  <2> QED
    BY <1>1, <1>2, <2>2 DEF Consecutive
<1>5. CASE Len(longer) <= LogCapacity
  <2>1. lines' = longer
    BY <1>3, <1>5 DEF Retain
  <2> QED
    BY <1>1, <1>2, <1>3, <1>4, <1>5, <2>1, LinesMove DEF First
<1>6. CASE Len(longer) > LogCapacity
  <2>1. lines' = Tail(longer)
    BY <1>1, <1>2, <1>3, <1>6 DEF Retain
  <2>2. /\ Tail(longer) \in Seq(LineNumbers) /\ Len(Tail(longer)) = Len(longer) - 1
        /\ \A i \in 1..Len(Tail(longer)): Tail(longer)[i] = longer[i + 1]
    BY <1>2, HeadTailProperties
  <2>3. Consecutive(Tail(longer), nextSeq + 1)
    BY <1>1, <1>2, <1>4, <2>2 DEF Consecutive
  <2> QED
    BY <1>1, <1>2, <1>3, <2>1, <2>2, <2>3, LinesMove DEF First
<1> QED
  BY <1>1, <1>2, <1>5, <1>6

LEMMA ClearKeeps == ASSUME LogInv, LogsClear PROVE LogInv'
<1>1. <<>> \in Seq(LineNumbers) /\ Len(<<>>) = 0
  BY EmptySeq
<1>2. lines' = <<>> /\ nextSeq' = nextSeq /\ UNCHANGED <<logSeq, seen, poll>>
  BY DEF LogsClear, AfterClear
<1>3. Len(lines) \in Nat /\ nextSeq \in 0..MaxLines /\ LogCapacity \in Nat /\ MaxLines \in Nat
  BY LenProperties, LogAssumption DEF LogInv, LogTypeOK
<1> QED
  BY <1>1, <1>2, <1>3, LinesMove DEF Consecutive, First

\* One poll moves: what it says fits, and the cursor and what is shown grew together.
LEMMA PollMoves ==
  ASSUME LogInv, NEW p \in Polls, NEW c \in PollRecord, poll' = [poll EXCEPT ![p] = c],
         UNCHANGED <<lines, nextSeq>>, seen \subseteq seen', LabelsAreTrue',
         seen' \subseteq LineNumbers \X LineNumbers, logSeq' \in 0..MaxLines,
         ShownBefore(logSeq)', AnswerFits(c)'
  PROVE  LogInv'
<1>1. poll \in [Polls -> PollRecord]
  BY DEF LogInv, LogTypeOK, PollRecord
<1>2. poll' \in [Polls -> PollRecord] /\ poll'[p] = c
  BY <1>1
<1>3. ASSUME NEW q \in Polls PROVE AnswerFits(poll[q])'
  <2>1. CASE q = p
    BY <1>2, <2>1
  <2>2. CASE q # p
    <3>1. poll'[q] = poll[q] /\ AnswerFits(poll[q])
      BY <1>1, <2>2 DEF LogInv
    <3> QED
      BY <3>1 DEF AnswerFits, ShownBefore, First
  <2> QED
    BY <2>1, <2>2
<1> QED
  BY <1>2, <1>3 DEF LogInv, LogTypeOK, PollRecord, Consecutive

LEMMA AskKeeps == ASSUME LogInv, NEW p \in Polls, AskTail(p) PROVE LogInv'
<1>1. /\ <<>> \in Seq(LineNumbers) /\ 0 \in 0..MaxLines /\ logSeq \in 0..MaxLines
      /\ UNCHANGED <<lines, nextSeq, logSeq, seen>>
  BY EmptySeq, LogAssumption DEF LogInv, LogTypeOK, AskTail
<1>2. PICK c \in PollRecord: /\ c.step = "asked" /\ c.since = logSeq
                              /\ poll' = [poll EXCEPT ![p] = c]
  <2>1. NoPoll \in PollRecord
    BY <1>1 DEF NoPoll, PollRecord
  <2> DEFINE question == [NoPoll EXCEPT !.step = "asked", !.since = logSeq]
  <2>2. question \in PollRecord /\ question.step = "asked" /\ question.since = logSeq
    BY <1>1, <2>1 DEF PollRecord
  <2>3. poll' = [poll EXCEPT ![p] = question]
    BY DEF AskTail
  <2> QED
    BY <2>2, <2>3
<1>3. ShownBefore(logSeq)'
  BY <1>1 DEF LogInv, ShownBefore, First
<1>4. AnswerFits(c)'
  BY <1>1, <1>2, <1>3 DEF AnswerFits
<1> QED
  BY <1>1, <1>2, <1>3, <1>4, PollMoves DEF LogInv, LogTypeOK, LabelsAreTrue

\* The lines from a number on are consecutive, and none that is kept is left out.
LEMMA SinceFits ==
  ASSUME LogInv, NEW seq \in Nat
  PROVE  /\ Since(seq) \in Seq(LineNumbers) /\ Consecutive(Since(seq), nextSeq)
         /\ \A l \in LineNumbers:
               First <= l /\ seq <= l /\ l < nextSeq => nextSeq - Len(Since(seq)) <= l
<1> DEFINE late == {i \in 1..Len(lines): lines[i] >= seq}
<1> DEFINE from == CHOOSE i \in late: \A j \in late: i <= j
<1> DEFINE m == IF seq <= First THEN 1 ELSE (seq - First) + 1
<1>1. /\ lines \in Seq(LineNumbers) /\ Len(lines) \in Nat /\ nextSeq \in Nat
      /\ Len(lines) <= nextSeq /\ First \in Nat /\ First = nextSeq - Len(lines) /\ m \in Nat \ {0}
      /\ LineNumbers \subseteq Nat
  BY LenProperties, LogAssumption DEF LogInv, LogTypeOK, Consecutive, LineNumbers, First
<1>2. \A i \in 1..Len(lines): lines[i] = (nextSeq + i) - (Len(lines) + 1)
  BY DEF LogInv, Consecutive
<1>3. late = m..Len(lines)
  BY <1>1, <1>2
<1>4. CASE late = {}
  <2>1. Since(seq) = <<>>
    BY <1>4 DEF Since
  <2>2. Len(lines) < m
    BY <1>1, <1>3, <1>4
  <2>3. <<>> \in Seq(LineNumbers) /\ Len(<<>>) = 0
    BY EmptySeq
  <2> QED
    BY <1>1, <2>1, <2>2, <2>3 DEF Consecutive
<1>5. CASE late # {}
  <2>1. m \in late /\ m <= Len(lines)
    BY <1>1, <1>3, <1>5
  <2>2. from = m
    <3>1. \A j \in late: m <= j
      BY <1>1, <1>3
    <3>2. \E i \in late: \A j \in late: i <= j
      BY <2>1, <3>1
    <3>3. from \in late /\ \A j \in late: from <= j
      BY <3>2
    <3> QED
      BY <1>1, <1>3, <2>1, <3>3
  <2>3. Since(seq) = SubSeq(lines, m, Len(lines))
    BY <1>5, <2>2 DEF Since
  <2>0. m = 1 \/ m = (seq - First) + 1
    OBVIOUS
  <2> HIDE DEF from, late, m
  <2>4. /\ Since(seq) \in Seq(LineNumbers) /\ Len(Since(seq)) = (Len(lines) - m) + 1
        /\ \A i \in 1..((Len(lines) - m) + 1): Since(seq)[i] = lines[m + i - 1]
    <3>1. \A i \in m..Len(lines): lines[i] \in LineNumbers
      BY <1>1, ElementOfSeq
    <3>2. m \in Int /\ Len(lines) \in Int /\ m <= Len(lines)
      BY <1>1, <2>1
    <3> QED
      BY <2>3, <3>1, <3>2, SubSeqProperties
  <2>5. ASSUME NEW i \in 1..Len(Since(seq))
        PROVE  Since(seq)[i] = (nextSeq + i) - (Len(Since(seq)) + 1)
    <3>1. m + i - 1 \in 1..Len(lines)
      BY <1>1, <2>1, <2>4
    <3>2. lines[m + i - 1] = (nextSeq + (m + i - 1)) - (Len(lines) + 1)
      BY <1>2, <3>1
    <3> QED
      BY <1>1, <2>1, <2>4, <3>2
  <2>6. Consecutive(Since(seq), nextSeq)
    BY <1>1, <2>1, <2>4, <2>5 DEF Consecutive
  <2> QED
    BY <1>1, <2>0, <2>1, <2>4, <2>6
<1> QED
  BY <1>4, <1>5

LEMMA AnswerKeeps == ASSUME LogInv, NEW p \in Polls, LogsTail(p) PROVE LogInv'
<1> DEFINE answer == Since(poll[p].since)
<1>1. /\ poll \in [Polls -> PollRecord] /\ poll[p].step = "asked" /\ AnswerFits(poll[p])
      /\ poll[p].since \in 0..MaxLines /\ nextSeq \in 0..MaxLines /\ MaxLines \in Nat
      /\ poll[p].since \in Nat /\ UNCHANGED <<lines, nextSeq, logSeq, seen>>
  BY LogAssumption DEF LogInv, LogTypeOK, PollRecord, LogsTail
<1>2. /\ answer \in Seq(LineNumbers) /\ Consecutive(answer, nextSeq)
      /\ \A l \in LineNumbers:
            First <= l /\ poll[p].since <= l /\ l < nextSeq => nextSeq - Len(answer) <= l
  BY <1>1, SinceFits
<1>3. poll' = [poll EXCEPT ![p] = [@ EXCEPT !.step = "answered", !.next = nextSeq,
                                           !.lines = answer]]
  BY DEF LogsTail
<1> HIDE DEF answer
<1>4. PICK c \in PollRecord: /\ c.step = "answered" /\ c.since = poll[p].since
                              /\ c.next = nextSeq /\ c.lines = answer
                              /\ poll' = [poll EXCEPT ![p] = c]
  BY <1>1, <1>2, <1>3 DEF PollRecord
<1>5. ShownBefore(logSeq)' /\ ShownBefore(poll[p].since)
  BY <1>1 DEF LogInv, AnswerFits, ShownBefore, First
<1>6. AnswerFits(c)'
  <2>1. ShownBefore(c.since)'
    BY <1>1, <1>4, <1>5 DEF ShownBefore, First
  <2> QED
    BY <1>1, <1>2, <1>4, <2>1 DEF AnswerFits, First, Consecutive
<1> QED
  BY <1>1, <1>4, <1>5, <1>6, PollMoves DEF LogInv, LogTypeOK, LabelsAreTrue

LEMMA ShowKeeps == ASSUME LogInv, NEW p \in Polls, ShowTail(p) PROVE LogInv'
<1> DEFINE tail == poll[p].lines
<1> DEFINE next == poll[p].next
<1> DEFINE label(i) == (next + i) - (Len(tail) + 1)
<1>1. /\ poll[p] \in PollRecord /\ poll[p].step = "answered" /\ AnswerFits(poll[p])
      /\ poll' = [poll EXCEPT ![p] = NoPoll] /\ UNCHANGED <<lines, nextSeq>>
      /\ nextSeq \in 0..MaxLines /\ MaxLines \in Nat
  BY LogAssumption DEF LogInv, LogTypeOK, PollRecord, ShowTail
<1>2. /\ tail \in Seq(LineNumbers) /\ Len(tail) \in Nat /\ next \in 0..MaxLines /\ next \in Nat
      /\ next <= nextSeq /\ Len(tail) <= next /\ poll[p].since \in Nat
      /\ \A i \in 1..Len(tail): tail[i] = label(i)
      /\ \A i \in 1..Len(tail): tail[i] \in LineNumbers
  BY <1>1, LenProperties, ElementOfSeq DEF PollRecord, AnswerFits, Consecutive
<1>3. NoPoll \in PollRecord /\ NoPoll.step = "idle"
  BY EmptySeq, <1>1 DEF NoPoll, PollRecord
<1>4. AnswerFits(NoPoll)'
  BY <1>3 DEF AnswerFits
<1>5. CASE tail = <<>> /\ UNCHANGED <<logSeq, seen>>
  <2>1. ShownBefore(logSeq)'
    BY <1>1, <1>5 DEF LogInv, ShownBefore, First
  <2> QED
    BY <1>1, <1>3, <1>4, <1>5, <2>1, PollMoves DEF LogInv, LogTypeOK, LabelsAreTrue
<1>6. CASE /\ tail # <<>> /\ logSeq' = next
           /\ seen' = seen \cup {<<label(i), tail[i]>> : i \in 1..Len(tail)}
  <2>1. seen' = seen \cup {<<tail[i], tail[i]>> : i \in 1..Len(tail)}
    BY <1>2, <1>6
  <2>2. seen \subseteq seen' /\ LabelsAreTrue' /\ seen' \subseteq LineNumbers \X LineNumbers
    BY <1>2, <2>1 DEF LogInv, LogTypeOK, LabelsAreTrue
  <2>3. ASSUME NEW l \in LineNumbers, First <= l, l < next PROVE <<l, l>> \in seen'
    <3>0. l \in Nat /\ First \in Int
      BY <1>1, LenProperties DEF LineNumbers, First, LogInv, LogTypeOK
    <3>1. CASE l < poll[p].since
      BY <1>1, <2>2, <2>3, <3>1 DEF AnswerFits, ShownBefore
    <3>2. CASE poll[p].since <= l
      <4>1. next - Len(tail) <= l
        BY <1>1, <2>3, <3>2 DEF AnswerFits
      <4> DEFINE i == (l + Len(tail) + 1) - next
      <4>2. i \in 1..Len(tail) /\ label(i) = l
        <5>1. i \in Int /\ 1 <= i /\ i <= Len(tail)
          BY <1>2, <2>3, <3>0, <4>1
        <5>2. label(i) = l
          <6>1. Len(tail) \in Int /\ next \in Int /\ l \in Int
            BY <1>2, <3>0
          <6> QED
            BY <6>1
        <5> QED
          BY <1>2, <5>1, <5>2
      <4>3. tail[i] = l
        BY <1>2, <4>2
      <4> HIDE DEF i
      <4> QED
        BY <2>1, <4>2, <4>3
    <3> QED
      BY <1>2, <3>0, <3>1, <3>2
  <2>4. ShownBefore(logSeq)'
    BY <1>1, <1>2, <1>6, <2>3 DEF ShownBefore, First
  <2> QED
    BY <1>1, <1>2, <1>3, <1>4, <1>6, <2>2, <2>4, PollMoves
<1> QED
  BY <1>5, <1>6 DEF ShowTail

LEMMA LogInductive == LogSpec => []LogInv
<1>1. LogInv /\ [LogNext]_logVars => LogInv'
  <2> SUFFICES ASSUME LogInv, [LogNext]_logVars PROVE LogInv'
    OBVIOUS
  <2>1. CASE UNCHANGED logVars
    BY <2>1 DEF logVars, LogInv, LogTypeOK, LabelsAreTrue, Consecutive, ShownBefore, AnswerFits, First
  <2> QED
    BY <2>1, PushKeeps, ClearKeeps, AskKeeps, AnswerKeeps, ShowKeeps DEF LogNext
<1> QED
  BY LogInitOK, <1>1, PTL DEF LogSpec

\* The lines that are kept stay within the capacity, the answers well formed.
THEOREM LogTyped == LogSpec => []LogTypeOK
  BY LogInductive, PTL DEF LogInv

\* Though answers carry no numbers, every line is shown under its own, however
\* polls overlap and whatever is cleared meanwhile (logs_tail, main.ts).
THEOREM LinesKeepNumbers == LogSpec => []LabelsAreTrue
  BY LogInductive, PTL DEF LogInv

\* Whatever overflows, is cleared or answered late, the cursor passes over no
\* line that is kept, for any capacity and number of polls (push, since, clear).
THEOREM NoLinePassedOver == LogSpec => []NothingSkipped
<1>1. ASSUME LogInv PROVE NothingSkipped
  <2> SUFFICES ASSUME NEW i \in 1..Len(lines), lines[i] < logSeq
               PROVE  \E label \in LineNumbers: <<label, lines[i]>> \in seen
    BY DEF NothingSkipped
  <2>1. lines[i] \in LineNumbers /\ lines[i] = (nextSeq + i) - (Len(lines) + 1)
    BY <1>1, ElementOfSeq DEF LogInv, LogTypeOK, Consecutive
  <2>2. First <= lines[i]
    BY <1>1, <2>1, LenProperties, LogAssumption DEF LogInv, LogTypeOK, First
  <2> QED
    BY <1>1, <2>1, <2>2 DEF LogInv, ShownBefore
<1> QED
  BY LogInductive, <1>1, PTL

(***************************************************************************)
(* The tokens that requests to Google Drive share.                         *)
(***************************************************************************)

\* What a step relies on: a request is within its timeouts, the cache does not
\* promise more than Google does, and a token about to be sent outlives them.
WithinTimeouts ==
    \A r \in Requests:
        request[r].step # "idle" => /\ request[r].now <= time
                                    /\ time <= request[r].now + MaxDelay
CacheIsHonest == slot # NoToken => slot.expires <= slot.token.issued + Lifetime
NewTokensAreNew ==
    \A r \in Requests:
        request[r].step = "store" => /\ request[r].token \in Token
                                     /\ request[r].now <= request[r].token.issued
TokensOutliveRequests ==
    \A r \in Requests:
        request[r].step = "send" =>
            /\ request[r].token \in Token
            /\ request[r].now + MaxDelay < request[r].token.issued + Lifetime

Fresh == WithinTimeouts /\ CacheIsHonest /\ NewTokensAreNew /\ TokensOutliveRequests
TokenInv == TokenTypeOK /\ Fresh

\* Nothing is cached and nobody waits at first.
LEMMA TokenInitOK == TokenInit => TokenInv
  BY TokenAssumption DEF TokenInit, TokenInv, Fresh, TokenTypeOK, Waiting, WithinTimeouts,
     CacheIsHonest, NewTokensAreNew, TokensOutliveRequests

\* The clock stops at the timeout of every request under way.
LEMMA TickKeeps == TokenInv /\ TokenTick => TokenInv'
  BY TokenAssumption DEF TokenTick, TokenInv, Fresh, TokenTypeOK, Token, WithinTimeouts,
     CacheIsHonest, NewTokensAreNew, TokensOutliveRequests

\* A step of one request changes the record of no other.
LEMMA OneRequestMoves ==
  ASSUME NEW r \in Requests, TokenInv, UNCHANGED time, UNCHANGED slot,
         NEW c \in [step: {"idle", "cached", "exchange", "store", "send"},
                    now: 0..MaxTime, token: Token \cup {NoToken}],
         request' = [request EXCEPT ![r] = c],
         c.step # "idle" => c.now <= time /\ time <= c.now + MaxDelay,
         c.step = "store" => c.token \in Token /\ c.now <= c.token.issued,
         c.step = "send" => c.token \in Token /\ c.now + MaxDelay < c.token.issued + Lifetime
  PROVE  TokenInv'
<1>1. request'[r] = c /\ \A q \in Requests \ {r}: request'[q] = request[q]
  BY DEF TokenInv, TokenTypeOK
<1>2. TokenTypeOK'
  BY DEF TokenInv, TokenTypeOK, Cached, Token
<1>3. Fresh'
  BY <1>1 DEF TokenInv, Fresh, WithinTimeouts, CacheIsHonest, NewTokensAreNew,
     TokensOutliveRequests, Token
<1> QED
  BY <1>2, <1>3 DEF TokenInv

\* A request begins with the clock.
LEMMA NowKeeps == ASSUME NEW r \in Requests, TokenInv, NowUnix(r) PROVE TokenInv'
<1> DEFINE c == [Waiting EXCEPT !.step = "cached", !.now = time]
<1>1. Waiting \in [step: {"idle", "cached", "exchange", "store", "send"},
                   now: 0..MaxTime, token: Token \cup {NoToken}]
  BY TokenAssumption DEF Waiting
<1>2. c \in [step: {"idle", "cached", "exchange", "store", "send"},
             now: 0..MaxTime, token: Token \cup {NoToken}]
  BY <1>1 DEF TokenInv, TokenTypeOK
<1>3. c.now <= time /\ time <= c.now + MaxDelay /\ c.step = "cached"
  BY <1>1, TokenAssumption DEF TokenInv, TokenTypeOK
<1>4. request' = [request EXCEPT ![r] = c] /\ UNCHANGED time /\ UNCHANGED slot
  BY Zenon DEF NowUnix
<1> HIDE DEF c
<1> QED
  BY <1>2, <1>3, <1>4, OneRequestMoves

\* A cached token is used only with more than the margin left.
LEMMA LookUpKeeps == ASSUME NEW r \in Requests, TokenInv, LookUpToken(r) PROVE TokenInv'
<1> DEFINE c == IF Usable(slot, request[r].now)
                THEN [request[r] EXCEPT !.step = "send", !.token = slot.token]
                ELSE [request[r] EXCEPT !.step = "exchange"]
<1>1. request' = [request EXCEPT ![r] = c] /\ UNCHANGED time /\ UNCHANGED slot
  BY DEF LookUpToken, TokenInv, TokenTypeOK
<1>2. c \in [step: {"idle", "cached", "exchange", "store", "send"},
             now: 0..MaxTime, token: Token \cup {NoToken}]
  BY DEF TokenInv, TokenTypeOK, Usable, Cached
<1>3. c.now <= time /\ time <= c.now + MaxDelay
  BY DEF TokenInv, TokenTypeOK, Fresh, WithinTimeouts, LookUpToken
<1>4. c.step \in {"send", "exchange"}
  BY DEF TokenInv, TokenTypeOK
<1>5. ASSUME c.step = "send"
      PROVE  c.token \in Token /\ c.now + MaxDelay < c.token.issued + Lifetime
  <2>1. Usable(slot, request[r].now)
    BY <1>5 DEF TokenInv, TokenTypeOK
  <2>2. slot \in Cached /\ slot.expires <= slot.token.issued + Lifetime
    BY <2>1 DEF Usable, TokenInv, TokenTypeOK, Fresh, CacheIsHonest
  <2>3. slot.expires > request[r].now + Margin
    BY <2>1 DEF Usable
  <2>4. c.token = slot.token /\ c.now = request[r].now
    BY <2>1 DEF TokenInv, TokenTypeOK
  <2> QED
    BY <2>2, <2>3, <2>4, TokenAssumption DEF Cached, Token, TokenInv, TokenTypeOK
<1> HIDE DEF c
<1> QED
  BY <1>1, <1>2, <1>3, <1>4, <1>5, OneRequestMoves

\* A new token is issued no earlier than the clock was read.
LEMMA ExchangeKeeps == ASSUME NEW r \in Requests, TokenInv, Exchange(r) PROVE TokenInv'
<1>1. PICK c \in AfterExchange(request[r]): request' = [request EXCEPT ![r] = c]
  BY DEF Exchange
<1>2. UNCHANGED time /\ UNCHANGED slot
  BY DEF Exchange
<1>3. CASE c = Waiting
  <2>1. c.step = "idle" /\ c \in [step: {"idle", "cached", "exchange", "store", "send"},
                                 now: 0..MaxTime, token: Token \cup {NoToken}]
    BY <1>3, TokenAssumption DEF Waiting
  <2> QED
    BY <1>1, <1>2, <2>1, OneRequestMoves
<1>4. CASE c = [request[r] EXCEPT !.step = "store", !.token = [issued |-> time]]
  <2>1. c.step = "store" /\ c.token = [issued |-> time] /\ c.now = request[r].now
    BY <1>4 DEF TokenInv, TokenTypeOK
  <2>2. c \in [step: {"idle", "cached", "exchange", "store", "send"},
               now: 0..MaxTime, token: Token \cup {NoToken}]
    BY <1>4 DEF TokenInv, TokenTypeOK, Token
  <2>3. c.now <= time /\ time <= c.now + MaxDelay
    BY <2>1 DEF TokenInv, Fresh, WithinTimeouts, Exchange
  <2>4. c.token \in Token /\ c.now <= c.token.issued
    BY <2>1, <2>3 DEF TokenInv, TokenTypeOK, Token
  <2> QED
    BY <1>1, <1>2, <2>1, <2>2, <2>3, <2>4, OneRequestMoves
<1> QED
  BY <1>1, <1>3, <1>4 DEF AfterExchange

\* The expiry is counted from the clock as it was read.
LEMMA StoreKeeps == ASSUME NEW r \in Requests, TokenInv, StoreToken(r) PROVE TokenInv'
  BY TokenAssumption DEF StoreToken, Expiry, TokenInv, Fresh, TokenTypeOK, Cached, Token,
     WithinTimeouts, CacheIsHonest, NewTokensAreNew, TokensOutliveRequests

\* A request that was sent is over.
LEMMA SendKeeps == ASSUME NEW r \in Requests, TokenInv, SendRequest(r) PROVE TokenInv'
  BY TokenAssumption DEF SendRequest, Waiting, TokenInv, Fresh, TokenTypeOK, Token,
     WithinTimeouts, CacheIsHonest, NewTokensAreNew, TokensOutliveRequests

LEMMA TokenInductive == TokenSpec => []TokenInv
<1>1. TokenInv /\ [TokenNext]_tokenVars => TokenInv'
  <2> SUFFICES ASSUME TokenInv, [TokenNext]_tokenVars PROVE TokenInv'
    OBVIOUS
  <2>1. CASE UNCHANGED tokenVars
    BY <2>1 DEF tokenVars, TokenInv, Fresh, TokenTypeOK, WithinTimeouts, CacheIsHonest,
       NewTokensAreNew, TokensOutliveRequests
  <2>2. CASE TokenTick
    BY <2>2, TickKeeps
  <2>3. CASE \E r \in Requests: \/ NowUnix(r) \/ LookUpToken(r) \/ Exchange(r)
                                \/ StoreToken(r) \/ SendRequest(r)
    BY <2>3, NowKeeps, LookUpKeeps, ExchangeKeeps, StoreKeeps, SendKeeps
  <2> QED
    BY <2>1, <2>2, <2>3 DEF TokenNext
<1> QED
  BY TokenInitOK, <1>1, PTL DEF TokenSpec

\* The cached token and every request that waits for one stay well formed.
THEOREM TokenTyped == TokenSpec => []TokenTypeOK
  BY TokenInductive, PTL DEF TokenInv

\* Google never sees an expired token, for any number of requests that share
\* the cache (get_or_refresh, cached).
THEOREM TokensStayFresh == TokenSpec => []SentTokensAreFresh
<1>1. TokenInv => SentTokensAreFresh
  BY TokenAssumption DEF TokenInv, Fresh, TokenTypeOK, Token, WithinTimeouts,
     TokensOutliveRequests, SentTokensAreFresh
<1> QED
  BY TokenInductive, <1>1, PTL
=============================================================================
