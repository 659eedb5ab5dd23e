------------------------------- MODULE Poller -------------------------------
(***************************************************************************)
(* The dashboard's status and the task that refreshes it (src-tauri/src:   *)
(* gh/poller.rs, the conditional request of gh/api.rs).  A step of the     *)
(* task is one hold of a lock, or one request.  An answer of GitHub is its *)
(* newest run; an etag stands for the answer it came with.  "active" is    *)
(* any status of a run that has not completed; the elapsed time is set and *)
(* cleared with the remaining one, and left out.                           *)
(***************************************************************************)
EXTENDS Naturals

CONSTANTS
    Slugs,    \* repositories
    Busy,     \* those that ever have a run
    NoSlug,   \* the settings name no repository
    MaxId,    \* runs GitHub creates, numbered over all repositories
    MaxNow,   \* bound on the clock
    Cycle,    \* Config.cycle_minutes
    NoTag,    \* no etag, no reply
    Unset     \* an optional number that is not there

VARIABLES
    newest,   \* the newest run of each repository, as GitHub knows it
    now,      \* the time
    access,   \* the session: "locked", open without GH_PAT ("empty"), or with it ("token")
    slug,     \* Config::repo_slug
    shown,    \* AppState.status
    etag,     \* the task's etag
    step,     \* what the task does next
    asked,    \* the slug its configuration snapshot has
    reply     \* what latest_run returned

pollerVars == <<newest, now, access, slug, shown, etag, step, asked, reply>>

RunSummary == [id: 1..MaxId, status: {"active", "completed"},
               started: (0..MaxNow) \cup {Unset}]
NoRuns == [id |-> 0, status |-> "no_runs", started |-> Unset]
Listing == RunSummary \cup {NoRuns}

ASSUME PollerAssumption ==
    /\ Busy \subseteq Slugs /\ NoSlug \notin Slugs /\ Unset \notin Nat
    /\ {MaxId, MaxNow, Cycle} \subseteq Nat
    /\ NoTag \notin Listing

IsActive(run) == run.status = "active"

NodeStatus == [phase: {"unknown", "locked", "unconfigured", "no_credential",
                       "active", "completed", "no_runs"},
               id: 0..MaxId,
               started: (0..MaxNow) \cup {Unset},
               remaining: (0..Cycle) \cup {Unset}]
RunLookup == [kind: {"modified"}, run: Listing, tag: Listing \cup {NoTag}]
             \cup [kind: {"not_modified", "error"}]

PollerTypeOK ==
    /\ newest \in [Slugs -> Listing] /\ now \in 0..MaxNow
    /\ access \in {"locked", "empty", "token"} /\ slug \in Slugs \cup {NoSlug}
    /\ shown \in NodeStatus /\ etag \in Listing \cup {NoTag}
    /\ step \in {"idle", "token", "request", "apply"}
    /\ asked \in Slugs \cup {NoSlug} /\ reply \in RunLookup \cup {NoTag}

PollerInit ==
    /\ newest = [s \in Slugs |-> NoRuns] /\ now = 0
    /\ access = "locked" /\ slug = NoSlug
    /\ shown = [phase |-> "unknown", id |-> 0, started |-> Unset, remaining |-> Unset]
    /\ etag = NoTag /\ step = "idle" /\ asked = NoSlug /\ reply = NoTag

taskVars == <<shown, etag, step, asked, reply>>
outside == <<newest, now, access, slug>>

\* A run is created, with or without a start time, and completes.
GitHubMoves ==
    /\ \E s \in Busy:
          \/ /\ ~IsActive(newest[s])
             /\ \E id \in 1..MaxId, started \in {now, Unset}:
                   /\ \A t \in Slugs: newest[t].id < id
                   /\ newest' = [newest EXCEPT ![s] =
                         [id |-> id, status |-> "active", started |-> started]]
          \/ /\ IsActive(newest[s])
             /\ newest' = [newest EXCEPT ![s].status = "completed"]
    /\ UNCHANGED <<now, access, slug, taskVars>>

UserMoves ==
    /\ \/ access' \in {"locked", "empty", "token"} /\ UNCHANGED slug
       \/ slug' \in Slugs \cup {NoSlug} /\ UNCHANGED access
    /\ UNCHANGED <<newest, now, taskVars>>

PollerTick ==
    /\ now < MaxNow
    /\ now' = now + 1
    /\ UNCHANGED <<newest, access, slug, taskVars>>

(***************************************************************************)
(* refresh.  A locked vault, a missing repository and a missing credential *)
(* end the cycle before any request.                                       *)
(***************************************************************************)

Done == step' = "idle" /\ asked' = NoSlug /\ reply' = NoTag

PollSession ==
    /\ step = "idle"
    /\ \/ /\ access = "locked"
          /\ shown' = [shown EXCEPT !.phase = "locked", !.remaining = Unset]
          /\ UNCHANGED <<step, asked>>
       \/ /\ access # "locked" /\ slug = NoSlug
          /\ shown' = [shown EXCEPT !.phase = "unconfigured"]
          /\ UNCHANGED <<step, asked>>
       \/ /\ access # "locked" /\ slug # NoSlug
          /\ step' = "token" /\ asked' = slug
          /\ UNCHANGED shown
    /\ UNCHANGED <<outside, etag, reply>>

\* The vault may have been locked since.
PollToken ==
    /\ step = "token"
    /\ \/ access = "token" /\ step' = "request" /\ UNCHANGED <<shown, asked, reply>>
       \/ access # "token" /\ Done /\ shown' = [shown EXCEPT !.phase = "no_credential"]
    /\ UNCHANGED <<outside, etag>>

\* latest_run: GitHub may answer in full although the etag matches, and a
\* response may lack an etag.
PollRequest ==
    /\ step = "request"
    /\ step' = "apply"
    /\ \/ /\ etag = newest[asked]
          /\ reply' = [kind |-> "not_modified"]
       \/ \E tag \in {newest[asked], NoTag}:
             reply' = [kind |-> "modified", run |-> newest[asked], tag |-> tag]
       \/ reply' = [kind |-> "error"]
    /\ UNCHANGED <<outside, shown, etag, asked>>

Elapsed(started) == IF started <= now THEN now - started ELSE 0
Remaining(started) == IF Elapsed(started) <= Cycle THEN Cycle - Elapsed(started) ELSE 0

\* Mutant: without runs the identity of the last one stays.
ApplyRunKeepsId(status, run) ==
    CASE run = NoRuns -> [status EXCEPT !.phase = run.status, !.remaining = Unset]
      [] run # NoRuns /\ run.started = Unset ->
            [phase |-> run.status, id |-> run.id, started |-> Unset, remaining |-> Unset]
      [] OTHER ->
            [phase |-> run.status, id |-> run.id, started |-> run.started,
             remaining |-> IF IsActive(run) THEN Remaining(run.started) ELSE 0]

\* apply_run.  Without runs, the start time of the last one stays.
ApplyRun(status, run) ==
    LET about == [status EXCEPT !.phase = run.status, !.id = run.id]
    IN  CASE run = NoRuns -> [about EXCEPT !.remaining = Unset]
          [] run # NoRuns /\ run.started = Unset ->
                [about EXCEPT !.started = Unset, !.remaining = Unset]
          [] OTHER ->
                [about EXCEPT !.started = run.started,
                     !.remaining = IF IsActive(run) THEN Remaining(run.started) ELSE 0]

\* Mutant: a 304 leaves the countdown alone.
RecountNot(status) == status

\* Mutant: the time that is left is subtracted without a floor.
RecountOverflows(status) ==
    IF status.started = Unset THEN status
    ELSE [status EXCEPT !.remaining = Cycle - Elapsed(status.started)]

\* After a 304 the countdown is computed again from the start time shown.
Recount(status) ==
    IF status.started = Unset THEN status
    ELSE [status EXCEPT !.remaining = Remaining(status.started)]

\* An error changes nothing but the message.
PollApply ==
    /\ step = "apply"
    /\ Done
    /\ \/ reply.kind = "modified" /\ shown' = ApplyRun(shown, reply.run) /\ etag' = reply.tag
       \/ reply.kind = "not_modified" /\ shown' = Recount(shown) /\ UNCHANGED etag
       \/ reply.kind = "error" /\ UNCHANGED <<shown, etag>>
    /\ UNCHANGED outside

PollerNext == \/ GitHubMoves \/ UserMoves \/ PollerTick
              \/ PollSession \/ PollToken \/ PollRequest \/ PollApply

PollerSpec == PollerInit /\ [][PollerNext]_pollerVars

-----------------------------------------------------------------------------
\* What makes a 304 usable: whatever was locked, reconfigured or failed in
\* between, the run and the start time on display are those of the answer the
\* etag came with. (refresh, latest_run)
EtagVouches ==
    etag # NoTag => /\ shown.id = etag.id
                    /\ etag # NoRuns => shown.started = etag.started

\* While the newest run is active, every successful poll leaves the countdown
\* that GitHub's start time gives, with a body or without one. (refresh)
CountdownFollowsServer ==
    [][PollApply /\ reply.kind # "error" =>
          LET run == IF reply.kind = "modified" THEN reply.run ELSE etag
          IN  IsActive(run) /\ run.started # Unset => shown'.remaining = Remaining(run.started)
      ]_pollerVars

\* api.rs: NotModified means the previously reported status is still current.
\* Here: it leaves what the same answer would have set with its body.
NotModifiedIsCurrent ==
    [][PollApply /\ reply.kind = "not_modified" => shown' = ApplyRun(shown', etag)]_pollerVars
=============================================================================
