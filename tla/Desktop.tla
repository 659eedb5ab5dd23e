------------------------------- MODULE Desktop -------------------------------
(***************************************************************************)
(* The desktop app around its vault: the unlocked session, the cached      *)
(* Drive client, the stop switch and its marker, dispatching and the       *)
(* auto-lock (src-tauri/src: state.rs, commands.rs, lib.rs, drive/).       *)
(*                                                                         *)
(* Synchronous commands run one at a time on the main thread, and main is  *)
(* the step it makes next; asynchronous ones run on the threads of Pool,   *)
(* and call[p] is the command p executes; the auto-lock task is a third.   *)
(* A step is what happens under one hold of a mutex, or one request.       *)
(* The payload is reduced to the Drive credential in it, the settings to   *)
(* the Drive folder; what saving a payload does is in VaultStore.          *)
(***************************************************************************)
EXTENDS Naturals, Sequences

CONSTANTS
    Pool,
    Keys,        \* Drive credentials
    Folders,     \* Drive folders
    MaxMarkers,  \* marker files in one folder
    Locked,      \* the session without a payload
    None         \* no credential, no folder, no client, no marker

VARIABLES
    session,      \* Locked, or the credential in the open payload
    folder,       \* Config.drive_folder_id, and what config.json holds
    cache,        \* AppState.drive
    flag,         \* AppState.kill_switch
    flagFile,     \* killswitch.json
    markers,      \* the KILLSWITCH.json files of each folder, newest first
    main, auto, call,
    stopped,      \* a stop that no other stop command overlapped was answered, and
                  \* nobody has touched the switch since
    marked        \* the folder in which the latest stop command reported to have
                  \* written a stop

ASSUME DesktopAssumption ==
    /\ Keys \cap {Locked, None} = {} /\ None \notin Folders /\ Locked # None
    /\ MaxMarkers \in Nat

Client == [key: Keys, folder: Folders]
Marker == [id: 1..MaxMarkers, on: BOOLEAN]
Commands == {"none", "unlock", "stop", "read", "dispatch"}
Call == [cmd: Commands,
         step: {"idle", "open", "save", "folder", "key", "cache", "keep", "find", "put",
                "post"},
         on: BOOLEAN,                   \* the position the stop switch is set to
         alone: BOOLEAN,                \* no other stop command overlaps this one
         last: BOOLEAN,                 \* none has begun since
         held: SUBSET Keys,             \* what the session held since drive() was called
         key: Keys \cup {None}, folder: Folders \cup {None},
         client: Client \cup {None}, id: 0..MaxMarkers]

Idle == [cmd |-> "none", step |-> "idle", on |-> FALSE, alone |-> TRUE,
         last |-> TRUE, held |-> {}, key |-> None, folder |-> None, client |-> None, id |-> 0]

vars == <<session, folder, cache, flag, flagFile, markers,
          main, auto, call, stopped, marked>>

TypeOK ==
    /\ session \in Keys \cup {Locked, None}
    /\ folder \in Folders \cup {None}
    /\ cache \in Client \cup {None}
    /\ flag \in BOOLEAN /\ flagFile \in BOOLEAN /\ stopped \in BOOLEAN
    /\ markers \in [Folders -> Seq(Marker)]
    /\ \A f \in Folders: Len(markers[f]) <= MaxMarkers
    /\ main \in {"idle", "forget"}
    /\ auto \in {"idle", "forget"}
    /\ call \in [Pool -> Call]
    /\ marked \in Folders \cup {None}

\* A first start; the vault has been created by VaultStore's vault_init.
Init ==
    /\ session = Locked
    /\ folder = None /\ cache = None
    /\ flag = FALSE /\ flagFile = FALSE
    /\ markers = [f \in Folders |-> <<>>]
    /\ main = "idle" /\ auto = "idle"
    /\ call = [p \in Pool |-> Idle]
    /\ stopped = FALSE /\ marked = None

(***************************************************************************)
(* Session.                                                                *)
(***************************************************************************)

\* A call inside drive() may come to read what the session holds from now on.
UsesDrive(c) == c.step \in {"folder", "key", "cache"}
Sees(c, k) == [c EXCEPT !.held = IF UsesDrive(c) THEN @ \cup ({k} \cap Keys) ELSE @]

(***************************************************************************)
(* Main thread.                                                            *)
(***************************************************************************)

switchVars == <<flag, flagFile, markers, stopped, marked>>

\* vault_lock and the tray's Lock; vault_destroy ends the same way.
VaultLock ==
    /\ main = "idle"
    /\ main' = "forget"
    /\ session' = Locked
    /\ UNCHANGED <<folder, cache, auto, call, switchVars>>

ForgetDrive ==
    /\ main = "forget"
    /\ main' = "idle"
    /\ cache' = None
    /\ UNCHANGED <<session, folder, auto, call, switchVars>>

\* config_set writes config.json, applies it, then forgets the client.  Only a
\* start reads the file, so writing and applying are one step; a failed write
\* ends the command and is not a step.
ConfigSet ==
    /\ main = "idle"
    /\ main' = "forget"
    /\ folder' \in Folders \cup {None}
    /\ UNCHANGED <<session, cache, auto, call, switchVars>>

\* vault_set_secret and vault_delete_secret; saving the payload changes
\* vault.bin only, and is in VaultStore.
EditSecret ==
    /\ main = "idle" /\ session # Locked
    /\ \E k \in Keys \cup {None}:
          session' = k /\ call' = [p \in Pool |-> Sees(call[p], k)]
    /\ UNCHANGED <<folder, cache, main, auto, switchVars>>

(***************************************************************************)
(* Auto-lock: the idle time is read under one hold, the lock is another,   *)
(* so whatever the session is by then is locked.  How long a session has   *)
(* been idle is left open, and with it when the task locks.                *)
(***************************************************************************)

AutoLock ==
    /\ auto = "idle"
    /\ auto' = "forget"
    /\ session' = Locked
    /\ UNCHANGED <<folder, cache, main, call, switchVars>>

AutoForget ==
    /\ auto = "forget"
    /\ auto' = "idle"
    /\ cache' = None
    /\ UNCHANGED <<session, folder, main, call, switchVars>>

(***************************************************************************)
(* Asynchronous commands.                                                  *)
(***************************************************************************)

appVars == <<folder, main, auto>>
At(p, step) == call[p].step = step
Update(p, c) == call' = [call EXCEPT ![p] = c]
Stopping == {p \in Pool: call[p].cmd = "stop"}

Begin(p, fields) ==
    /\ At(p, "idle")
    /\ Update(p, Sees(fields, session))

\* The vault is read long before the session is opened, with a payload that
\* VaultStore says was saved at that time: here, with any.
\* vault_init and vault_rotate end in the same way.
VaultUnlock(p) ==
    /\ Begin(p, [Idle EXCEPT !.cmd = "unlock", !.step = "open"])
    /\ UNCHANGED <<session, cache, appVars, switchVars>>

OpenSession(p) ==
    /\ At(p, "open")
    /\ \E k \in Keys \cup {None}:
          /\ session' = k
          /\ call' = [q \in Pool |-> IF q = p THEN Idle ELSE Sees(call[q], k)]
    /\ UNCHANGED <<cache, appVars, switchVars>>

\* drive_ledger and drive_heartbeat.
DriveRead(p) ==
    /\ Begin(p, [Idle EXCEPT !.cmd = "read", !.step = "folder"])
    /\ UNCHANGED <<session, cache, appVars, switchVars>>

\* The flag is set before anything that may fail.
SetKillSwitch(p) ==
    \E on \in BOOLEAN:
        /\ At(p, "idle")
        /\ flag' = on
        /\ call' = [q \in Pool |->
                      IF q = p THEN [Idle EXCEPT !.cmd = "stop", !.step = "save", !.on = on,
                                                 !.alone = (Stopping = {})]
                      ELSE [call[q] EXCEPT !.alone = (q \notin Stopping /\ @),
                                           !.last = (q \notin Stopping /\ @)]]
        /\ stopped' = (stopped /\ on /\ Stopping = {})
        /\ marked' = None
        /\ UNCHANGED <<session, cache, appVars, flagFile, markers>>

\* Mutant: only a release is written to killswitch.json.
SavedReleases(p) == IF call[p].on THEN {flagFile} ELSE {FALSE}

\* Overlapping writers share the temporary file (AtomicFile): what the second
\* finds there may be renamed half written, and such a file reads as released.
Saved(p) == IF call[p].alone THEN {call[p].on} ELSE {call[p].on, FALSE, flagFile}

SaveFlag(p) ==
    /\ At(p, "save")
    /\ \/ /\ flagFile' \in Saved(p)
          /\ Update(p, Sees([call[p] EXCEPT !.step = "folder"], session))
       \/ UNCHANGED flagFile /\ Update(p, Idle)
    /\ UNCHANGED <<session, cache, appVars, flag, markers, stopped, marked>>

\* A stop is answered Ok whether its marker was written or not.
Answer(p, written) ==
    LET stop == call[p].cmd = "stop" /\ call[p].on
    IN  /\ Update(p, Idle)
        /\ stopped' = (stopped \/ (stop /\ call[p].alone))
        /\ marked' = IF stop /\ call[p].last /\ written THEN call[p].client.folder
                                                        ELSE marked

\* Mutant: nobody notices that no folder is set.
ReadFolderUnset(p) ==
    /\ At(p, "folder")
    /\ Update(p, [call[p] EXCEPT !.step = "key", !.folder = folder])
    /\ UNCHANGED <<session, cache, appVars, switchVars>>

ReadFolder(p) ==
    /\ At(p, "folder")
    /\ IF folder = None THEN Answer(p, FALSE)
       ELSE /\ Update(p, [call[p] EXCEPT !.step = "key", !.folder = folder])
            /\ UNCHANGED <<stopped, marked>>
    /\ UNCHANGED <<session, cache, appVars, flag, flagFile, markers>>

\* secret_copy
CopyKey(p) ==
    /\ At(p, "key")
    /\ IF session \in Keys
       THEN /\ Update(p, [call[p] EXCEPT !.step = "cache", !.key = session])
            /\ UNCHANGED <<stopped, marked>>
       ELSE Answer(p, FALSE)
    /\ UNCHANGED <<session, cache, appVars, flag, flagFile, markers>>

\* Mutant: whatever is cached is used.
HitAny(p) == cache # None

Hit(p) == cache # None /\ cache.key = call[p].key

\* What a call that has its client needs no more.
Chosen(p) == [call[p] EXCEPT !.key = None, !.folder = None, !.held = {}]

LookUp(p) ==
    /\ At(p, "cache")
    /\ IF Hit(p)
       THEN Update(p, [Chosen(p) EXCEPT !.step = "find", !.client = cache])
       ELSE Update(p, [Chosen(p) EXCEPT !.step = "keep",
                          !.client = [key |-> call[p].key, folder |-> call[p].folder]])
    /\ UNCHANGED <<session, cache, appVars, switchVars>>

\* The client is cached under a second hold: the session may be locked by now.
Keep(p) ==
    /\ At(p, "keep")
    /\ cache' = call[p].client
    /\ Update(p, [call[p] EXCEPT !.step = "find"])
    /\ UNCHANGED <<session, appVars, switchVars>>

\* Mutant: the listing is not ordered "desc".
FirstFoundOldest(f) == markers[f][Len(markers[f])]

\* find_child takes the first of a listing ordered by the time of modification.
FirstFound(f) == Head(markers[f])

Find(p) ==
    /\ At(p, "find")
    /\ \/ Answer(p, FALSE)
       \/ /\ call[p].cmd = "stop"
          /\ Update(p, [call[p] EXCEPT !.step = "put",
                           !.id = LET f == call[p].client.folder
                                  IN  IF markers[f] = <<>> THEN 0 ELSE FirstFound(f).id])
          /\ UNCHANGED <<stopped, marked>>
    /\ UNCHANGED <<session, cache, appVars, flag, flagFile, markers>>

\* update_file: the marker is the newest of its folder from now on.
Refreshed(ms, m) ==
    [i \in 1..Len(ms) |->
        CASE i = 1 -> m
          [] i > 1 /\ (\E j \in i..Len(ms): ms[j].id = m.id) -> ms[i - 1]
          [] OTHER -> ms[i]]

\* create_file, when none was found, adds a marker.
PutMarker(ms, id, on) ==
    IF id = 0 THEN <<[id |-> Len(ms) + 1, on |-> on]>> \o ms
              ELSE Refreshed(ms, [id |-> id, on |-> on])

\* A request that is reported as failed may have arrived.
Put(p) ==
    LET c == call[p]
        f == c.client.folder
        new == PutMarker(markers[f], c.id, c.on)
    IN  /\ At(p, "put")
        /\ \/ /\ Len(new) <= MaxMarkers
              /\ markers' = [markers EXCEPT ![f] = new]
              /\ \E written \in BOOLEAN: Answer(p, written)
           \/ UNCHANGED markers /\ Answer(p, FALSE)
        /\ UNCHANGED <<session, cache, appVars, flag, flagFile>>

\* The switch is looked at before the token is copied and the request made.
NodeDispatch(p) ==
    /\ ~flag
    /\ session # Locked
    /\ Begin(p, [Idle EXCEPT !.cmd = "dispatch", !.step = "post"])
    /\ UNCHANGED <<session, cache, appVars, switchVars>>

Post(p) ==
    /\ At(p, "post")
    /\ Update(p, Idle)
    /\ UNCHANGED <<session, cache, appVars, switchVars>>

\* Quitting, a crash, and the next start, which reads config.json and
\* killswitch.json.
Restart ==
    /\ session' = Locked
    /\ cache' = None
    /\ flag' = flagFile
    /\ main' = "idle" /\ auto' = "idle"
    /\ call' = [p \in Pool |-> Idle]
    /\ UNCHANGED <<folder, flagFile, markers, stopped, marked>>

AutoTask == AutoLock \/ AutoForget
MainThread == VaultLock \/ ForgetDrive \/ ConfigSet \/ EditSecret
Command(p) == \/ VaultUnlock(p) \/ OpenSession(p) \/ DriveRead(p)
              \/ SetKillSwitch(p) \/ SaveFlag(p)
              \/ ReadFolder(p) \/ CopyKey(p) \/ LookUp(p) \/ Keep(p) \/ Find(p) \/ Put(p)
              \/ NodeDispatch(p) \/ Post(p)

Next == AutoTask \/ MainThread \/ (\E p \in Pool: Command(p)) \/ Restart

Spec == Init /\ [][Next]_vars

-----------------------------------------------------------------------------
\* The client a command gets holds a credential that the unlocked session held
\* at some moment since drive() was called, although clients are cached across
\* edits, locks and unlocks: a locked app cannot touch Drive. (AppState::drive)
ClientsHoldLiveKey ==
    [][\A p \in Pool: At(p, "cache") /\ call'[p].client # None
                        => call'[p].client.key \in call[p].held]_vars

\* Once a stop has been answered that overlapped no other stop command, and until
\* somebody touches the switch again, the app begins no dispatch, not even after
\* a crash or a quit; one that had passed the switch before may still be on its way.
\* (node_set_kill_switch, node_dispatch, load_kill_switch)
StoppedStaysStopped == [][\A p \in Pool: NodeDispatch(p) => ~stopped]_vars

\* When a stop that overlapped no other stop command was answered as written to
\* Drive, the marker that the app finds first in that folder says stop, until
\* somebody touches the switch again.  The folder may hold several (two commands
\* that find none create one each), and update_file reorders them.
\* (set_killswitch, find_child)
MarkerSaysStop ==
    stopped /\ marked # None => markers[marked] # <<>> /\ FirstFound(marked).on

\* "stop marker written to Drive; the running node will observe it before handing
\* over" (the answer of node_set_kill_switch): here, whatever the stop overlapped,
\* as long as no stop command has begun since.
AnsweredStopIsMarked ==
    marked # None => markers[marked] # <<>> /\ FirstFound(marked).on
=============================================================================
