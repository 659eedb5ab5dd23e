----------------------------- MODULE VaultStore ------------------------------
(***************************************************************************)
(* The vault of the desktop app: the commands that read and write it       *)
(* (src-tauri/src/commands.rs), the store beneath them (nrvault/src/       *)
(* store.rs) and the session they share (src-tauri/src/state.rs).          *)
(*                                                                         *)
(* Synchronous commands run on the thread Main, asynchronous ones on the   *)
(* others.  call[t] is the command thread t executes and the step it makes *)
(* next, one per system call.  An envelope is the passphrase that opens it *)
(* and the set of edits its payload contains (a deletion is an edit too);  *)
(* every sealing is distinct, as every sealing draws fresh nonces, because *)
(* it has new edits or a new passphrase.  vault.meta.json is reduced to    *)
(* the envelope whose fingerprint it records and whether strikes stand.    *)
(***************************************************************************)
EXTENDS AtomicFile

CONSTANTS
    Main,         \* the main thread
    Locked,       \* the session without a payload
    MaxEdits,     \* edits the user makes
    MaxPass,      \* passphrases the user chooses
    MaxFaults,    \* system calls that fail
    MaxCrashes,   \* crashes of the app or the machine
    Concurrent,   \* whether a command may start while another runs
    OsWrap        \* whether the platform protects a copy of the key

VARIABLES
    call,         \* what each thread executes
    session,      \* Session.payload
    edits, passes, faults, crashes,
    acked         \* the edits whose commands returned Ok

vars == <<disk, target, call, session, edits, passes, faults, crashes, acked>>
counters == <<edits, passes, faults, crashes>>

Edits == 1..MaxEdits
Pass == 1..MaxPass
OsKey == 0
Envelope == [pass: Pass, body: SUBSET Edits]
Note == [fingerprint: Envelope \cup {Absent}, alarm: BOOLEAN]
NewNote == [fingerprint |-> Absent, alarm |-> FALSE]

VaultNames == {"vault", "vault.tmp", "vault.bak"}
Marks == {Absent, Empty, Torn}

ASSUME VaultAssumption ==
    /\ Main \in Threads
    /\ \A n \in {MaxEdits, MaxPass, MaxFaults, MaxCrashes}: n \in Nat
    /\ {Concurrent, OsWrap} \subseteq BOOLEAN
    /\ Marks \cap (Envelope \cup Note) = {}
    /\ Absent # Empty /\ Absent # Torn /\ Empty # Torn
    /\ NoName \notin Names
    /\ \A body \in SUBSET Edits: body # Locked

Commands == {"none", "init", "unlock", "set", "rotate", "destroy", "clear"}
Steps == {"idle", "snapshot", "load", "judge", "create", "write", "backup", "copy",
          "rename", "note", "zero", "unlink", "reply"}
\* What the file being written is written for.
Jobs == {"vault", "seal", "count", "unlock", "tamper", "clear"}

\* An envelope in the making; its passphrase is not known before the file is read.
Draft == [pass: Pass \cup {OsKey}, body: SUBSET Edits]

Call == [cmd: Commands, step: Steps, key: Nat, job: Jobs, path: Names,
         env: Draft, note: Note, old: Envelope \cup Marks]

Idle == [cmd |-> "none", step |-> "idle", key |-> OsKey, job |-> "vault", path |-> "vault",
         env |-> [pass |-> OsKey, body |-> {}], note |-> NewNote, old |-> Absent]

TypeOK ==
    /\ disk \in [Names -> Envelope \cup Note \cup Marks]
    /\ \A n \in VaultNames: disk[n] \in Envelope \cup Marks
    /\ \A n \in Names \ VaultNames: disk[n] \in Note \cup Marks
    /\ target \in [Threads -> Names \cup {NoName}]
    /\ call \in [Threads -> Call]
    /\ session = Locked \/ session \subseteq Edits
    /\ edits \in 0..MaxEdits /\ passes \in 0..MaxPass
    /\ faults \in 0..MaxFaults /\ crashes \in 0..MaxCrashes
    /\ acked \subseteq Edits

Init ==
    /\ disk = [n \in Names |-> Absent]
    /\ target = [t \in Threads |-> NoName]
    /\ call = [t \in Threads |-> Idle]
    /\ session = Locked
    /\ edits = 0 /\ passes = 0 /\ faults = 0 /\ crashes = 0
    /\ acked = {}

Sealed(c) == c \in Envelope

\* UnlockRequest: a passphrase, or the key the platform keeps.
Opens(key, env) == key = env.pass \/ (key = OsKey /\ OsWrap)

Update(t, fields) == call' = [call EXCEPT ![t] = fields]
Return(t) == Update(t, Idle)

(***************************************************************************)
(* Commands.                                                               *)
(***************************************************************************)

\* A user who waits for each answer has one command running at a time.
Free(t) == \A u \in IF Concurrent THEN {t} ELSE Threads: call[u].step = "idle"

\* Synchronous commands run on the main thread and no others do.
Begin(t, fields) ==
    /\ Free(t)
    /\ t = Main <=> fields.cmd \in {"set", "clear"}
    /\ Update(t, fields)
    /\ UNCHANGED <<disk, target, faults, crashes, acked>>

\* The passphrase of a new vault is a new one; so is that of a rotation.
VaultInit(t) ==
    /\ disk["vault"] = Absent
    /\ passes < MaxPass
    /\ passes' = passes + 1
    /\ Begin(t, [Idle EXCEPT !.cmd = "init", !.step = "create",
                            !.env = [pass |-> passes + 1, body |-> {}]])
    /\ UNCHANGED <<session, edits>>

\* Any passphrase the user ever chose may be typed, the wrong ones too.
VaultUnlock(t) ==
    /\ \E k \in 0..passes: Begin(t, [Idle EXCEPT !.cmd = "unlock", !.step = "load", !.key = k])
    /\ UNCHANGED <<session, edits, passes>>

VaultDestroy(t) ==
    /\ \E k \in 1..passes: Begin(t, [Idle EXCEPT !.cmd = "destroy", !.step = "load", !.key = k])
    /\ UNCHANGED <<session, edits, passes>>

VaultRotate(t) ==
    /\ passes < MaxPass
    /\ passes' = passes + 1
    /\ \E k \in 1..passes:
          Begin(t, [Idle EXCEPT !.cmd = "rotate", !.step = "load", !.key = k,
                                !.env = [pass |-> passes + 1, body |-> {}]])
    /\ UNCHANGED <<session, edits>>

\* The payload in memory changes first, whatever becomes of the save.
VaultSetSecret(t) ==
    /\ session # Locked
    /\ edits < MaxEdits
    /\ edits' = edits + 1
    /\ session' = session \cup {edits + 1}
    /\ Begin(t, [Idle EXCEPT !.cmd = "set", !.step = "snapshot", !.key = edits + 1])
    /\ UNCHANGED passes

VaultClearAlerts(t) ==
    /\ Begin(t, [Idle EXCEPT !.cmd = "clear", !.step = "note", !.job = "clear", !.path = "meta"])
    /\ UNCHANGED <<session, edits, passes>>

\* The command, the tray and the auto-lock task, which asks nobody.
Lock ==
    /\ session # Locked
    /\ session' = Locked
    /\ UNCHANGED <<disk, target, call, counters, acked>>

(***************************************************************************)
(* Loading and unsealing.                                                  *)
(***************************************************************************)

At(t, step) == call[t].step = step
sharedVars == <<disk, target, session, counters, acked>>

\* persist_session takes the payload under a lock of its own: the vault may
\* have been locked since the edit.
Snapshot(t) ==
    /\ At(t, "snapshot")
    /\ IF session = Locked THEN Return(t)
       ELSE Update(t, [call[t] EXCEPT !.step = "load", !.env.body = session])
    /\ UNCHANGED sharedVars

\* A payload update keeps the wrapped keys, a rotation the payload it read.
Reseal(c, found) ==
    IF c.cmd = "set" THEN [pass |-> found.pass, body |-> c.env.body]
                     ELSE [pass |-> c.env.pass, body |-> found.body]

\* load, and the first authenticated step on what was loaded.
Load(t) ==
    LET c == call[t]
        found == disk["vault"]
        saves == c.cmd \in {"set", "rotate"}
        opened == Sealed(found) /\ Opens(IF c.cmd = "set" THEN OsKey ELSE c.key, found)
    IN  /\ At(t, "load")
        /\ \/ /\ opened /\ saves
              /\ Update(t, [c EXCEPT !.step = "create", !.env = Reseal(c, found)])
           \/ /\ opened /\ ~saves
              /\ Update(t, [c EXCEPT !.step = "note", !.job = "unlock", !.path = "meta",
                                     !.env = found])
           \/ /\ Sealed(found) /\ ~opened /\ ~saves
              /\ Update(t, [c EXCEPT !.step = "judge", !.env = found])
           \/ /\ ~opened
              /\ saves \/ ~Sealed(found)
              /\ Return(t)
        /\ UNCHANGED sharedVars

\* envelope_changed_since_seal: only a recorded fingerprint can accuse.
Judge(t) ==
    /\ At(t, "judge")
    /\ IF disk["meta"] \in Note /\ disk["meta"].fingerprint \notin {Absent, call[t].env}
       THEN Update(t, [call[t] EXCEPT !.step = "note", !.job = "tamper", !.path = "meta"])
       ELSE Return(t)
    /\ UNCHANGED sharedVars

(***************************************************************************)
(* write_atomic on vault.bin and vault.meta.json.                          *)
(***************************************************************************)

stillVars == <<session, counters, acked>>

Create(t) ==
    /\ At(t, "create")
    /\ CreateTmp(t, call[t].path)
    /\ Update(t, [call[t] EXCEPT !.step = "write"])
    /\ UNCHANGED stillVars

\* Only vault.bin keeps a previous generation.
Write(t) ==
    LET c == call[t]
        vault == c.path = "vault"
    IN  /\ At(t, "write")
        /\ WriteTmp(t, c.path, IF vault THEN c.env ELSE c.note)
        /\ Update(t, [c EXCEPT !.step = IF vault THEN "backup" ELSE "rename"])
        /\ UNCHANGED stillVars

StartBackup(t) ==
    /\ At(t, "backup")
    /\ IF disk["vault"] = Absent
       THEN /\ UNCHANGED <<disk, target>>
            /\ Update(t, [call[t] EXCEPT !.step = "rename"])
       ELSE /\ OpenBackup
            /\ Update(t, [call[t] EXCEPT !.step = "copy", !.old = disk["vault"]])
    /\ UNCHANGED stillVars

CopyBackup(t) ==
    /\ At(t, "copy")
    /\ FillBackup(call[t].old)
    /\ Update(t, [call[t] EXCEPT !.step = "rename"])
    /\ UNCHANGED stillVars

\* What follows a write of the metadata: save and destroy go on, a recorded
\* strike still answers with the error.
AfterNote(c) ==
    CASE c.job = "seal" /\ c.cmd = "rotate" -> [c EXCEPT !.step = "note", !.job = "count"]
      [] c.job = "unlock" /\ c.cmd = "destroy" ->
           [c EXCEPT !.step = "zero", !.job = "vault", !.path = "vault"]
      [] c.job = "tamper" -> Idle
      [] OTHER -> [c EXCEPT !.step = "reply"]

\* Writing an unlock or a strike is best effort; any other error ends the command.
BestEffort(c) == c.path = "meta" /\ c.job \in {"unlock", "tamper"}
GiveUp(t) == Update(t, IF BestEffort(call[t]) THEN AfterNote(call[t]) ELSE Idle)

RenameTmp(t) ==
    LET c == call[t]
    IN  /\ At(t, "rename")
        /\ IF CanRename(c.path)
           THEN /\ Rename(c.path)
                /\ Update(t, IF c.path = "vault"
                             THEN [c EXCEPT !.step = "note", !.job = "seal", !.path = "meta"]
                             ELSE AfterNote(c))
           ELSE GiveUp(t) /\ UNCHANGED <<disk, target>>
        /\ UNCHANGED stillVars

\* Mutant: every write of the metadata refreshes the fingerprint.
AmendAlways(c, m) ==
    [fingerprint |-> c.env,
     alarm |-> (m.alarm \/ c.job = "tamper") /\ c.job # "clear"]

\* Mutant: a fingerprint is recorded only when there is none.
AmendOnce(c, m) ==
    CASE c.job = "seal" -> IF m.fingerprint = Absent THEN [m EXCEPT !.fingerprint = c.env] ELSE m
      [] c.job = "tamper" -> [m EXCEPT !.alarm = TRUE]
      [] c.job = "clear" -> [m EXCEPT !.alarm = FALSE]
      [] OTHER -> m

\* What each job changes in the metadata; the rotation count and the times
\* of sealing and unlocking are left out.
Amend(c, m) ==
    CASE c.job = "seal" -> [m EXCEPT !.fingerprint = c.env]
      [] c.job = "tamper" -> [m EXCEPT !.alarm = TRUE]
      [] c.job = "clear" -> [m EXCEPT !.alarm = FALSE]
      [] OTHER -> m

\* Metadata that cannot be read is replaced by fresh metadata.
ReadNote(t) ==
    LET c == call[t]
        found == IF disk["meta"] \in Note THEN disk["meta"] ELSE NewNote
    IN  /\ At(t, "note")
        /\ \/ Update(t, [c EXCEPT !.step = "create", !.note = Amend(c, found)])
              /\ UNCHANGED faults
           \/ /\ faults < MaxFaults
              /\ faults' = faults + 1
              /\ Update(t, [c EXCEPT !.step = "create", !.note = Amend(c, NewNote)])
        /\ UNCHANGED <<disk, target, session, edits, passes, crashes, acked>>

(***************************************************************************)
(* Destroying, answering, failing.                                         *)
(***************************************************************************)

\* Mutant: the backup is forgotten.
NextWipeNoBackup(c) ==
    CASE c.path = "vault" -> [c EXCEPT !.step = "zero", !.path = "vault.tmp"]
      [] c.path = "vault.tmp" -> [c EXCEPT !.step = "zero", !.path = "meta"]
      [] OTHER -> [c EXCEPT !.step = "reply"]

NextWipe(c) ==
    CASE c.path = "vault" -> [c EXCEPT !.step = "zero", !.path = "vault.bak"]
      [] c.path = "vault.bak" -> [c EXCEPT !.step = "zero", !.path = "vault.tmp"]
      [] c.path = "vault.tmp" -> [c EXCEPT !.step = "zero", !.path = "meta"]
      [] OTHER -> [c EXCEPT !.step = "reply"]

\* Nothing is owed to the user of a vault that is being destroyed.
WipeZero(t) ==
    LET c == call[t]
    IN  /\ At(t, "zero")
        /\ IF disk[c.path] = Absent
           THEN Update(t, NextWipe(c)) /\ UNCHANGED <<disk, target>>
           ELSE Update(t, [c EXCEPT !.step = "unlink"]) /\ Zero(c.path)
        /\ acked' = IF Sealed(disk'["vault"]) THEN acked ELSE {}
        /\ UNCHANGED <<session, counters>>

WipeUnlink(t) ==
    /\ At(t, "unlink")
    /\ Unlink(call[t].path)
    /\ Update(t, NextWipe(call[t]))
    /\ acked' = IF Sealed(disk'["vault"]) THEN acked ELSE {}
    /\ UNCHANGED <<session, counters>>

Reply(t) ==
    LET c == call[t]
    IN  /\ At(t, "reply")
        /\ session' = CASE c.cmd \in {"init", "unlock", "rotate"} -> c.env.body
                       [] c.cmd = "destroy" -> Locked
                       [] OTHER -> session
        /\ acked' = IF c.cmd = "set" THEN acked \cup {c.key} ELSE acked
        /\ Return(t)
        /\ UNCHANGED <<disk, target, counters>>

\* A system call fails; what was done stays done, the handle is closed.
Fail(t) ==
    /\ call[t].step \in Steps \ {"idle", "snapshot", "note", "reply"}
    /\ faults < MaxFaults
    /\ faults' = faults + 1
    /\ GiveUp(t)
    /\ target' = [target EXCEPT ![t] = NoName]
    /\ UNCHANGED <<disk, session, edits, passes, crashes, acked>>

Crash ==
    /\ crashes < MaxCrashes
    /\ crashes' = crashes + 1
    /\ call' = [t \in Threads |-> Idle]
    /\ target' = [t \in Threads |-> NoName]
    /\ session' = Locked
    /\ UNCHANGED <<disk, edits, passes, faults, acked>>

CommandStarts(t) == \/ VaultInit(t) \/ VaultUnlock(t) \/ VaultDestroy(t)
                    \/ VaultRotate(t) \/ VaultSetSecret(t) \/ VaultClearAlerts(t)
CommandSteps(t) == \/ Snapshot(t) \/ Load(t) \/ Judge(t) \/ Create(t) \/ Write(t)
                   \/ StartBackup(t) \/ CopyBackup(t) \/ RenameTmp(t) \/ ReadNote(t)
                   \/ WipeZero(t) \/ WipeUnlink(t) \/ Reply(t) \/ Fail(t)

Next == \/ \E t \in Threads: CommandStarts(t) \/ CommandSteps(t)
        \/ Lock \/ Crash

Spec == Init /\ [][Next]_vars
=============================================================================
