---------------------------- MODULE VaultProofs ------------------------------
(***************************************************************************)
(* What the vault promises when no command starts before the last one has  *)
(* answered, for any number of threads, edits, passphrases, failures and   *)
(* crashes.                                                                *)
(***************************************************************************)
EXTENDS VaultTypes

USE DEF At, Update, Return, Files, Names, TmpPath, Backup, VaultNames, Marks, OsKey

Waits(c) == c.step = "idle"

\* Where a command stands: it writes vault.bin, or the metadata about it.
Saving(c) == c.step \in SaveSteps /\ c.path = "vault"
Noting(c) == c.step = "note" \/ (c.step \in SaveSteps /\ c.path = "meta")

\* What the temporary file holds at each step of a write, and who has it open.
TmpReady(c, handle, d) ==
    /\ handle = IF c.step = "write" THEN TmpPath[c.path] ELSE NoName
    /\ c.step = "write" => d[TmpPath[c.path]] = Empty
    /\ c.step \in {"backup", "copy", "rename"} =>
          d[TmpPath[c.path]] = IF c.path = "vault" THEN c.env ELSE c.note

\* Before the rename the backup is what the rename replaces.
BackupReady(c, d) ==
    /\ c.step = "copy" => c.old = d["vault"]
    /\ c.step = "rename" /\ c.path = "vault" /\ d["vault"] # Absent => d[Backup] = d["vault"]

\* What is about to be saved continues what is stored.
SaveExtends(c, d) ==
    Saving(c) =>
       \/ c.cmd = "init" /\ d["vault"] = Absent /\ c.env.body = {}
       \/ c.cmd = "set" /\ d["vault"] \in Envelope /\ c.env.pass = d["vault"].pass
             /\ d["vault"].body \subseteq c.env.body
       \/ c.cmd = "rotate" /\ d["vault"] \in Envelope /\ c.env.body = d["vault"].body

\* A command that has saved or opened the vault still has what is stored.
Holds(c, d) == d["vault"] \in Envelope /\ d["vault"] = c.env
Noted(c, d) ==
    /\ c.step \in {"load", "judge"} => c.cmd \in {"unlock", "set", "rotate", "destroy"}
    /\ c.step = "judge" => c.path = "vault" /\ Holds(c, d)
    /\ Noting(c) => IF c.cmd = "clear" THEN c.job = "clear"
                    ELSE /\ Holds(c, d) /\ c.job # "clear"
                         /\ c.cmd = "destroy" => c.job \in {"unlock", "tamper"}
    /\ c.step = "reply" /\ c.cmd \notin {"clear", "destroy"} => Holds(c, d)

\* An edit is in what its command will save, which the session covers.
EditHeld(c, d, s) ==
    /\ c.step = "snapshot" => c.cmd = "set"
    /\ c.cmd = "set" =>
          /\ c.step = "snapshot" /\ s # Locked => c.key \in s
          /\ ~Waits(c) /\ c.step # "snapshot" => c.key \in c.env.body
          /\ c.step = "load" /\ d["vault"] \in Envelope => d["vault"].body \subseteq c.env.body
          /\ c.step = "load" \/ Saving(c) => s = Locked \/ c.env.body \subseteq s

\* The files are destroyed in turn.
Before(path) ==
    CASE path = "vault" -> {}
      [] path = Backup -> {"vault"}
      [] path = "vault.tmp" -> {"vault", Backup}
      [] path = "meta" -> {"vault", Backup, "vault.tmp"}
Wiping(c, d) ==
    /\ c.step \in {"zero", "unlink"} =>
          /\ c.cmd = "destroy" /\ c.job = "vault" /\ c.path \in Names \ {"meta.tmp"}
          /\ \A n \in Before(c.path): d[n] = Absent
    /\ c.step = "reply" /\ c.cmd = "destroy" => \A n \in Names \ {"meta.tmp"}: d[n] = Absent

Going(c, handle, d, s) ==
    /\ TmpReady(c, handle, d) /\ BackupReady(c, d) /\ SaveExtends(c, d)
    /\ Noted(c, d) /\ EditHeld(c, d, s) /\ Wiping(c, d)

\* The session in memory is never behind what is stored.
SessionCovers(d, s) == d["vault"] \in Envelope /\ s # Locked => d["vault"].body \subseteq s

Steady ==
    /\ Typed /\ SessionCovers(disk, session)
    /\ \A t, u \in Threads: Waits(call[t]) \/ Waits(call[u]) \/ t = u
    /\ \A t \in Threads: Going(call[t], target[t], disk, session)

\* Without failures and crashes, no strike is recorded or about to be, and a
\* fingerprint that is recorded is that of the vault, unless it is being
\* replaced or destroyed.
Calm == faults = 0 /\ crashes = 0
FitsVault(m, d) == m \in Note => ~m.alarm /\ m.fingerprint \in {Absent, d["vault"]}
Replacing(c) == (Noting(c) /\ c.job = "seal") \/ c.step \in {"zero", "unlink"}
CalmInv ==
    Calm =>
      /\ disk["meta"] \in Note => ~disk["meta"].alarm
      /\ (\A t \in Threads: ~Replacing(call[t])) => FitsVault(disk["meta"], disk)
      /\ \A t \in Threads: LET c == call[t]
                           IN  /\ c.job # "tamper"
                               /\ Noting(c) /\ c.step # "note" => FitsVault(c.note, disk)

-----------------------------------------------------------------------------
(* One command at a time *)

\* Nothing holds or promises anything for a thread that waits.
LEMMA WaitingGoes ==
    ASSUME NEW c, Waits(c), NEW d, NEW s
    PROVE  Going(c, NoName, d, s)
BY DEF Waits, Going, TmpReady, BackupReady, SaveExtends, Saving, SaveSteps, Noted, Noting,
       EditHeld, Wiping

LEMMA IdleGoes == ASSUME NEW d, NEW s PROVE Going(Idle, NoName, d, s)
<1>1. Waits(Idle) BY DEF Waits, Idle
<1> QED BY <1>1, WaitingGoes

\* What a running command is known to be; the others wait.
LEMMA Runs ==
    ASSUME Steady, NEW t \in Threads, ~Waits(call[t])
    PROVE  /\ Going(call[t], target[t], disk, session) /\ SessionCovers(disk, session)
           /\ \A u \in Threads \ {t} : Waits(call[u]) /\ target[u] = NoName
<1>1. ASSUME NEW u \in Threads \ {t} PROVE Waits(call[u]) /\ target[u] = NoName
    BY <1>1 DEF Steady, Going, TmpReady, Waits
<1> QED BY <1>1 DEF Steady

\* A step of the one command that runs, or its start.
LEMMA OneGoes ==
    ASSUME Steady, Typed', NEW t \in Threads, \A u \in Threads \ {t} : Waits(call[u]),
           NEW c, Update(t, c), \A u \in Threads \ {t} : target'[u] = NoName,
           Going(c, target'[t], disk', session'), SessionCovers(disk', session')
    PROVE  Steady'
<1>1. call \in [Threads -> Call] BY DEF Steady, Typed, TypeOK
<1>2. call'[t] = c /\ \A u \in Threads \ {t} : call'[u] = call[u] BY <1>1
<1>3. ASSUME NEW u \in Threads \ {t}
      PROVE  Waits(call'[u]) /\ Going(call'[u], target'[u], disk', session')
    BY <1>2, WaitingGoes
<1> QED BY <1>2, <1>3 DEF Steady

\* Most steps are the running command's and leave the handles alone.
LEMMA OneStep ==
    ASSUME Steady, Typed', NEW t \in Threads, ~Waits(call[t]), NEW c, Update(t, c),
           UNCHANGED target, Going(c, target[t], disk', session'), SessionCovers(disk', session')
    PROVE  Steady'
BY Runs, OneGoes

LEMMA OneReturns ==
    ASSUME Steady, Typed', NEW t \in Threads, ~Waits(call[t]), Return(t),
           \A u \in Threads : target'[u] = target[u] \/ target'[u] = NoName,
           target'[t] = NoName, SessionCovers(disk', session')
    PROVE  Steady'
BY Runs, OneGoes, IdleGoes

\* The record of a thread whose command begins.
LEMMA OneBegins ==
    ASSUME Steady, ~Concurrent, Typed', NEW t \in Threads, NEW c, Begin(t, c),
           Going(c, NoName, disk', session'), SessionCovers(disk', session')
    PROVE  Steady'
<1>1. /\ Update(t, c) /\ UNCHANGED <<disk, target>> /\ \A u \in Threads : Waits(call[u])
    BY DEF Begin, Free, Waits
<1>2. \A u \in Threads : target[u] = NoName
    BY <1>1 DEF Steady, Going, TmpReady, Waits
<1> QED BY <1>1, <1>2, OneGoes

-----------------------------------------------------------------------------
(* Starting *)

LEMMA StartsSteady ==
    ASSUME Steady, ~Concurrent, NEW t \in Threads, CommandStarts(t)
    PROVE  Steady'
<1> DEFINE CheckGoing(c) == Going(c, NoName, disk', session')
<1>0. Typed' BY StartsTyped DEF Steady
<1>1. CASE VaultInit(t)
    <2> DEFINE c == [Idle EXCEPT !.cmd = "init", !.step = "create",
                                 !.env = [pass |-> passes + 1, body |-> {}]]
    <2>1. Begin(t, c) /\ disk["vault"] = Absent /\ UNCHANGED <<disk, session>>
        BY <1>1 DEF VaultInit, Begin
    <2>2. /\ c.cmd = "init" /\ c.step = "create" /\ c.path = "vault" /\ c.env.body = {}
        BY DEF Idle
    <2> HIDE DEF c
    <2>3. Going(c, NoName, disk, session)
        BY <2>1, <2>2 DEF Going, TmpReady, BackupReady, SaveExtends, Saving, Noted, Noting,
           EditHeld, Wiping
    <2> QED BY <1>0, <2>1, <2>3, OneBegins DEF Steady
<1>2. ASSUME NEW cmd \in {"unlock", "destroy"}, NEW k,
             Begin(t, [Idle EXCEPT !.cmd = cmd, !.step = "load", !.key = k]), UNCHANGED session
      PROVE  Steady'
    <2> DEFINE c == [Idle EXCEPT !.cmd = cmd, !.step = "load", !.key = k]
    <2>1. c.cmd = cmd /\ c.step = "load" BY DEF Idle
    <2> HIDE DEF c
    <2>2. Going(c, NoName, disk, session)
        BY <2>1 DEF Going, TmpReady, BackupReady, SaveExtends, Saving, SaveSteps, Noted, Noting,
           EditHeld, Wiping, Waits
    <2>3. Begin(t, c) /\ UNCHANGED <<disk, session>> BY <1>2 DEF Begin, c
    <2> QED BY <1>0, <2>2, <2>3, OneBegins DEF Steady
<1>3. CASE VaultUnlock(t) BY <1>2, <1>3 DEF VaultUnlock
<1>4. CASE VaultDestroy(t) BY <1>2, <1>4 DEF VaultDestroy
<1>5. CASE VaultRotate(t)
    <2>1. PICK k \in 1..passes :
            Begin(t, [Idle EXCEPT !.cmd = "rotate", !.step = "load", !.key = k,
                                  !.env = [pass |-> passes + 1, body |-> {}]])
        BY <1>5 DEF VaultRotate
    <2> DEFINE c == [Idle EXCEPT !.cmd = "rotate", !.step = "load", !.key = k,
                                 !.env = [pass |-> passes + 1, body |-> {}]]
    <2>2. c.cmd = "rotate" /\ c.step = "load" BY DEF Idle
    <2> HIDE DEF c
    <2>3. Going(c, NoName, disk, session)
        BY <2>2 DEF Going, TmpReady, BackupReady, SaveExtends, Saving, SaveSteps, Noted, Noting,
           EditHeld, Wiping, Waits
    <2>4. Begin(t, c) /\ UNCHANGED <<disk, session>> BY <1>5, <2>1 DEF Begin, VaultRotate, c
    <2> QED BY <1>0, <2>3, <2>4, OneBegins DEF Steady
<1>6. CASE VaultSetSecret(t)
    <2> DEFINE c == [Idle EXCEPT !.cmd = "set", !.step = "snapshot", !.key = edits + 1]
    <2>1. /\ Begin(t, c) /\ session # Locked /\ session' = session \cup {edits + 1}
          /\ UNCHANGED disk
        BY <1>6 DEF VaultSetSecret, Begin
    <2>2. c.cmd = "set" /\ c.step = "snapshot" /\ c.key = edits + 1 BY DEF Idle
    <2> HIDE DEF c
    <2>3. Going(c, NoName, disk, session')
        BY <2>1, <2>2 DEF Going, TmpReady, BackupReady, SaveExtends, Saving, SaveSteps, Noted,
           Noting, EditHeld, Wiping, Waits
    <2>4. SessionCovers(disk, session') BY <2>1 DEF Steady, SessionCovers
    <2> QED BY <1>0, <2>1, <2>3, <2>4, OneBegins
<1>7. CASE VaultClearAlerts(t)
    <2> DEFINE c == [Idle EXCEPT !.cmd = "clear", !.step = "note", !.job = "clear", !.path = "meta"]
    <2>1. Begin(t, c) /\ UNCHANGED <<disk, session>> BY <1>7 DEF VaultClearAlerts, Begin
    <2>2. c.cmd = "clear" /\ c.step = "note" /\ c.job = "clear" BY DEF Idle
    <2> HIDE DEF c
    <2>3. Going(c, NoName, disk, session)
        BY <2>2 DEF Going, TmpReady, BackupReady, SaveExtends, Saving, SaveSteps, Noted, Noting,
           EditHeld, Wiping, Waits
    <2> QED BY <1>0, <2>1, <2>3, OneBegins DEF Steady
<1> QED BY <1>1, <1>3, <1>4, <1>5, <1>6, <1>7 DEF CommandStarts

LEMMA LockSteady == ASSUME Steady, Lock PROVE Steady'
<1>1. /\ session' = Locked /\ UNCHANGED <<disk, target, call>> /\ Typed'
    BY LockTyped DEF Lock, Steady
<1>2. ASSUME NEW t \in Threads PROVE Going(call[t], target[t], disk, Locked)
    BY DEF Steady, Going, EditHeld
<1> QED BY <1>1, <1>2 DEF Steady, SessionCovers

LEMMA CrashSteady == ASSUME Steady, Crash PROVE Steady'
<1>1. /\ call' = [t \in Threads |-> Idle] /\ target' = [t \in Threads |-> NoName]
      /\ session' = Locked /\ UNCHANGED disk /\ Typed'
    BY CrashTyped DEF Crash, Steady
<1>2. Waits(Idle) BY DEF Waits, Idle
<1> QED BY <1>1, <1>2, IdleGoes DEF Steady, SessionCovers

-----------------------------------------------------------------------------
(* Loading and unsealing *)

LEMMA SnapshotSteady == ASSUME Steady, NEW t \in Threads, Snapshot(t) PROVE Steady'
<1>0. /\ Typed' /\ call[t].step = "snapshot" /\ ~Waits(call[t]) /\ UNCHANGED sharedVars
      /\ call[t] \in Call
    BY SnapshotTyped, RecordKnown DEF Steady, Snapshot, Waits
<1>1. /\ Going(call[t], target[t], disk, session) /\ SessionCovers(disk, session)
      /\ target[t] = NoName
    BY <1>0, Runs DEF Going, TmpReady
<1>2. CASE session = Locked BY <1>0, <1>1, <1>2, OneReturns DEF Snapshot, sharedVars
<1>3. CASE session # Locked
    <2> DEFINE c == [call[t] EXCEPT !.step = "load", !.env.body = session]
    <2>1. Update(t, c) BY <1>3 DEF Snapshot
    <2>2. /\ c.cmd = call[t].cmd /\ c.step = "load" /\ c.key = call[t].key
          /\ c.env.body = session
        BY <1>0 DEF Call, Draft
    <2> HIDE DEF c
    <2>3. Going(c, NoName, disk, session)
        BY <1>0, <1>1, <1>3, <2>2 DEF Going, TmpReady, BackupReady, SaveExtends, Saving,
           SaveSteps, Noted, Noting, EditHeld, Wiping, Waits, SessionCovers
    <2> QED BY <1>0, <1>1, <2>1, <2>3, OneStep DEF sharedVars
<1> QED BY <1>2, <1>3

LEMMA LoadSteady == ASSUME Steady, NEW t \in Threads, Load(t) PROVE Steady'
<1> DEFINE c == call[t]
           found == disk["vault"]
<1>0. /\ Typed' /\ c.step = "load" /\ ~Waits(c) /\ UNCHANGED sharedVars
      /\ c \in Call /\ Fits(c, target[t])
    BY LoadTyped, RecordKnown DEF Steady, Load, Waits
<1>1. /\ Going(c, target[t], disk, session) /\ SessionCovers(disk, session)
      /\ target[t] = NoName /\ c.path = "vault"
      /\ c.cmd \in {"unlock", "set", "rotate", "destroy"}
    BY <1>0, Runs DEF Going, TmpReady, Fits, Noted
<1>2. CASE Return(t) BY <1>0, <1>1, <1>2, OneReturns DEF sharedVars
<1>3. CASE found \in Envelope /\ c.cmd \in {"set", "rotate"}
           /\ Update(t, [c EXCEPT !.step = "create", !.env = Reseal(c, found)])
    <2> DEFINE d == [c EXCEPT !.step = "create", !.env = Reseal(c, found)]
    <2>1. d.cmd = c.cmd /\ d.step = "create" /\ d.path = "vault" /\ d.key = c.key
          /\ d.env = Reseal(c, found)
        BY <1>0, <1>1 DEF Call
    <2>2. /\ d.cmd = "set" => d.env.pass = found.pass /\ d.env.body = c.env.body
          /\ d.cmd = "rotate" => d.env.body = found.body
        BY <1>3, <2>1 DEF Reseal
    <2> HIDE DEF d
    <2>3. Going(d, NoName, disk, session)
        BY <1>0, <1>1, <1>3, <2>1, <2>2 DEF Going, TmpReady, BackupReady, SaveExtends, Saving,
           SaveSteps, Noted, Noting, EditHeld, Wiping, Waits
    <2> QED BY <1>0, <1>1, <1>3, <2>3, OneStep DEF sharedVars, d
<1>4. CASE found \in Envelope /\ c.cmd \notin {"set", "rotate"}
           /\ Update(t, [c EXCEPT !.step = "note", !.job = "unlock", !.path = "meta", !.env = found])
    <2> DEFINE d == [c EXCEPT !.step = "note", !.job = "unlock", !.path = "meta", !.env = found]
    <2>1. d.cmd = c.cmd /\ d.step = "note" /\ d.job = "unlock" /\ d.path = "meta" /\ d.env = found
        BY <1>0 DEF Call
    <2> HIDE DEF d
    <2>2. Going(d, NoName, disk, session)
        BY <1>1, <1>4, <2>1 DEF Going, TmpReady, BackupReady, SaveExtends, Saving,
           SaveSteps, Noted, Noting, Holds, EditHeld, Wiping
    <2> QED BY <1>0, <1>1, <1>4, <2>2, OneStep DEF sharedVars, d
<1>5. CASE found \in Envelope /\ c.cmd \notin {"set", "rotate"}
           /\ Update(t, [c EXCEPT !.step = "judge", !.env = found])
    <2> DEFINE d == [c EXCEPT !.step = "judge", !.env = found]
    <2>1. d.cmd = c.cmd /\ d.step = "judge" /\ d.env = found /\ d.path = "vault"
        BY <1>0, <1>1 DEF Call
    <2> HIDE DEF d
    <2>2. Going(d, NoName, disk, session)
        BY <1>1, <1>5, <2>1 DEF Going, TmpReady, BackupReady, SaveExtends, Saving,
           SaveSteps, Noted, Noting, Holds, EditHeld, Wiping
    <2> QED BY <1>0, <1>1, <1>5, <2>2, OneStep DEF sharedVars, d
<1> QED BY <1>2, <1>3, <1>4, <1>5 DEF Load, Sealed

LEMMA JudgeSteady == ASSUME Steady, NEW t \in Threads, Judge(t) PROVE Steady'
<1> DEFINE c == call[t]
           d == [c EXCEPT !.step = "note", !.job = "tamper", !.path = "meta"]
<1>0. /\ Typed' /\ c.step = "judge" /\ ~Waits(c) /\ UNCHANGED sharedVars /\ c \in Call
    BY JudgeTyped, RecordKnown DEF Steady, Judge, Waits
<1>1. /\ Going(c, target[t], disk, session) /\ SessionCovers(disk, session)
      /\ target[t] = NoName
    BY <1>0, Runs DEF Going, TmpReady
<1>2. CASE Return(t) BY <1>0, <1>1, <1>2, OneReturns DEF sharedVars
<1>3. CASE Update(t, d)
    <2>1. d.cmd = c.cmd /\ d.step = "note" /\ d.job = "tamper" /\ d.path = "meta"
          /\ d.env = c.env /\ d.key = c.key
        BY <1>0 DEF Call
    <2> HIDE DEF d
    <2>2. Going(d, NoName, disk, session)
        BY <1>0, <1>1, <2>1 DEF Going, TmpReady, BackupReady, SaveExtends, Saving,
           SaveSteps, Noted, Noting, Holds, EditHeld, Wiping, Waits
    <2> QED BY <1>0, <1>1, <1>3, <2>2, OneStep DEF sharedVars
<1> QED BY <1>2, <1>3 DEF Judge

-----------------------------------------------------------------------------
(* Writing *)

LEMMA CreateSteady == ASSUME Steady, NEW t \in Threads, Create(t) PROVE Steady'
<1> DEFINE c == call[t]
           d == [c EXCEPT !.step = "write"]
<1>0. /\ Typed' /\ c.step = "create" /\ ~Waits(c) /\ UNCHANGED stillVars /\ c \in Call
      /\ Fits(c, target[t]) /\ disk \in [Names -> Envelope \cup Note \cup Marks]
      /\ target \in [Threads -> Names \cup {NoName}]
    BY CreateTyped, RecordKnown DEF Steady, Create, Waits, Typed, TypeOK
<1>1. /\ Going(c, target[t], disk, session) /\ SessionCovers(disk, session)
      /\ c.path \in Files /\ \A u \in Threads \ {t} : Waits(call[u]) /\ target[u] = NoName
    BY <1>0, Runs DEF Fits, SaveSteps
<1>2. /\ disk' = [disk EXCEPT ![TmpPath[c.path]] = Empty] /\ Update(t, d)
      /\ target' = [target EXCEPT ![t] = TmpPath[c.path]] /\ session' = session
    BY <1>0 DEF Create, CreateTmp, stillVars
<1>3. /\ d.cmd = c.cmd /\ d.step = "write" /\ d.job = c.job /\ d.path = c.path
      /\ d.env = c.env /\ d.key = c.key /\ d.note = c.note
    BY <1>0 DEF Call
<1>4. /\ disk'["vault"] = disk["vault"] /\ disk'[TmpPath[c.path]] = Empty
      /\ target'[t] = TmpPath[c.path] /\ \A u \in Threads \ {t} : target'[u] = NoName
    BY <1>0, <1>1, <1>2
<1> HIDE DEF d
<1>5. Going(d, target'[t], disk', session)
    BY <1>0, <1>1, <1>3, <1>4 DEF Going, TmpReady, BackupReady, SaveExtends, Saving, SaveSteps,
       Noted, Noting, Holds, EditHeld, Wiping, Waits
<1>6. SessionCovers(disk', session) BY <1>1, <1>4 DEF SessionCovers
<1> QED BY <1>0, <1>1, <1>2, <1>4, <1>5, <1>6, OneGoes

LEMMA WriteSteady == ASSUME Steady, NEW t \in Threads, Write(t) PROVE Steady'
<1> DEFINE c == call[t]
           d == [c EXCEPT !.step = IF c.path = "vault" THEN "backup" ELSE "rename"]
           bytes == IF c.path = "vault" THEN c.env ELSE c.note
<1>0. /\ Typed' /\ c.step = "write" /\ ~Waits(c) /\ UNCHANGED stillVars /\ c \in Call
      /\ Fits(c, target[t]) /\ disk \in [Names -> Envelope \cup Note \cup Marks]
      /\ target \in [Threads -> Names \cup {NoName}]
    BY WriteTyped, RecordKnown DEF Steady, Write, Waits, Typed, TypeOK
<1>1. /\ Going(c, target[t], disk, session) /\ SessionCovers(disk, session)
      /\ c.path \in Files /\ \A u \in Threads \ {t} : Waits(call[u]) /\ target[u] = NoName
    BY <1>0, Runs DEF Fits, SaveSteps
<1>2. target[t] = TmpPath[c.path] /\ disk[TmpPath[c.path]] = Empty
    BY <1>0, <1>1 DEF Going, TmpReady
<1>3. /\ disk' = [disk EXCEPT ![TmpPath[c.path]] = bytes] /\ Update(t, d)
      /\ target' = [target EXCEPT ![t] = NoName] /\ session' = session
    <2>1. /\ WriteTmp(t, c.path, bytes) /\ Update(t, d) /\ session' = session
        BY <1>0 DEF Write, stillVars
    <2>2. target[t] # NoName BY <1>1, <1>2, VaultAssumption
    <2> QED BY <1>2, <2>1, <2>2 DEF WriteTmp, Overwrite
<1>4. /\ d.cmd = c.cmd /\ d.step = (IF c.path = "vault" THEN "backup" ELSE "rename")
      /\ d.job = c.job /\ d.path = c.path /\ d.env = c.env /\ d.key = c.key /\ d.note = c.note
    BY <1>0 DEF Call
<1>5. /\ disk'["vault"] = disk["vault"] /\ disk'[TmpPath[c.path]] = bytes
      /\ target'[t] = NoName /\ \A u \in Threads \ {t} : target'[u] = NoName
    BY <1>0, <1>1, <1>3
<1> HIDE DEF d
<1>6. Going(d, NoName, disk', session)
    BY <1>0, <1>1, <1>4, <1>5 DEF Going, TmpReady, BackupReady, SaveExtends, Saving, SaveSteps,
       Noted, Noting, Holds, EditHeld, Wiping, Waits
<1>7. SessionCovers(disk', session) BY <1>1, <1>5 DEF SessionCovers
<1> QED BY <1>0, <1>1, <1>3, <1>5, <1>6, <1>7, OneGoes

LEMMA StartBackupSteady == ASSUME Steady, NEW t \in Threads, StartBackup(t) PROVE Steady'
<1> DEFINE c == call[t]
<1>0. /\ Typed' /\ c.step = "backup" /\ ~Waits(c) /\ UNCHANGED stillVars /\ c \in Call
      /\ c.path = "vault" /\ disk \in [Names -> Envelope \cup Note \cup Marks]
    BY StartBackupTyped, RecordKnown DEF Steady, StartBackup, Waits, Fits, Typed, TypeOK
<1>1. /\ Going(c, target[t], disk, session) /\ SessionCovers(disk, session)
      /\ target[t] = NoName /\ session' = session
    BY <1>0, Runs DEF Going, TmpReady, stillVars
<1>2. CASE disk["vault"] = Absent
    <2> DEFINE d == [c EXCEPT !.step = "rename"]
    <2>1. Update(t, d) /\ UNCHANGED <<disk, target>> BY <1>2 DEF StartBackup
    <2>2. /\ d.cmd = c.cmd /\ d.step = "rename" /\ d.job = c.job /\ d.path = c.path
          /\ d.env = c.env /\ d.key = c.key
        BY <1>0 DEF Call
    <2> HIDE DEF d
    <2>3. Going(d, NoName, disk, session)
        BY <1>0, <1>1, <1>2, <2>2 DEF Going, TmpReady, BackupReady, SaveExtends, Saving,
           SaveSteps, Noted, Noting, EditHeld, Wiping, Waits
    <2> QED BY <1>0, <1>1, <2>1, <2>3, OneStep
<1>3. CASE disk["vault"] # Absent
    <2> DEFINE d == [c EXCEPT !.step = "copy", !.old = disk["vault"]]
    <2>1. /\ Update(t, d) /\ UNCHANGED target /\ disk' = [disk EXCEPT ![Backup] = Empty]
        BY <1>3 DEF StartBackup, OpenBackup
    <2>2. /\ d.cmd = c.cmd /\ d.step = "copy" /\ d.job = c.job /\ d.path = c.path
          /\ d.env = c.env /\ d.key = c.key /\ d.old = disk["vault"]
        BY <1>0 DEF Call
    <2> HIDE DEF d
    <2>3. disk'["vault"] = disk["vault"] /\ disk'["vault.tmp"] = disk["vault.tmp"]
        BY <1>0, <2>1
    <2>4. Going(d, NoName, disk', session)
        BY <1>0, <1>1, <2>2, <2>3 DEF Going, TmpReady, BackupReady, SaveExtends, Saving,
           SaveSteps, Noted, Noting, EditHeld, Wiping, Waits
    <2>5. SessionCovers(disk', session) BY <1>1, <2>3 DEF SessionCovers
    <2> QED BY <1>0, <1>1, <2>1, <2>4, <2>5, OneStep
<1> QED BY <1>2, <1>3

LEMMA CopyBackupSteady == ASSUME Steady, NEW t \in Threads, CopyBackup(t) PROVE Steady'
<1> DEFINE c == call[t]
           d == [c EXCEPT !.step = "rename"]
<1>0. /\ Typed' /\ c.step = "copy" /\ ~Waits(c) /\ UNCHANGED stillVars /\ c \in Call
      /\ c.path = "vault" /\ disk \in [Names -> Envelope \cup Note \cup Marks]
    BY CopyBackupTyped, RecordKnown DEF Steady, CopyBackup, Waits, Fits, Typed, TypeOK
<1>1. /\ Going(c, target[t], disk, session) /\ SessionCovers(disk, session)
      /\ target[t] = NoName /\ session' = session /\ c.old = disk["vault"]
    BY <1>0, Runs DEF Going, TmpReady, BackupReady, stillVars
<1>2. Update(t, d) /\ UNCHANGED target /\ disk' = [disk EXCEPT ![Backup] = disk["vault"]]
    BY <1>1 DEF CopyBackup, FillBackup
<1>3. /\ d.cmd = c.cmd /\ d.step = "rename" /\ d.job = c.job /\ d.path = c.path
      /\ d.env = c.env /\ d.key = c.key
    BY <1>0 DEF Call
<1> HIDE DEF d
<1>4. /\ disk'["vault"] = disk["vault"] /\ disk'["vault.tmp"] = disk["vault.tmp"]
      /\ disk'[Backup] = disk["vault"]
    BY <1>0, <1>2
<1>5. Going(d, NoName, disk', session)
    BY <1>0, <1>1, <1>3, <1>4 DEF Going, TmpReady, BackupReady, SaveExtends, Saving, SaveSteps,
       Noted, Noting, EditHeld, Wiping, Waits
<1>6. SessionCovers(disk', session) BY <1>1, <1>4 DEF SessionCovers
<1> QED BY <1>0, <1>1, <1>2, <1>5, <1>6, OneStep

\* What follows a write of the metadata rests on the vault alone.
LEMMA AfterNoteGoes ==
    ASSUME NEW c \in Call, NEW h, NEW d, NEW e, NEW s, Going(c, h, d, s), Noting(c),
           e["vault"] = d["vault"]
    PROVE  Going(AfterNote(c), NoName, e, s)
<1>1. CASE AfterNote(c) = Idle BY <1>1, IdleGoes
<1>2. CASE c.job = "seal" /\ c.cmd = "rotate"
    <2> DEFINE f == [c EXCEPT !.step = "note", !.job = "count"]
    <2>1. f = AfterNote(c) BY <1>2 DEF AfterNote
    <2>2. f.step = "note" /\ f.job = "count" /\ f.cmd = "rotate" /\ f.env = c.env
        BY <1>2 DEF Call
    <2> HIDE DEF f
    <2>3. Going(f, NoName, e, s)
        BY <1>2, <2>2 DEF Going, TmpReady, BackupReady, SaveExtends, Saving, SaveSteps, Noted,
           Holds, Noting, EditHeld, Wiping
    <2> QED BY <2>1, <2>3
<1>3. CASE c.job = "unlock" /\ c.cmd = "destroy"
    <2> DEFINE f == [c EXCEPT !.step = "zero", !.job = "vault", !.path = "vault"]
    <2>1. f = AfterNote(c) BY <1>3 DEF AfterNote
    <2>2. f.step = "zero" /\ f.job = "vault" /\ f.path = "vault" /\ f.cmd = "destroy"
        BY <1>3 DEF Call
    <2> HIDE DEF f
    <2>3. Going(f, NoName, e, s)
        BY <2>2 DEF Going, TmpReady, BackupReady, SaveExtends, Saving, SaveSteps, Noted,
           Noting, EditHeld, Wiping, Before
    <2> QED BY <2>1, <2>3
<1>4. CASE /\ c.job # "tamper" /\ ~(c.job = "unlock" /\ c.cmd = "destroy")
           /\ ~(c.job = "seal" /\ c.cmd = "rotate")
    <2> DEFINE f == [c EXCEPT !.step = "reply"]
    <2>1. f = AfterNote(c) BY <1>4 DEF AfterNote
    <2>2. f.step = "reply" /\ f.cmd = c.cmd /\ f.env = c.env /\ f.key = c.key BY DEF Call
    <2>3. c.step # "idle" /\ c.step # "snapshot" BY DEF Noting, SaveSteps
    <2> HIDE DEF f
    <2>4. Going(f, NoName, e, s)
        BY <1>4, <2>2, <2>3 DEF Going, TmpReady, BackupReady, SaveExtends, Saving, SaveSteps,
           Noted, Holds, Noting, EditHeld, Wiping, Waits
    <2> QED BY <2>1, <2>4
<1> QED BY <1>1, <1>2, <1>3, <1>4 DEF AfterNote

\* A failing call ends the command, or is passed over.
LEMMA GiveUpSteady ==
    ASSUME Steady, Typed', NEW t \in Threads, call[t].step \in Steps \ {"idle", "snapshot", "note", "reply"},
           GiveUp(t), \A u \in Threads : target'[u] \in {target[u], NoName}, target'[t] = NoName,
           UNCHANGED <<disk, session>>
    PROVE  Steady'
<1> DEFINE c == call[t]
<1>1. /\ ~Waits(c) /\ c \in Call /\ Fits(c, target[t]) BY RecordKnown DEF Steady, Waits
<1>2. /\ Going(c, target[t], disk, session) /\ SessionCovers(disk, session)
      /\ \A u \in Threads \ {t} : Waits(call[u]) /\ target'[u] = NoName
    BY <1>1, Runs
<1>3. CASE BestEffort(c)
    <2>1. c.path = "meta" /\ c.job \in {"unlock", "tamper"} BY <1>3 DEF BestEffort
    <2>2. c.step \notin {"zero", "unlink"} BY <1>2, <2>1 DEF Going, Wiping
    <2>3. c.step \notin {"load", "judge"} BY <1>1, <1>2, <2>1 DEF Fits, Going, Noted
    <2>4. Noting(c) BY <2>1, <2>2, <2>3 DEF Noting, SaveSteps, Steps
    <2>5. Going(AfterNote(c), NoName, disk, session) BY <1>1, <1>2, <2>4, AfterNoteGoes
    <2>6. Update(t, AfterNote(c)) BY <1>3 DEF GiveUp
    <2> QED BY <1>2, <2>5, <2>6, OneGoes
<1>4. CASE ~BestEffort(c)
    <2>1. Return(t) BY <1>4 DEF GiveUp
    <2> QED BY <1>2, <2>1, IdleGoes, OneGoes
<1> QED BY <1>3, <1>4

\* The rename finds the temporary file as the command left it.
LEMMA RenameKnown ==
    ASSUME Steady, NEW t \in Threads, call[t].step = "rename"
    PROVE  LET c == call[t]
               bytes == IF c.path = "vault" THEN c.env ELSE c.note
           IN  /\ c.path \in Files /\ CanRename(c.path) /\ disk[TmpPath[c.path]] = bytes
               /\ c.path = "vault" => c.env \in Envelope
               /\ \A u \in Threads : target[u] = NoName
<1> DEFINE c == call[t]
           bytes == IF c.path = "vault" THEN c.env ELSE c.note
<1>1. c \in Call /\ Fits(c, target[t]) /\ ~Waits(c) BY RecordKnown DEF Steady, Waits
<1>2. c.path \in Files /\ (c.path = "vault" => c.env \in Envelope)
    BY <1>1 DEF Fits, SaveSteps
<1>3. disk[TmpPath[c.path]] = bytes /\ \A u \in Threads : target[u] = NoName
    BY <1>1, Runs DEF Going, TmpReady
<1>4. bytes \in Envelope \cup Note BY <1>1, <1>2 DEF Call
<1> QED BY <1>2, <1>3, <1>4, VaultAssumption DEF CanRename

LEMMA RenameSteady == ASSUME Steady, NEW t \in Threads, RenameTmp(t) PROVE Steady'
<1> DEFINE c == call[t]
<1>0. /\ Typed' /\ c.step = "rename" /\ ~Waits(c) /\ UNCHANGED stillVars /\ c \in Call
      /\ disk \in [Names -> Envelope \cup Note \cup Marks]
      /\ target \in [Threads -> Names \cup {NoName}] /\ NoName \notin Names
    BY RenameTyped, RecordKnown, VaultAssumption DEF Steady, RenameTmp, Waits, Typed, TypeOK
<1>1. /\ Going(c, NoName, disk, session) /\ SessionCovers(disk, session)
      /\ session' = session /\ \A u \in Threads : target[u] = NoName
      /\ \A u \in Threads \ {t} : Waits(call[u])
    BY <1>0, Runs, RenameKnown DEF stillVars
<1>2. /\ c.path \in Files /\ Rename(c.path)
      /\ Update(t, IF c.path = "vault"
                   THEN [c EXCEPT !.step = "note", !.job = "seal", !.path = "meta"]
                   ELSE AfterNote(c))
    BY <1>0, RenameKnown DEF RenameTmp
<1>3. \A u \in Threads : target'[u] = NoName BY <1>0, <1>1, <1>2 DEF Rename
<1>4. CASE c.path = "vault"
    <2> DEFINE d == [c EXCEPT !.step = "note", !.job = "seal", !.path = "meta"]
    <2>1. disk'["vault"] = c.env /\ c.env \in Envelope
        BY <1>0, <1>2, <1>4, RenameKnown DEF Rename
    <2>2. d.cmd = c.cmd /\ d.step = "note" /\ d.job = "seal" /\ d.env = c.env /\ d.key = c.key
        BY <1>0 DEF Call
    <2> HIDE DEF d
    <2>3. Saving(c) BY <1>0, <1>4 DEF Saving, SaveSteps
    <2>4. c.cmd \in {"init", "set", "rotate"} BY <1>1, <2>3 DEF Going, SaveExtends
    <2>5. Going(d, NoName, disk', session)
        BY <1>0, <1>1, <2>1, <2>2, <2>4 DEF Going, TmpReady, BackupReady, SaveExtends, Saving,
           SaveSteps, Noted, Noting, Holds, EditHeld, Wiping, Waits
    <2>6. SessionCovers(disk', session)
        BY <1>1, <2>1, <2>3 DEF Going, SaveExtends, EditHeld, SessionCovers
    <2> QED BY <1>0, <1>1, <1>2, <1>3, <1>4, <2>5, <2>6, OneGoes DEF d
<1>5. CASE c.path = "meta"
    <2>1. disk'["vault"] = disk["vault"] /\ Noting(c)
        BY <1>0, <1>2, <1>5 DEF Rename, Noting, SaveSteps
    <2>2. Going(AfterNote(c), NoName, disk', session) BY <1>0, <1>1, <2>1, AfterNoteGoes
    <2>3. SessionCovers(disk', session) BY <1>1, <2>1 DEF SessionCovers
    <2> QED BY <1>0, <1>1, <1>2, <1>3, <1>5, <2>2, <2>3, OneGoes
<1> QED BY <1>2, <1>4, <1>5

LEMMA ReadNoteSteady == ASSUME Steady, NEW t \in Threads, ReadNote(t) PROVE Steady'
<1> DEFINE c == call[t]
<1>0. /\ Typed' /\ c.step = "note" /\ ~Waits(c) /\ UNCHANGED <<disk, target, session>>
      /\ c \in Call /\ c.path = "meta"
    BY ReadNoteTyped, RecordKnown DEF Steady, ReadNote, Waits, Fits
<1>1. /\ Going(c, target[t], disk, session) /\ SessionCovers(disk, session)
      /\ target[t] = NoName
    BY <1>0, Runs DEF Going, TmpReady
<1>2. PICK m : Update(t, [c EXCEPT !.step = "create", !.note = m]) BY DEF ReadNote
<1> DEFINE d == [c EXCEPT !.step = "create", !.note = m]
<1>3. /\ d.cmd = c.cmd /\ d.step = "create" /\ d.job = c.job /\ d.path = "meta"
      /\ d.env = c.env /\ d.key = c.key
    BY <1>0 DEF Call
<1> HIDE DEF d
<1>4. Going(d, NoName, disk, session)
    BY <1>0, <1>1, <1>3 DEF Going, TmpReady, BackupReady, SaveExtends, Saving, SaveSteps,
       Noted, Noting, Holds, EditHeld, Wiping, Waits
<1> QED BY <1>0, <1>1, <1>2, <1>4, OneStep DEF d

-----------------------------------------------------------------------------
(* Destroying, answering, failing *)

\* Once a file is gone, the next is taken, or the command answers.
LEMMA NextWipeGoes ==
    ASSUME NEW c \in Call, NEW h, NEW d, NEW e, NEW s, Going(c, h, d, s),
           c.step \in {"zero", "unlink"}, e[c.path] = Absent,
           \A n \in Names \ {c.path} : e[n] = d[n]
    PROVE  Going(NextWipe(c), NoName, e, s)
<1>1. /\ c.cmd = "destroy" /\ c.job = "vault" /\ c.path \in Names \ {"meta.tmp"}
      /\ \A n \in Before(c.path) : d[n] = Absent
    BY DEF Going, Wiping
<1>2. \A n \in Before(c.path) \cup {c.path} : e[n] = Absent BY <1>1 DEF Before
<1>3. ASSUME NEW next \in Names \ {"meta.tmp"}, Before(next) \subseteq Before(c.path) \cup {c.path},
             NextWipe(c) = [c EXCEPT !.step = "zero", !.path = next]
      PROVE  Going(NextWipe(c), NoName, e, s)
    <2> DEFINE f == [c EXCEPT !.step = "zero", !.path = next]
    <2>1. f.step = "zero" /\ f.cmd = "destroy" /\ f.job = "vault" /\ f.path = next
        BY <1>1 DEF Call
    <2>2. \A n \in Before(next) : e[n] = Absent BY <1>2, <1>3
    <2> HIDE DEF f
    <2>3. Going(f, NoName, e, s)
        BY <2>1, <2>2 DEF Going, TmpReady, BackupReady, SaveExtends, Saving, SaveSteps, Noted,
           Noting, EditHeld, Wiping
    <2> QED BY <1>3, <2>3 DEF f
<1>4. CASE c.path = "meta"
    <2> DEFINE f == [c EXCEPT !.step = "reply"]
    <2>1. f = NextWipe(c) BY <1>4 DEF NextWipe
    <2>2. f.step = "reply" /\ f.cmd = "destroy" BY <1>1 DEF Call
    <2>3. \A n \in Names \ {"meta.tmp"} : e[n] = Absent BY <1>2, <1>4 DEF Before
    <2> HIDE DEF f
    <2>4. Going(f, NoName, e, s)
        BY <2>2, <2>3 DEF Going, TmpReady, BackupReady, SaveExtends, Saving, SaveSteps, Noted,
           Noting, EditHeld, Wiping
    <2> QED BY <2>1, <2>4
<1>5. CASE c.path = "vault"
    <2>1. NextWipe(c) = [c EXCEPT !.step = "zero", !.path = Backup] BY <1>5 DEF NextWipe
    <2> QED BY <1>3, <1>5, <2>1 DEF Before
<1>6. CASE c.path = Backup
    <2>1. NextWipe(c) = [c EXCEPT !.step = "zero", !.path = "vault.tmp"] BY <1>6 DEF NextWipe
    <2> QED BY <1>3, <1>6, <2>1 DEF Before
<1>7. CASE c.path = "vault.tmp"
    <2>1. NextWipe(c) = [c EXCEPT !.step = "zero", !.path = "meta"] BY <1>7 DEF NextWipe
    <2> QED BY <1>3, <1>7, <2>1 DEF Before
<1> QED BY <1>1, <1>4, <1>5, <1>6, <1>7

LEMMA WipeZeroSteady == ASSUME Steady, NEW t \in Threads, WipeZero(t) PROVE Steady'
<1> DEFINE c == call[t]
<1>0. /\ Typed' /\ c.step = "zero" /\ ~Waits(c) /\ session' = session /\ c \in Call
      /\ disk \in [Names -> Envelope \cup Note \cup Marks] /\ Torn \notin Envelope
    BY WipeZeroTyped, RecordKnown, VaultAssumption DEF Steady, WipeZero, Waits, Typed, TypeOK
<1>1. /\ Going(c, target[t], disk, session) /\ SessionCovers(disk, session)
      /\ target[t] = NoName
    BY <1>0, Runs DEF Going, TmpReady
<1>2. CASE disk[c.path] = Absent
    <2>1. Update(t, NextWipe(c)) /\ UNCHANGED <<disk, target>> BY <1>2 DEF WipeZero
    <2>2. Going(NextWipe(c), NoName, disk, session)
        BY <1>0, <1>1, <1>2, NextWipeGoes
    <2> QED BY <1>0, <1>1, <2>1, <2>2, OneStep
<1>3. CASE disk[c.path] # Absent
    <2> DEFINE d == [c EXCEPT !.step = "unlink"]
    <2>1. Update(t, d) /\ Zero(c.path) BY <1>3 DEF WipeZero
    <2>2. PICK b \in {disk[c.path], Torn} : disk' = [disk EXCEPT ![c.path] = b]
        BY <2>1 DEF Zero
    <2>3. d.step = "unlink" /\ d.cmd = c.cmd /\ d.job = c.job /\ d.path = c.path BY <1>0 DEF Call
    <2> HIDE DEF d
    <2>4. /\ c.cmd = "destroy" /\ c.job = "vault" /\ c.path \in Names \ {"meta.tmp"}
          /\ \A n \in Before(c.path) : disk[n] = Absent
        BY <1>0, <1>1 DEF Going, Wiping
    <2>5. \A n \in Before(c.path) : disk'[n] = Absent BY <1>0, <2>2, <2>4 DEF Before
    <2>6. Going(d, NoName, disk', session)
        BY <2>3, <2>4, <2>5 DEF Going, TmpReady, BackupReady, SaveExtends, Saving,
           SaveSteps, Noted, Noting, EditHeld, Wiping
    <2>7. SessionCovers(disk', session) BY <1>0, <1>1, <2>2, <2>4 DEF SessionCovers
    <2>8. UNCHANGED target BY <2>1 DEF Zero
    <2> QED BY <1>0, <1>1, <2>1, <2>6, <2>7, <2>8, OneStep
<1> QED BY <1>2, <1>3

LEMMA WipeUnlinkSteady == ASSUME Steady, NEW t \in Threads, WipeUnlink(t) PROVE Steady'
<1> DEFINE c == call[t]
<1>0. /\ Typed' /\ c.step = "unlink" /\ ~Waits(c) /\ session' = session /\ c \in Call
      /\ disk \in [Names -> Envelope \cup Note \cup Marks] /\ Absent \notin Envelope
      /\ target \in [Threads -> Names \cup {NoName}] /\ c.path \in Names
      /\ Unlink(c.path) /\ Update(t, NextWipe(c))
    BY WipeUnlinkTyped, RecordKnown, VaultAssumption DEF Steady, WipeUnlink, Waits, Typed, TypeOK
<1>1. /\ Going(c, target[t], disk, session) /\ SessionCovers(disk, session)
      /\ target[t] = NoName /\ \A u \in Threads \ {t} : Waits(call[u]) /\ target[u] = NoName
    BY <1>0, Runs DEF Going, TmpReady
<1>2. /\ disk'[c.path] = Absent /\ \A n \in Names \ {c.path} : disk'[n] = disk[n]
      /\ \A u \in Threads : target'[u] = NoName
    BY <1>0, <1>1 DEF Unlink
<1>3. Going(NextWipe(c), NoName, disk', session) BY <1>0, <1>1, <1>2, NextWipeGoes
<1>4. SessionCovers(disk', session)
    <2>1. disk'["vault"] = disk["vault"] \/ disk'["vault"] = Absent BY <1>2
    <2> QED BY <1>0, <1>1, <2>1 DEF SessionCovers
<1> QED BY <1>0, <1>1, <1>2, <1>3, <1>4, OneGoes

LEMMA ReplySteady == ASSUME Steady, NEW t \in Threads, Reply(t) PROVE Steady'
<1> DEFINE c == call[t]
<1>0. /\ Typed' /\ c.step = "reply" /\ ~Waits(c) /\ UNCHANGED <<disk, target>> /\ Return(t)
    BY ReplyTyped DEF Steady, Reply, Waits
<1>1. /\ Going(c, target[t], disk, session) /\ SessionCovers(disk, session)
      /\ target[t] = NoName
    BY <1>0, Runs DEF Going, TmpReady
<1>2. session' = CASE c.cmd \in {"init", "unlock", "rotate"} -> c.env.body
                   [] c.cmd = "destroy" -> Locked
                   [] OTHER -> session
    BY DEF Reply
<1>3. SessionCovers(disk, session')
    BY <1>0, <1>1, <1>2 DEF SessionCovers, Going, Noted, Holds
<1> QED BY <1>0, <1>1, <1>3, OneReturns

LEMMA FailSteady == ASSUME Steady, NEW t \in Threads, Fail(t) PROVE Steady'
<1>1. /\ Typed' /\ GiveUp(t) /\ target' = [target EXCEPT ![t] = NoName]
      /\ UNCHANGED <<disk, session>> /\ target \in [Threads -> Names \cup {NoName}]
      /\ call[t].step \in Steps \ {"idle", "snapshot", "note", "reply"}
    BY FailTyped DEF Steady, Fail, Typed, TypeOK
<1>2. target'[t] = NoName /\ \A u \in Threads : target'[u] \in {target[u], NoName} BY <1>1
<1> QED BY <1>1, <1>2, GiveUpSteady

LEMMA InitSteady == Init => Steady
<1> SUFFICES ASSUME Init PROVE Steady OBVIOUS
<1>1. Typed BY InitTyped
<1>2. Waits(Idle) BY DEF Waits, Idle
<1>3. Absent \notin Envelope BY VaultAssumption
<1> QED BY <1>1, <1>2, <1>3, IdleGoes DEF Init, Steady, SessionCovers

LEMMA StepsSteady == ASSUME Steady, NEW t \in Threads, CommandSteps(t) PROVE Steady'
BY SnapshotSteady, LoadSteady, JudgeSteady, CreateSteady, WriteSteady, StartBackupSteady,
   CopyBackupSteady, RenameSteady, ReadNoteSteady, WipeZeroSteady, WipeUnlinkSteady,
   ReplySteady, FailSteady DEF CommandSteps

LEMMA NextSteady == ASSUME ~Concurrent, Steady, [Next]_vars PROVE Steady'
<1>1. CASE UNCHANGED vars
    <2>1. Typed' BY <1>1, NextTyped DEF Steady
    <2> QED BY <1>1, <2>1 DEF vars, Steady
<1> QED BY <1>1, StartsSteady, StepsSteady, LockSteady, CrashSteady DEF Next

-----------------------------------------------------------------------------
(* The promise *)

Stored(d) == IF Sealed(d["vault"]) THEN d["vault"] ELSE Absent

\* What a step of a command does to vault.bin and to what is acknowledged.
LEMMA StepsKnown ==
    ASSUME Steady, NEW t \in Threads, CommandSteps(t)
    PROVE  \/ disk'["vault"] = disk["vault"] /\ acked' = acked
           \/ /\ call[t].step = "rename" /\ call[t].path = "vault" /\ RenameTmp(t)
              /\ disk'["vault"] = call[t].env /\ acked' = acked
           \/ /\ disk'["vault"] = disk["vault"] \/ disk'["vault"] \notin Envelope
              /\ acked' = IF Sealed(disk'["vault"]) THEN acked ELSE {}
           \/ Reply(t)
<1> DEFINE c == call[t]
<1>0. disk \in [Names -> Envelope \cup Note \cup Marks] BY DEF Steady, Typed, TypeOK
<1>1. CASE Snapshot(t) \/ Load(t) \/ Judge(t)
    BY <1>1 DEF Snapshot, Load, Judge, sharedVars
<1>2. CASE Create(t)
    <2>1. c.path \in Files BY <1>2, RecordKnown DEF Create, Fits, SaveSteps, Steady
    <2> QED BY <1>0, <1>2, <2>1 DEF Create, CreateTmp, stillVars
<1>3. CASE Write(t)
    <2>1. c.path \in Files BY <1>3, RecordKnown DEF Write, Fits, SaveSteps, Steady
    <2>2. ~Waits(c) /\ c.step = "write" BY <1>3 DEF Write, Waits
    <2>3. target[t] = TmpPath[c.path] BY <2>2, Runs DEF Going, TmpReady
    <2> QED BY <1>0, <1>3, <2>1, <2>3 DEF Write, WriteTmp, stillVars
<1>4. CASE StartBackup(t) \/ CopyBackup(t)
    BY <1>0, <1>4 DEF StartBackup, CopyBackup, OpenBackup, FillBackup, stillVars
<1>5. CASE RenameTmp(t)
    <2>1. c.step = "rename" /\ acked' = acked BY <1>5 DEF RenameTmp, stillVars
    <2>2. c.path \in Files /\ Rename(c.path) BY <1>5, <2>1, RenameKnown DEF RenameTmp
    <2>3. CASE c.path = "vault"
        BY <1>0, <1>5, <2>1, <2>2, <2>3, RenameKnown DEF Rename
    <2>4. CASE c.path = "meta" BY <1>0, <2>1, <2>2, <2>4 DEF Rename
    <2> QED BY <2>2, <2>3, <2>4
<1>6. CASE ReadNote(t) \/ Fail(t) BY <1>6 DEF ReadNote, Fail
<1>7. CASE WipeZero(t)
    <2>1. acked' = IF Sealed(disk'["vault"]) THEN acked ELSE {} BY <1>7 DEF WipeZero
    <2>2. Torn \notin Envelope BY VaultAssumption
    <2>3. c.path \in Names BY RecordKnown DEF Steady
    <2>4. CASE disk' = disk BY <2>1, <2>4
    <2>5. CASE Zero(c.path)
        <3>1. PICK b \in {disk[c.path], Torn} : disk' = [disk EXCEPT ![c.path] = b]
            BY <2>5 DEF Zero
        <3>2. disk'["vault"] = disk["vault"] \/ disk'["vault"] = Torn BY <1>0, <2>3, <3>1
        <3> QED BY <2>1, <2>2, <3>2
    <2> QED BY <1>7, <2>4, <2>5 DEF WipeZero
<1>8. CASE WipeUnlink(t)
    <2>1. /\ acked' = IF Sealed(disk'["vault"]) THEN acked ELSE {}
          /\ disk' = [disk EXCEPT ![c.path] = Absent]
        BY <1>8 DEF WipeUnlink, Unlink
    <2>2. Absent \notin Envelope BY VaultAssumption
    <2>3. disk'["vault"] = disk["vault"] \/ disk'["vault"] = Absent BY <1>0, <2>1
    <2> QED BY <2>1, <2>2, <2>3
<1> QED BY <1>1, <1>2, <1>3, <1>4, <1>5, <1>6, <1>7, <1>8 DEF CommandSteps

\* Starting a command, locking and crashing leave the files alone.
LEMMA FilesStay ==
    ASSUME [Next]_vars, \A t \in Threads : ~CommandSteps(t)
    PROVE  UNCHANGED <<disk, acked>>
BY DEF Next, CommandStarts, VaultInit, VaultUnlock, VaultDestroy, VaultRotate, VaultSetSecret,
       VaultClearAlerts, Begin, Lock, Crash, vars

LEMMA PromiseStep ==
    ASSUME Steady, [Next]_vars
    PROVE  [Promise!Next]_<<Stored(disk), acked>>
<1> DEFINE old == Stored(disk)
           new == Stored(disk)'
<1>0. Absent \notin Envelope BY VaultAssumption
<1>1. CASE \A t \in Threads : ~CommandSteps(t) BY <1>1, FilesStay DEF Stored
<1>2. ASSUME NEW t \in Threads, CommandSteps(t) PROVE [Promise!Next]_<<Stored(disk), acked>>
    <2> DEFINE c == call[t]
    <2>1. CASE disk'["vault"] = disk["vault"] /\ acked' = acked BY <2>1 DEF Stored
    <2>2. CASE /\ c.step = "rename" /\ c.path = "vault" /\ RenameTmp(t)
               /\ disk'["vault"] = c.env /\ acked' = acked
        <3>1. c.env \in Envelope /\ new = c.env BY <2>2, RenameKnown DEF Stored, Sealed
        <3>2. ~Waits(c) /\ Saving(c) BY <2>2 DEF Waits, Saving, SaveSteps
        <3>3. SaveExtends(c, disk) BY <3>2, Runs DEF Going
        <3>4. CASE c.cmd = "init" /\ disk["vault"] = Absent /\ c.env.body = {}
            <4>1. old = Absent BY <1>0, <3>4 DEF Stored, Sealed
            <4>2. c.env = [pass |-> c.env.pass, body |-> {}] /\ c.env.pass \in Pass
                BY <3>1, <3>4 DEF Envelope
            <4>3. Promise!Create BY <2>2, <3>1, <4>1, <4>2 DEF Promise!Create, Promise!Pass, Pass, Stored
            <4> QED BY <4>3 DEF Promise!Next
        <3>5. CASE /\ disk["vault"] \in Envelope /\ c.env.pass = disk["vault"].pass
                   /\ disk["vault"].body \subseteq c.env.body
            <4>1. old = disk["vault"] /\ old # Absent BY <1>0, <3>5 DEF Stored, Sealed
            <4>2. c.env = [old EXCEPT !.body = c.env.body] /\ c.env.body \in SUBSET Edits
                BY <3>1, <3>5, <4>1 DEF Envelope
            <4>3. Promise!Edit
                BY <2>2, <3>1, <3>5, <4>1, <4>2 DEF Promise!Edit, Promise!Edits, Edits, Stored
            <4> QED BY <4>3 DEF Promise!Next
        <3>6. CASE disk["vault"] \in Envelope /\ c.env.body = disk["vault"].body
            <4>1. old = disk["vault"] /\ old # Absent BY <1>0, <3>6 DEF Stored, Sealed
            <4>2. c.env = [old EXCEPT !.pass = c.env.pass] /\ c.env.pass \in Pass
                BY <3>1, <3>6, <4>1 DEF Envelope
            <4>3. Promise!Rotate
                BY <2>2, <3>1, <4>1, <4>2 DEF Promise!Rotate, Promise!Pass, Pass, Stored
            <4> QED BY <4>3 DEF Promise!Next
        <3> QED BY <3>2, <3>3, <3>4, <3>5, <3>6 DEF SaveExtends
    <2>3. CASE /\ disk'["vault"] = disk["vault"] \/ disk'["vault"] \notin Envelope
               /\ acked' = IF Sealed(disk'["vault"]) THEN acked ELSE {}
        <3>1. CASE Sealed(disk'["vault"]) BY <2>3, <3>1 DEF Stored, Sealed
        <3>2. CASE ~Sealed(disk'["vault"])
            <4>1. Promise!Erase BY <2>3, <3>2 DEF Promise!Erase, Stored
            <4> QED BY <4>1 DEF Promise!Next
        <3> QED BY <3>1, <3>2
    <2>4. CASE Reply(t)
        <3>1. /\ ~Waits(c) /\ c.step = "reply" /\ disk' = disk
              /\ acked' = IF c.cmd = "set" THEN acked \cup {c.key} ELSE acked
            BY <2>4 DEF Reply, Waits
        <3>2. Noted(c, disk) /\ EditHeld(c, disk, session) BY <3>1, Runs DEF Going
        <3>3. CASE c.cmd = "set"
            <4>1. Holds(c, disk) /\ c.key \in c.env.body
                BY <3>1, <3>2, <3>3 DEF Noted, EditHeld
            <4>2. old = c.env /\ old # Absent /\ new = old
                BY <1>0, <3>1, <4>1 DEF Holds, Stored, Sealed
            <4>3. Promise!Acknowledge
                BY <3>1, <3>3, <4>1, <4>2 DEF Promise!Acknowledge, Stored
            <4> QED BY <4>3 DEF Promise!Next
        <3>4. CASE c.cmd # "set" BY <3>1, <3>4 DEF Stored
        <3> QED BY <3>3, <3>4
    <2> QED BY <1>2, <2>1, <2>2, <2>3, <2>4, StepsKnown
<1> QED BY <1>1, <1>2

-----------------------------------------------------------------------------
(* Without failures and crashes *)

\* The record of the one command that moves is sound, and so is the metadata.
LEMMA CalmMoves ==
    ASSUME Steady, CalmInv, Calm, NEW t \in Threads, \A u \in Threads \ {t} : Waits(call[u]),
           NEW c, Update(t, c), c.job # "tamper",
           Noting(c) /\ c.step # "note" => FitsVault(c.note, disk'),
           disk'["meta"] \in Note => ~disk'["meta"].alarm,
           ~Replacing(c) => FitsVault(disk'["meta"], disk')
    PROVE  CalmInv'
<1>1. call \in [Threads -> Call] BY DEF Steady, Typed, TypeOK
<1>2. call'[t] = c /\ \A u \in Threads \ {t} : call'[u] = call[u] BY <1>1
<1>3. ASSUME NEW u \in Threads
      PROVE  call'[u].job # "tamper"
             /\ (Noting(call'[u]) /\ call'[u].step # "note" => FitsVault(call'[u].note, disk'))
    <2>1. CASE u = t BY <1>2, <2>1
    <2>2. CASE u # t
        <3>1. call'[u] = call[u] /\ Waits(call[u]) BY <1>2, <2>2
        <3> QED BY <3>1 DEF CalmInv, Waits, Noting, SaveSteps
    <2> QED BY <2>1, <2>2
<1>4. (\A u \in Threads : ~Replacing(call'[u])) => ~Replacing(c) BY <1>2
<1> QED BY <1>3, <1>4 DEF CalmInv

\* Most steps leave vault.bin and the metadata alone and end no replacement.
LEMMA CalmStays ==
    ASSUME Steady, CalmInv, Calm, NEW t \in Threads, \A u \in Threads \ {t} : Waits(call[u]),
           NEW c, Update(t, c), c.job # "tamper",
           Noting(c) /\ c.step # "note" => FitsVault(c.note, disk),
           disk'["meta"] = disk["meta"], disk'["vault"] = disk["vault"],
           Replacing(call[t]) => Replacing(c)
    PROVE  CalmInv'
<1>1. \A u \in Threads \ {t} : ~Replacing(call[u])
    BY DEF Waits, Replacing, Noting, SaveSteps
<1>2. ~Replacing(c) => FitsVault(disk["meta"], disk) BY <1>1 DEF CalmInv
<1>3. /\ ~Replacing(c) => FitsVault(disk'["meta"], disk')
      /\ Noting(c) /\ c.step # "note" => FitsVault(c.note, disk')
    BY <1>2 DEF FitsVault
<1>4. disk'["meta"] \in Note => ~disk'["meta"].alarm BY DEF CalmInv
<1> QED BY <1>3, <1>4, CalmMoves

LEMMA IdleCalm == Idle.job # "tamper" /\ ~Noting(Idle) /\ ~Replacing(Idle)
BY DEF Idle, Noting, Replacing, SaveSteps

LEMMA StartsCalm ==
    ASSUME Steady, ~Concurrent, CalmInv, Calm, NEW t \in Threads, CommandStarts(t)
    PROVE  CalmInv'
<1>1. ASSUME NEW c, Begin(t, c), c.job # "tamper", Noting(c) => c.step = "note"
      PROVE  CalmInv'
    <2>1. \A u \in Threads : Waits(call[u]) BY <1>1 DEF Begin, Free, Waits
    <2>2. ~Replacing(call[t]) BY <2>1 DEF Waits, Replacing, Noting, SaveSteps
    <2>3. Update(t, c) /\ UNCHANGED disk BY <1>1 DEF Begin
    <2> QED BY <1>1, <2>1, <2>2, <2>3, CalmStays
<1>2. CASE VaultInit(t)
    <2> DEFINE c == [Idle EXCEPT !.cmd = "init", !.step = "create",
                                 !.env = [pass |-> passes + 1, body |-> {}]]
    <2>1. c.job # "tamper" /\ ~Noting(c) BY DEF Idle, Noting, SaveSteps
    <2> QED BY <1>1, <1>2, <2>1 DEF VaultInit
<1>3. ASSUME NEW k, NEW cmd
      PROVE  LET c == [Idle EXCEPT !.cmd = cmd, !.step = "load", !.key = k]
             IN  c.job # "tamper" /\ ~Noting(c)
    BY DEF Idle, Noting, SaveSteps
<1>4. CASE VaultUnlock(t) BY <1>1, <1>3, <1>4 DEF VaultUnlock
<1>5. CASE VaultDestroy(t) BY <1>1, <1>3, <1>5 DEF VaultDestroy
<1>6. CASE VaultRotate(t)
    <2>1. PICK k \in 1..passes :
            Begin(t, [Idle EXCEPT !.cmd = "rotate", !.step = "load", !.key = k,
                                  !.env = [pass |-> passes + 1, body |-> {}]])
        BY <1>6 DEF VaultRotate
    <2> DEFINE c == [Idle EXCEPT !.cmd = "rotate", !.step = "load", !.key = k,
                                 !.env = [pass |-> passes + 1, body |-> {}]]
    <2>2. c.job # "tamper" /\ ~Noting(c) BY DEF Idle, Noting, SaveSteps
    <2> QED BY <1>1, <2>1, <2>2
<1>7. CASE VaultSetSecret(t)
    <2> DEFINE c == [Idle EXCEPT !.cmd = "set", !.step = "snapshot", !.key = edits + 1]
    <2>1. c.job # "tamper" /\ ~Noting(c) BY DEF Idle, Noting, SaveSteps
    <2> QED BY <1>1, <1>7, <2>1 DEF VaultSetSecret
<1>8. CASE VaultClearAlerts(t)
    <2> DEFINE c == [Idle EXCEPT !.cmd = "clear", !.step = "note", !.job = "clear", !.path = "meta"]
    <2>1. c.job # "tamper" /\ c.step = "note" BY DEF Idle
    <2> QED BY <1>1, <1>8, <2>1 DEF VaultClearAlerts
<1> QED BY <1>2, <1>4, <1>5, <1>6, <1>7, <1>8 DEF CommandStarts

\* What a calm command and its file operations are known to be.
LEMMA CalmKnown ==
    ASSUME Steady, CalmInv, Calm, NEW t \in Threads, ~Waits(call[t])
    PROVE  LET c == call[t]
           IN  /\ c \in Call /\ Fits(c, target[t]) /\ c.job # "tamper"
               /\ Going(c, target[t], disk, session)
               /\ \A u \in Threads \ {t} : Waits(call[u])
               /\ Noting(c) /\ c.step # "note" => FitsVault(c.note, disk)
               /\ ~Replacing(c) => FitsVault(disk["meta"], disk)
               /\ disk["meta"] \in Note => ~disk["meta"].alarm
               /\ disk \in [Names -> Envelope \cup Note \cup Marks]
<1>1. \A u \in Threads \ {t} : Waits(call[u]) /\ ~Replacing(call[u])
    BY Runs DEF Waits, Replacing, Noting, SaveSteps
<1>2. disk \in [Names -> Envelope \cup Note \cup Marks] BY DEF Steady, Typed, TypeOK
<1> QED BY <1>1, <1>2, Runs, RecordKnown DEF CalmInv, Steady

\* A fingerprint that is compared is that of the vault, so nobody is accused.
LEMMA JudgeCalm == ASSUME Steady, CalmInv, Calm, NEW t \in Threads, Judge(t) PROVE CalmInv'
<1> DEFINE c == call[t]
<1>1. c.step = "judge" /\ ~Waits(c) /\ UNCHANGED disk BY DEF Judge, Waits, sharedVars
<1>2. ~Replacing(c) /\ ~Noting(c) BY <1>1 DEF Replacing, Noting, SaveSteps
<1>3. FitsVault(disk["meta"], disk) /\ Holds(c, disk) BY <1>1, <1>2, CalmKnown DEF Going, Noted
<1>4. disk["meta"] \in Note => disk["meta"].fingerprint \in {Absent, c.env}
    BY <1>3 DEF FitsVault, Holds
<1>5. Return(t) BY <1>4 DEF Judge
<1> QED BY <1>1, <1>2, <1>5, CalmKnown, CalmStays, IdleCalm

LEMMA LoadCalm ==
    ASSUME Steady, CalmInv, Calm, NEW t \in Threads, Snapshot(t) \/ Load(t)
    PROVE  CalmInv'
<1> DEFINE c == call[t]
<1>1. /\ c.step \in {"snapshot", "load"} /\ ~Waits(c) /\ UNCHANGED disk
    BY DEF Snapshot, Load, Waits, sharedVars
<1>2. ~Replacing(c) BY <1>1 DEF Replacing, Noting, SaveSteps
<1>3. c \in Call /\ c.path = "vault" /\ c.job = "vault" BY <1>1, CalmKnown DEF Fits
<1>4. PICK d : /\ Update(t, d) /\ d.job # "tamper" /\ (Noting(d) => d.step = "note")
    <2>1. CASE Return(t) BY <2>1, IdleCalm
    <2>2. CASE Update(t, [c EXCEPT !.step = "load", !.env.body = session])
        <3> DEFINE d == [c EXCEPT !.step = "load", !.env.body = session]
        <3>1. d.job # "tamper" /\ d.step = "load" BY <1>3 DEF Call
        <3>2. ~Noting(d) BY <3>1 DEF Noting, SaveSteps
        <3> QED BY <2>2, <3>1, <3>2
    <2>3. ASSUME NEW env, Update(t, [c EXCEPT !.step = "create", !.env = env])
          PROVE  \E d : Update(t, d) /\ d.job # "tamper" /\ (Noting(d) => d.step = "note")
        <3> DEFINE d == [c EXCEPT !.step = "create", !.env = env]
        <3>1. d.job # "tamper" /\ d.step = "create" /\ d.path = "vault" BY <1>3 DEF Call
        <3>2. ~Noting(d) BY <3>1 DEF Noting, SaveSteps
        <3> QED BY <2>3, <3>1, <3>2
    <2>4. ASSUME NEW env,
                 Update(t, [c EXCEPT !.step = "note", !.job = "unlock", !.path = "meta", !.env = env])
          PROVE  \E d : Update(t, d) /\ d.job # "tamper" /\ (Noting(d) => d.step = "note")
        <3> DEFINE d == [c EXCEPT !.step = "note", !.job = "unlock", !.path = "meta", !.env = env]
        <3>1. d.job # "tamper" /\ d.step = "note" BY <1>3 DEF Call
        <3> QED BY <2>4, <3>1
    <2>5. ASSUME NEW env, Update(t, [c EXCEPT !.step = "judge", !.env = env])
          PROVE  \E d : Update(t, d) /\ d.job # "tamper" /\ (Noting(d) => d.step = "note")
        <3> DEFINE d == [c EXCEPT !.step = "judge", !.env = env]
        <3>1. d.job # "tamper" /\ d.step = "judge" BY <1>3 DEF Call
        <3>2. ~Noting(d) BY <3>1 DEF Noting, SaveSteps
        <3> QED BY <2>5, <3>1, <3>2
    <2>6. CASE Snapshot(t) BY <2>1, <2>2, <2>6 DEF Snapshot
    <2>7. CASE Load(t) BY <2>1, <2>3, <2>4, <2>5, <2>7 DEF Load
    <2> QED BY <2>6, <2>7
<1> QED BY <1>1, <1>2, <1>4, CalmKnown, CalmStays

\* Up to the rename nothing but the temporary file and the backup changes.
LEMMA WriteCalm ==
    ASSUME Steady, CalmInv, Calm, NEW t \in Threads,
           Create(t) \/ Write(t) \/ StartBackup(t) \/ CopyBackup(t)
    PROVE  CalmInv'
<1> DEFINE c == call[t]
<1>1. c.step \in {"create", "write", "backup", "copy"} /\ ~Waits(c)
    BY DEF Create, Write, StartBackup, CopyBackup, Waits
<1>2. /\ c \in Call /\ c.path \in Files /\ (c.step \in {"backup", "copy"} => c.path = "vault")
      /\ c.step = "write" => target[t] = TmpPath[c.path]
    BY <1>1, CalmKnown DEF Fits, SaveSteps, Going, TmpReady
<1>3. disk'["meta"] = disk["meta"] /\ disk'["vault"] = disk["vault"]
    BY <1>1, <1>2, CalmKnown DEF Create, CreateTmp, Write, WriteTmp, StartBackup, OpenBackup,
       CopyBackup, FillBackup
<1>4. ASSUME NEW d, Update(t, d), d.step \in SaveSteps, d.job = c.job, d.path = c.path,
             d.note = c.note
      PROVE  CalmInv'
    <2>1. (Noting(d) <=> Noting(c)) /\ (Replacing(d) <=> Replacing(c)) /\ c.step # "note"
        BY <1>1, <1>4 DEF Noting, Replacing, SaveSteps
    <2> QED BY <1>1, <1>3, <1>4, <2>1, CalmKnown, CalmStays
<1>5. ASSUME NEW s \in SaveSteps, Update(t, [c EXCEPT !.step = s]) PROVE CalmInv'
    <2> DEFINE d == [c EXCEPT !.step = s]
    <2>1. d.step = s /\ d.job = c.job /\ d.path = c.path /\ d.note = c.note BY <1>2 DEF Call
    <2> QED BY <1>4, <1>5, <2>1
<1>6. ASSUME NEW old, Update(t, [c EXCEPT !.step = "copy", !.old = old]) PROVE CalmInv'
    <2> DEFINE d == [c EXCEPT !.step = "copy", !.old = old]
    <2>1. d.step = "copy" /\ d.job = c.job /\ d.path = c.path /\ d.note = c.note BY <1>2 DEF Call
    <2> QED BY <1>4, <1>6, <2>1 DEF SaveSteps
<1> QED BY <1>5, <1>6 DEF Create, Write, StartBackup, CopyBackup, SaveSteps

LEMMA RenameCalm == ASSUME Steady, CalmInv, Calm, NEW t \in Threads, RenameTmp(t) PROVE CalmInv'
<1> DEFINE c == call[t]
<1>1. c.step = "rename" /\ ~Waits(c) BY DEF RenameTmp, Waits
<1>2. /\ c.path \in Files /\ Rename(c.path)
      /\ Update(t, IF c.path = "vault"
                   THEN [c EXCEPT !.step = "note", !.job = "seal", !.path = "meta"]
                   ELSE AfterNote(c))
    BY <1>1, RenameKnown DEF RenameTmp
<1>3. CASE c.path = "vault"
    <2> DEFINE d == [c EXCEPT !.step = "note", !.job = "seal", !.path = "meta"]
    <2>1. d.step = "note" /\ d.job = "seal" BY <1>1, CalmKnown DEF Call
    <2>2. Replacing(d) BY <2>1 DEF Replacing, Noting
    <2>3. disk'["meta"] = disk["meta"] BY <1>1, <1>2, <1>3, CalmKnown DEF Rename
    <2> HIDE DEF d
    <2>4. Update(t, d) BY <1>2, <1>3 DEF d
    <2>5. disk'["meta"] \in Note => ~disk'["meta"].alarm BY <1>1, <2>3, CalmKnown
    <2>6. \A u \in Threads \ {t} : Waits(call[u]) BY <1>1, CalmKnown
    <2> QED BY <2>1, <2>2, <2>4, <2>5, <2>6, CalmMoves
<1>4. CASE c.path = "meta"
    <2>1. disk'["meta"] = c.note /\ disk'["vault"] = disk["vault"]
        BY <1>1, <1>2, <1>4, CalmKnown, RenameKnown DEF Rename
    <2>2. Noting(c) BY <1>1, <1>4 DEF Noting, SaveSteps
    <2>3. FitsVault(c.note, disk) BY <1>1, <2>2, CalmKnown
    <2>4. FitsVault(disk'["meta"], disk') BY <2>1, <2>3 DEF FitsVault
    <2>5. PICK d : Update(t, d) /\ d.job # "tamper" /\ (Noting(d) => d.step = "note")
        <3>1. c \in Call /\ c.job # "tamper" BY <1>1, CalmKnown
        <3>2. AfterNote(c).job # "tamper" /\ AfterNote(c).step \in {"note", "zero", "reply", "idle"}
            BY <3>1 DEF AfterNote, Call, Idle
        <3>3. Noting(AfterNote(c)) => AfterNote(c).step = "note" BY <3>2 DEF Noting, SaveSteps
        <3> QED BY <1>2, <1>4, <3>2, <3>3
    <2>6. disk'["meta"] \in Note => ~disk'["meta"].alarm BY <2>4 DEF FitsVault
    <2> QED BY <1>1, <2>4, <2>5, <2>6, CalmKnown, CalmMoves
<1> QED BY <1>2, <1>3, <1>4

\* Metadata that is read fits the vault, and so does what is written next.
LEMMA ReadNoteCalm ==
    ASSUME Steady, CalmInv, Calm, Calm', NEW t \in Threads, ReadNote(t)
    PROVE  CalmInv'
<1> DEFINE c == call[t]
           found == IF disk["meta"] \in Note THEN disk["meta"] ELSE NewNote
           m == Amend(c, found)
<1>1. c.step = "note" /\ ~Waits(c) /\ Noting(c) /\ UNCHANGED disk
    BY DEF ReadNote, Waits, Noting
<1>2. /\ c \in Call /\ c.job # "tamper" /\ Noted(c, disk)
      /\ ~Replacing(c) => FitsVault(disk["meta"], disk)
      /\ disk["meta"] \in Note => ~disk["meta"].alarm
    BY <1>1, CalmKnown DEF Going
<1>3. Update(t, [c EXCEPT !.step = "create", !.note = m])
    BY DEF ReadNote, Calm
<1>4. FitsVault(m, disk)
    <2>1. found \in Note /\ ~found.alarm BY <1>2 DEF Note, NewNote
    <2>2. c.job # "seal" => found.fingerprint \in {Absent, disk["vault"]}
        BY <1>1, <1>2 DEF Replacing, FitsVault, NewNote
    <2>3. c.job = "seal" => c.env = disk["vault"] BY <1>1, <1>2 DEF Noted, Holds
    <2> HIDE DEF found
    <2>4. CASE c.job = "seal" BY <2>1, <2>3, <2>4 DEF Amend, Note, FitsVault
    <2>5. CASE c.job = "clear" BY <2>1, <2>2, <2>5 DEF Amend, Note, FitsVault
    <2>6. CASE c.job \notin {"seal", "clear", "tamper"}
        <3>1. Amend(c, found) = found BY <2>6 DEF Amend
        <3> QED BY <2>1, <2>2, <2>6, <3>1 DEF FitsVault
    <2> QED BY <1>2, <2>4, <2>5, <2>6
<1> DEFINE d == [c EXCEPT !.step = "create", !.note = m]
<1>5. d.step = "create" /\ d.job = c.job /\ d.note = m BY <1>2 DEF Call
<1>6. c.path = "meta" /\ d.path = c.path BY <1>1, <1>2, CalmKnown DEF Call, Fits
<1>7. Replacing(c) => Replacing(d) BY <1>1, <1>5, <1>6 DEF Replacing, Noting, SaveSteps
<1> HIDE DEF m
<1> HIDE DEF d
<1>8. Update(t, d) BY <1>3 DEF d
<1> QED BY <1>1, <1>2, <1>4, <1>5, <1>7, <1>8, CalmKnown, CalmStays

\* Destruction takes the metadata last; until it is gone the vault's absence
\* accuses nobody.
LEMMA WipeCalm ==
    ASSUME Steady, CalmInv, Calm, NEW t \in Threads, WipeZero(t) \/ WipeUnlink(t)
    PROVE  CalmInv'
<1> DEFINE c == call[t]
<1>1. c.step \in {"zero", "unlink"} /\ ~Waits(c) BY DEF WipeZero, WipeUnlink, Waits
<1>2. /\ c \in Call /\ c.job = "vault" /\ c.path \in Names \ {"meta.tmp"}
      /\ disk["meta"] \in Note => ~disk["meta"].alarm
      /\ disk \in [Names -> Envelope \cup Note \cup Marks]
    BY <1>1, CalmKnown DEF Going, Wiping
<1>3. Torn \notin Note /\ Absent \notin Note BY VaultAssumption
<1>4. disk'["meta"] \in {disk["meta"], Torn, Absent}
    <2>1. CASE disk' = disk BY <2>1
    <2>2. ASSUME NEW b \in {disk[c.path], Torn, Absent}, disk' = [disk EXCEPT ![c.path] = b]
          PROVE  disk'["meta"] \in {disk["meta"], Torn, Absent}
        BY <1>2, <2>2
    <2> QED BY <2>1, <2>2 DEF WipeZero, WipeUnlink, Zero, Unlink
<1>5. disk'["meta"] \in Note => ~disk'["meta"].alarm BY <1>2, <1>3, <1>4
<1>6. ASSUME NEW d, Update(t, d), d.job = "vault", ~Noting(d),
             Replacing(d) \/ disk'["meta"] = Absent
      PROVE  CalmInv'
    <2>1. ~Replacing(d) => FitsVault(disk'["meta"], disk') BY <1>3, <1>6 DEF FitsVault
    <2> QED BY <1>1, <1>5, <1>6, <2>1, CalmKnown, CalmMoves
<1>7. CASE Update(t, [c EXCEPT !.step = "unlink"])
    <2> DEFINE d == [c EXCEPT !.step = "unlink"]
    <2>1. d.step = "unlink" /\ d.job = "vault" BY <1>2 DEF Call
    <2>2. ~Noting(d) /\ Replacing(d) BY <2>1 DEF Noting, Replacing, SaveSteps
    <2> QED BY <1>6, <1>7, <2>1, <2>2
<1>8. CASE Update(t, NextWipe(c)) /\ disk'[c.path] = Absent
    <2>1. CASE c.path = "meta"
        <3> DEFINE d == [c EXCEPT !.step = "reply"]
        <3>1. d = NextWipe(c) BY <2>1 DEF NextWipe
        <3>2. d.step = "reply" /\ d.job = "vault" BY <1>2 DEF Call
        <3>3. ~Noting(d) BY <3>2 DEF Noting, SaveSteps
        <3> HIDE DEF d
        <3> QED BY <1>6, <1>8, <2>1, <3>1, <3>2, <3>3
    <2>2. CASE c.path # "meta"
        <3>1. PICK n \in Names : NextWipe(c) = [c EXCEPT !.step = "zero", !.path = n]
            BY <1>2, <2>2 DEF NextWipe
        <3> DEFINE d == [c EXCEPT !.step = "zero", !.path = n]
        <3>2. d.step = "zero" /\ d.job = "vault" BY <1>2 DEF Call
        <3>3. ~Noting(d) /\ Replacing(d) BY <3>2 DEF Noting, Replacing, SaveSteps
        <3> HIDE DEF d
        <3> QED BY <1>6, <1>8, <3>1, <3>2, <3>3 DEF d
    <2> QED BY <2>1, <2>2
<1>9. disk' = [disk EXCEPT ![c.path] = Absent] => disk'[c.path] = Absent BY <1>2
<1> QED BY <1>7, <1>8, <1>9 DEF WipeZero, WipeUnlink, Unlink

LEMMA ReplyCalm == ASSUME Steady, CalmInv, Calm, NEW t \in Threads, Reply(t) PROVE CalmInv'
<1>1. call[t].step = "reply" /\ ~Waits(call[t]) /\ Return(t) /\ UNCHANGED disk
    BY DEF Reply, Waits
<1>2. ~Replacing(call[t]) BY <1>1 DEF Replacing, Noting, SaveSteps
<1> QED BY <1>1, <1>2, CalmKnown, CalmStays, IdleCalm

\* Failures and crashes are never forgotten.
LEMMA CalmWas ==
    ASSUME Typed, [Next]_vars, Calm' PROVE Calm /\ ~Crash /\ \A t \in Threads : ~Fail(t)
<1>1. faults \in Nat /\ crashes \in Nat BY VaultAssumption DEF Typed, TypeOK
<1>2. faults' \in {faults, faults + 1} /\ crashes' \in {crashes, crashes + 1}
    <2>1. ASSUME NEW t \in Threads, CommandStarts(t)
          PROVE  faults' = faults /\ crashes' = crashes
        BY <2>1 DEF CommandStarts, VaultInit, VaultUnlock, VaultDestroy, VaultRotate,
           VaultSetSecret, VaultClearAlerts, Begin
    <2>2. ASSUME NEW t \in Threads, CommandSteps(t)
          PROVE  faults' \in {faults, faults + 1} /\ crashes' = crashes
        BY <2>2 DEF CommandSteps, Snapshot, Load, Judge, Create, Write, StartBackup, CopyBackup,
           RenameTmp, ReadNote, WipeZero, WipeUnlink, Reply, Fail, sharedVars, stillVars, counters
    <2> QED BY <2>1, <2>2 DEF Next, Lock, Crash, counters, vars
<1>3. Calm BY <1>1, <1>2 DEF Calm
<1> QED BY <1>3 DEF Calm, Crash, Fail

LEMMA CalmNext ==
    ASSUME ~Concurrent, Steady, CalmInv, [Next]_vars PROVE CalmInv'
<1> SUFFICES ASSUME Calm' PROVE CalmInv' BY DEF CalmInv
<1>1. Calm /\ ~Crash /\ \A t \in Threads : ~Fail(t) BY CalmWas DEF Steady
<1>2. ASSUME NEW t \in Threads, CommandSteps(t) PROVE CalmInv'
    BY <1>1, <1>2, LoadCalm, JudgeCalm, WriteCalm, RenameCalm, ReadNoteCalm, WipeCalm, ReplyCalm
       DEF CommandSteps
<1>3. CASE Lock \/ UNCHANGED vars
    <2>1. UNCHANGED <<disk, call, faults, crashes>> BY <1>3 DEF Lock, counters, vars
    <2> QED BY <2>1 DEF CalmInv, Calm, FitsVault
<1> QED BY <1>1, <1>2, <1>3, StartsCalm DEF Next

LEMMA InitCalm == Init => CalmInv
<1>1. Absent \notin Note BY VaultAssumption
<1> QED BY <1>1, IdleCalm DEF Init, CalmInv, FitsVault

-----------------------------------------------------------------------------
(* What the vault promises *)


LEMMA StaysSteady ==
    ASSUME ~Concurrent
    PROVE  Spec => [](Steady /\ CalmInv)
<1>1. Init => Steady /\ CalmInv BY InitSteady, InitCalm
<1>2. Steady /\ CalmInv /\ [Next]_vars => (Steady /\ CalmInv)' BY NextSteady, CalmNext
<1> QED BY <1>1, <1>2, PTL DEF Spec

\* While one command runs at a time, the vault implements its promise: through
\* crashes and failed calls at every step, vault.bin is nothing or one whole
\* envelope, and keeps every acknowledged edit until it is destroyed.
THEOREM VaultKeepsPromise == ~Concurrent => (Spec => KeepsPromise)
<1> SUFFICES ASSUME ~Concurrent PROVE Spec => KeepsPromise OBVIOUS
<1>1. Init => Promise!Init
    <2>1. Init => ~Sealed(disk["vault"]) /\ acked = {}
        BY VaultAssumption DEF Init, Sealed
    <2> QED BY <2>1 DEF Promise!Init
<1>2. Steady /\ [Next]_vars
        => [Promise!Next]_<<IF Sealed(disk["vault"]) THEN disk["vault"] ELSE Absent, acked>>
    BY PromiseStep DEF Stored
<1>3. Spec => [](Steady /\ CalmInv) BY StaysSteady
<1> QED BY <1>1, <1>2, <1>3, PTL DEF Spec, KeepsPromise, Promise!Spec

\* While one command runs at a time, a save that replaces an envelope leaves
\* exactly that one in vault.bak, whatever was interrupted before it.
THEOREM VaultKeepsGeneration == ~Concurrent => (Spec => PreviousGenerationKept)
<1> SUFFICES ASSUME ~Concurrent PROVE Spec => PreviousGenerationKept OBVIOUS
<1> DEFINE Kept == (Sealed(disk["vault"]) /\ Sealed(disk'["vault"]) /\ disk'["vault"] # disk["vault"])
                      => disk'[Backup] = disk["vault"]
<1>1. ASSUME Steady, [Next]_vars PROVE Kept
    <2> SUFFICES ASSUME Sealed(disk["vault"]), Sealed(disk'["vault"]), disk'["vault"] # disk["vault"]
                 PROVE  disk'[Backup] = disk["vault"]
        OBVIOUS
    <2>1. PICK t \in Threads : CommandSteps(t) BY <1>1, FilesStay
    <2>2. call[t].step = "rename" /\ call[t].path = "vault" /\ RenameTmp(t)
        BY <1>1, <2>1, StepsKnown DEF Sealed, Reply
    <2>3. Rename("vault") /\ ~Waits(call[t]) BY <1>1, <2>2, RenameKnown DEF RenameTmp, Waits
    <2>4. disk["vault"] # Absent BY VaultAssumption DEF Sealed
    <2>5. disk[Backup] = disk["vault"] BY <1>1, <2>2, <2>3, <2>4, Runs DEF Going, BackupReady
    <2>6. disk \in [Names -> Envelope \cup Note \cup Marks] BY <1>1 DEF Steady, Typed, TypeOK
    <2> QED BY <2>3, <2>5, <2>6 DEF Rename
<1>2. Steady /\ [Next]_vars => [Kept]_vars BY <1>1
<1>3. Spec => [](Steady /\ CalmInv) BY StaysSteady
<1> QED BY <1>2, <1>3, PTL DEF Spec, PreviousGenerationKept

\* While one command runs at a time, no envelope is left under any name when
\* vault_destroy answers Ok.
THEOREM DestroyedIsGone == ~Concurrent => (Spec => DestroyLeavesNothing)
<1> SUFFICES ASSUME ~Concurrent PROVE Spec => DestroyLeavesNothing OBVIOUS
<1> DEFINE Gone == \A t \in Threads:
                     (call[t].step = "reply" /\ call[t].cmd = "destroy" /\ crashes' = crashes)
                        => \A n \in Names \ {"meta.tmp"}: disk[n] = Absent
<1>1. Steady => Gone BY DEF Steady, Going, Wiping
<1>2. Steady /\ [Next]_vars => [Gone]_vars BY <1>1
<1>3. Spec => [](Steady /\ CalmInv) BY StaysSteady
<1> QED BY <1>2, <1>3, PTL DEF Spec, DestroyLeavesNothing

\* While one command runs at a time, nobody is accused of tampering unless a
\* call failed or the app crashed: a wrong passphrase alone is no strike.
THEOREM AlarmsAreJustified == ~Concurrent => (Spec => []AlarmsHaveCause)
<1> SUFFICES ASSUME ~Concurrent PROVE Spec => []AlarmsHaveCause OBVIOUS
<1>1. Steady /\ CalmInv => AlarmsHaveCause
    <2> SUFFICES ASSUME Steady, CalmInv, disk["meta"] \in Note, disk["meta"].alarm
                 PROVE  crashes > 0 \/ faults > 0
        BY DEF AlarmsHaveCause
    <2>1. faults \in Nat /\ crashes \in Nat BY VaultAssumption DEF Steady, Typed, TypeOK
    <2>2. ~Calm BY DEF CalmInv
    <2> QED BY <2>1, <2>2 DEF Calm
<1>2. Spec => [](Steady /\ CalmInv) BY StaysSteady
<1> QED BY <1>1, <1>2, PTL
=============================================================================
