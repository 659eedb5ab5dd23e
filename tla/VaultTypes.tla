----------------------------- MODULE VaultTypes ------------------------------
(***************************************************************************)
(* Type correctness of the vault, for any number of threads, edits,        *)
(* passphrases, failures and crashes, with commands that overlap or not.   *)
(***************************************************************************)
EXTENDS VaultProperties, TLAPS

USE DEF At, Update, Return, Files, Names, TmpPath, Backup, VaultNames, Marks, OsKey

SaveSteps == {"create", "write", "backup", "copy", "rename"}

\* What is being written fits the file it goes to: an envelope that is written
\* or whose fingerprint is recorded is complete, and an open handle is on the
\* temporary file or, after another writer's rename, on the file itself.
Fits(c, handle) ==
    /\ c.step \in {"snapshot", "load"} => c.path = "vault" /\ c.job = "vault"
    /\ c.step \in SaveSteps => c.path \in Files
    /\ c.step \in {"backup", "copy"} => c.path = "vault"
    /\ c.step = "note" => c.path = "meta"
    /\ c.step \in SaveSteps /\ c.path = "vault" => c.env \in Envelope
    /\ c.job = "seal" => c.env \in Envelope
    /\ c.cmd = "rotate" => c.env.pass \in Pass
    /\ c.cmd = "set" => c.key \in Edits
    /\ c.step = "write" => handle \in {c.path, TmpPath[c.path], NoName}

AllFit == \A t \in Threads : Fits(call[t], target[t])

Typed == TypeOK /\ AllFit

\* The thread whose command moves is the only one whose record changes.
LEMMA OneMoves ==
    ASSUME Typed, NEW t \in Threads, NEW c \in Call, Update(t, c),
           target' \in [Threads -> Names \cup {NoName}],
           Fits(c, target'[t]),
           \A u \in Threads \ {t} : call[u].step = "write" =>
              target'[u] \in {call[u].path, TmpPath[call[u].path], NoName}
    PROVE  call' \in [Threads -> Call] /\ AllFit'
<1>1. call \in [Threads -> Call] BY DEF Typed, TypeOK
<1>2. call' \in [Threads -> Call] /\ call'[t] = c BY <1>1
<1>3. \A u \in Threads \ {t} : call'[u] = call[u] BY <1>1
<1>4. ASSUME NEW u \in Threads PROVE Fits(call'[u], target'[u])
    <2>1. CASE u = t BY <2>1, <1>2
    <2>2. CASE u # t
        <3>1. call'[u] = call[u] BY <2>2, <1>3
        <3>2. Fits(call[u], target[u]) BY DEF Typed, AllFit
        <3> QED BY <2>2, <3>1, <3>2 DEF Fits
    <2> QED BY <2>1, <2>2
<1> QED BY <1>2, <1>4 DEF AllFit

\* Most steps leave every handle alone.
LEMMA OneMovesStill ==
    ASSUME Typed, NEW t \in Threads, NEW c \in Call, Update(t, c),
           UNCHANGED target, Fits(c, target[t])
    PROVE  call' \in [Threads -> Call] /\ AllFit'
<1>1. target' \in [Threads -> Names \cup {NoName}] BY DEF Typed, TypeOK
<1>2. ASSUME NEW u \in Threads \ {t}, call[u].step = "write"
      PROVE  target'[u] \in {call[u].path, TmpPath[call[u].path], NoName}
    BY <1>2 DEF Typed, AllFit, Fits
<1> QED BY <1>1, <1>2, OneMoves

LEMMA IdleFits == Idle \in Call /\ \A handle : Fits(Idle, handle)
BY DEF Idle, Call, Commands, Steps, Jobs, Draft, Note, NewNote, Fits, SaveSteps, Envelope

\* A new record of the kind every command starts with.
LEMMA BeginTyped ==
    ASSUME Typed, NEW t \in Threads, NEW c \in Call, Begin(t, c), Fits(c, target[t])
    PROVE  /\ call' \in [Threads -> Call] /\ AllFit'
           /\ UNCHANGED <<disk, target, faults, crashes, acked>>
<1>1. Update(t, c) /\ UNCHANGED <<disk, target, faults, crashes, acked>> BY DEF Begin
<1> QED BY <1>1, OneMovesStill

-----------------------------------------------------------------------------
(* Commands *)

LEMMA StartsTyped ==
    ASSUME Typed, NEW t \in Threads, CommandStarts(t)
    PROVE  Typed'
<1> USE DEF Typed
<1>0. /\ edits \in 0..MaxEdits /\ passes \in 0..MaxPass /\ MaxEdits \in Nat /\ MaxPass \in Nat
      /\ session = Locked \/ session \subseteq Edits
    BY VaultAssumption DEF TypeOK
<1>1. CASE VaultInit(t)
    <2> DEFINE c == [Idle EXCEPT !.cmd = "init", !.step = "create",
                                 !.env = [pass |-> passes + 1, body |-> {}]]
    <2>1. Begin(t, c) /\ passes < MaxPass /\ passes' = passes + 1 /\ UNCHANGED <<session, edits>>
        BY <1>1 DEF VaultInit
    <2>2. passes + 1 \in Pass BY <1>0, <2>1 DEF Pass
    <2>3. c \in Call /\ Fits(c, target[t])
        BY <2>2 DEF Idle, Call, Commands, Steps, Jobs, Draft, Note, NewNote, Fits, SaveSteps, Envelope
    <2> QED BY <1>0, <2>1, <2>2, <2>3, BeginTyped DEF TypeOK, Pass
<1>2. CASE VaultUnlock(t)
    <2>1. PICK k \in 0..passes : Begin(t, [Idle EXCEPT !.cmd = "unlock", !.step = "load", !.key = k])
        BY <1>2 DEF VaultUnlock
    <2> DEFINE c == [Idle EXCEPT !.cmd = "unlock", !.step = "load", !.key = k]
    <2>2. k \in Nat BY <1>0
    <2>3. c \in Call /\ Fits(c, target[t])
        BY <2>2 DEF Idle, Call, Commands, Steps, Jobs, Draft, Note, NewNote, Fits, SaveSteps, Envelope
    <2>4. UNCHANGED <<session, edits, passes>> BY <1>2 DEF VaultUnlock
    <2> QED BY <2>1, <2>3, <2>4, BeginTyped DEF TypeOK
<1>3. CASE VaultDestroy(t)
    <2>1. PICK k \in 1..passes : Begin(t, [Idle EXCEPT !.cmd = "destroy", !.step = "load", !.key = k])
        BY <1>3 DEF VaultDestroy
    <2> DEFINE c == [Idle EXCEPT !.cmd = "destroy", !.step = "load", !.key = k]
    <2>2. k \in Nat BY <1>0
    <2>3. c \in Call /\ Fits(c, target[t])
        BY <2>2 DEF Idle, Call, Commands, Steps, Jobs, Draft, Note, NewNote, Fits, SaveSteps, Envelope
    <2>4. UNCHANGED <<session, edits, passes>> BY <1>3 DEF VaultDestroy
    <2> QED BY <2>1, <2>3, <2>4, BeginTyped DEF TypeOK
<1>4. CASE VaultRotate(t)
    <2>1. /\ passes < MaxPass /\ passes' = passes + 1 /\ UNCHANGED <<session, edits>>
          /\ \E k \in 1..passes :
                Begin(t, [Idle EXCEPT !.cmd = "rotate", !.step = "load", !.key = k,
                                      !.env = [pass |-> passes + 1, body |-> {}]])
        BY <1>4 DEF VaultRotate
    <2>2. PICK k \in 1..passes :
                Begin(t, [Idle EXCEPT !.cmd = "rotate", !.step = "load", !.key = k,
                                      !.env = [pass |-> passes + 1, body |-> {}]])
        BY <2>1
    <2> DEFINE c == [Idle EXCEPT !.cmd = "rotate", !.step = "load", !.key = k,
                                 !.env = [pass |-> passes + 1, body |-> {}]]
    <2>3. k \in Nat /\ passes + 1 \in Pass BY <1>0, <2>1 DEF Pass
    <2>4. c \in Call /\ Fits(c, target[t])
        BY <2>3 DEF Idle, Call, Commands, Steps, Jobs, Draft, Note, NewNote, Fits, SaveSteps, Envelope
    <2> QED BY <1>0, <2>1, <2>2, <2>3, <2>4, BeginTyped DEF TypeOK, Pass
<1>5. CASE VaultSetSecret(t)
    <2> DEFINE c == [Idle EXCEPT !.cmd = "set", !.step = "snapshot", !.key = edits + 1]
    <2>1. /\ Begin(t, c) /\ session # Locked /\ edits < MaxEdits /\ edits' = edits + 1
          /\ session' = session \cup {edits + 1} /\ UNCHANGED passes
        BY <1>5 DEF VaultSetSecret
    <2>2. edits + 1 \in Edits /\ edits + 1 \in Nat BY <1>0, <2>1 DEF Edits
    <2>3. c \in Call /\ Fits(c, target[t])
        BY <2>2 DEF Idle, Call, Commands, Steps, Jobs, Draft, Note, NewNote, Fits, SaveSteps, Envelope
    <2>4. session' \subseteq Edits /\ edits' \in 0..MaxEdits BY <1>0, <2>1, <2>2 DEF Edits
    <2> QED BY <2>1, <2>3, <2>4, BeginTyped DEF TypeOK
<1>6. CASE VaultClearAlerts(t)
    <2> DEFINE c == [Idle EXCEPT !.cmd = "clear", !.step = "note", !.job = "clear", !.path = "meta"]
    <2>1. Begin(t, c) /\ UNCHANGED <<session, edits, passes>> BY <1>6 DEF VaultClearAlerts
    <2>2. c \in Call /\ Fits(c, target[t])
        BY DEF Idle, Call, Commands, Steps, Jobs, Draft, Note, NewNote, Fits, SaveSteps, Envelope
    <2> QED BY <2>1, <2>2, BeginTyped DEF TypeOK
<1> QED BY <1>1, <1>2, <1>3, <1>4, <1>5, <1>6 DEF CommandStarts

-----------------------------------------------------------------------------
(* Loading *)

\* What a step that only replaces the record of its thread must show.
LEMMA RecordTyped ==
    ASSUME Typed, NEW t \in Threads, NEW c \in Call, Update(t, c), Fits(c, target[t]),
           UNCHANGED sharedVars
    PROVE  Typed'
BY OneMovesStill DEF Typed, TypeOK, sharedVars, counters

LEMMA ReturnTyped ==
    ASSUME Typed, NEW t \in Threads, Return(t), UNCHANGED sharedVars
    PROVE  Typed'
BY IdleFits, RecordTyped

LEMMA RecordKnown ==
    ASSUME Typed, NEW t \in Threads
    PROVE  /\ call[t] \in Call /\ Fits(call[t], target[t])
           /\ call[t].cmd \in Commands /\ call[t].step \in Steps /\ call[t].key \in Nat
           /\ call[t].job \in Jobs /\ call[t].path \in Names /\ call[t].env \in Draft
           /\ call[t].env.pass \in Pass \cup {0} /\ call[t].env.body \subseteq Edits
           /\ call[t].note \in Note /\ call[t].old \in Envelope \cup Marks
<1>1. call[t] \in Call /\ Fits(call[t], target[t]) BY DEF Typed, TypeOK, AllFit
<1> QED BY <1>1 DEF Call, Draft

LEMMA SnapshotTyped == ASSUME Typed, NEW t \in Threads, Snapshot(t) PROVE Typed'
<1> DEFINE c == [call[t] EXCEPT !.step = "load", !.env.body = session]
<1>1. CASE session = Locked BY <1>1, ReturnTyped DEF Snapshot
<1>2. CASE session # Locked
    <2>1. session \subseteq Edits /\ Update(t, c) /\ UNCHANGED sharedVars /\ call[t].step = "snapshot"
        BY <1>2 DEF Snapshot, Typed, TypeOK
    <2>2. c \in Call BY <2>1, RecordKnown DEF Call, Draft, Steps
    <2>3. Fits(c, target[t])
        <3>1. /\ c.step = "load" /\ c.job = call[t].job /\ c.cmd = call[t].cmd
              /\ c.key = call[t].key /\ c.env.pass = call[t].env.pass /\ c.env.body = session
              /\ c.path = call[t].path
            BY RecordKnown DEF Call, Draft
        <3>2. c.path = "vault" /\ c.job = "vault" BY <2>1, <3>1, RecordKnown DEF Fits
        <3> QED BY <3>1, <3>2, RecordKnown DEF Fits, SaveSteps
    <2> QED BY <2>1, <2>2, <2>3, RecordTyped
<1> QED BY <1>1, <1>2

LEMMA LoadTyped == ASSUME Typed, NEW t \in Threads, Load(t) PROVE Typed'
<1> DEFINE c == call[t]
           found == disk["vault"]
<1>0. /\ call[t].step = "load" /\ UNCHANGED sharedVars /\ c \in Call /\ Fits(c, target[t])
      /\ c.env \in Draft /\ c.env.body \subseteq Edits
    BY RecordKnown DEF Load
<1>1. CASE Return(t) BY <1>0, <1>1, ReturnTyped
<1>2. CASE found \in Envelope /\ c.cmd \in {"set", "rotate"}
           /\ Update(t, [c EXCEPT !.step = "create", !.env = Reseal(c, found)])
    <2> DEFINE d == [c EXCEPT !.step = "create", !.env = Reseal(c, found)]
    <2>1. Reseal(c, found) \in Envelope BY <1>0, <1>2 DEF Reseal, Envelope, Fits
    <2>2. Reseal(c, found) \in Draft BY <2>1 DEF Envelope, Draft
    <2>3. d \in Call BY <1>0, <2>2 DEF Call, Steps
    <2>4. /\ d.step = "create" /\ d.env = Reseal(c, found) /\ d.job = c.job /\ d.cmd = c.cmd
          /\ d.key = c.key /\ d.path = c.path
        BY <1>0 DEF Call
    <2>5. d.path = "vault" /\ d.job = "vault" BY <1>0, <2>4 DEF Fits
    <2>6. d.cmd = "rotate" => d.env.pass \in Pass BY <2>1, <2>4 DEF Envelope
    <2>7. d.cmd = "set" => d.key \in Edits BY <1>0, <2>4 DEF Fits
    <2>8. Fits(d, target[t]) BY <2>1, <2>4, <2>5, <2>6, <2>7 DEF Fits, SaveSteps
    <2> QED BY <1>0, <1>2, <2>3, <2>8, RecordTyped
<1>3. CASE found \in Envelope /\ c.cmd \notin {"set", "rotate"}
           /\ Update(t, [c EXCEPT !.step = "note", !.job = "unlock", !.path = "meta", !.env = found])
    <2> DEFINE d == [c EXCEPT !.step = "note", !.job = "unlock", !.path = "meta", !.env = found]
    <2>1. d \in Call BY <1>0, <1>3 DEF Call, Steps, Jobs, Draft, Envelope
    <2>2. Fits(d, target[t]) BY <1>0, <1>3 DEF Call, Fits, SaveSteps
    <2> QED BY <1>0, <1>3, <2>1, <2>2, RecordTyped
<1>4. CASE found \in Envelope /\ c.cmd \notin {"set", "rotate"}
           /\ Update(t, [c EXCEPT !.step = "judge", !.env = found])
    <2> DEFINE d == [c EXCEPT !.step = "judge", !.env = found]
    <2>1. d \in Call BY <1>0, <1>4 DEF Call, Steps, Draft, Envelope
    <2>2. Fits(d, target[t]) BY <1>0, <1>4 DEF Call, Fits, SaveSteps
    <2> QED BY <1>0, <1>4, <2>1, <2>2, RecordTyped
<1> QED BY <1>1, <1>2, <1>3, <1>4 DEF Load, Sealed

LEMMA JudgeTyped == ASSUME Typed, NEW t \in Threads, Judge(t) PROVE Typed'
<1> DEFINE d == [call[t] EXCEPT !.step = "note", !.job = "tamper", !.path = "meta"]
<1>1. CASE Return(t) BY <1>1, ReturnTyped DEF Judge
<1>2. CASE Update(t, d)
    <2>1. d \in Call BY RecordKnown DEF Call, Steps, Jobs
    <2>2. Fits(d, target[t]) BY RecordKnown DEF Call, Fits, SaveSteps
    <2> QED BY <1>2, <2>1, <2>2, RecordTyped DEF Judge
<1> QED BY <1>1, <1>2 DEF Judge

-----------------------------------------------------------------------------
(* Writing *)

\* A step that only moves to another step of the same write.
LEMMA StepFits ==
    ASSUME Typed, NEW t \in Threads, NEW s \in SaveSteps, call[t].step \in SaveSteps,
           NEW handle \in Names \cup {NoName},
           s \in {"backup", "copy"} => call[t].path = "vault",
           s = "write" => handle \in {call[t].path, TmpPath[call[t].path], NoName}
    PROVE  [call[t] EXCEPT !.step = s] \in Call /\ Fits([call[t] EXCEPT !.step = s], handle)
<1> DEFINE d == [call[t] EXCEPT !.step = s]
<1>1. d \in Call BY RecordKnown DEF Call, Steps, SaveSteps
<1>2. /\ d.step = s /\ d.job = call[t].job /\ d.cmd = call[t].cmd /\ d.key = call[t].key
      /\ d.path = call[t].path /\ d.env = call[t].env
    BY RecordKnown DEF Call
<1>3. Fits(call[t], target[t]) BY RecordKnown
<1>4. Fits(d, handle) BY <1>2, <1>3 DEF Fits, SaveSteps
<1> QED BY <1>1, <1>4

\* A file gets content of its kind.
LEMMA DiskTyped ==
    ASSUME Typed, NEW n \in Names, NEW c,
           c \in Marks \/ (n \in VaultNames /\ c \in Envelope) \/ (n \notin VaultNames /\ c \in Note)
    PROVE  LET d == [disk EXCEPT ![n] = c]
           IN  /\ d \in [Names -> Envelope \cup Note \cup Marks]
               /\ \A m \in VaultNames : d[m] \in Envelope \cup Marks
               /\ \A m \in Names \ VaultNames : d[m] \in Note \cup Marks
BY DEF Typed, TypeOK

LEMMA CreateTyped == ASSUME Typed, NEW t \in Threads, Create(t) PROVE Typed'
<1> DEFINE f == call[t].path
           d == [call[t] EXCEPT !.step = "write"]
<1>0. /\ call[t].step = "create" /\ f \in Files /\ Update(t, d) /\ UNCHANGED stillVars
      /\ disk' = [disk EXCEPT ![TmpPath[f]] = Empty]
      /\ target' = [target EXCEPT ![t] = TmpPath[f]]
    BY RecordKnown DEF Create, CreateTmp, Fits, SaveSteps
<1>1. target \in [Threads -> Names \cup {NoName}] BY DEF Typed, TypeOK
<1>2. target' \in [Threads -> Names \cup {NoName}] /\ target'[t] = TmpPath[f]
    BY <1>0, <1>1
<1>3. d \in Call /\ Fits(d, target'[t])
    <2> "write" \in SaveSteps /\ call[t].step \in SaveSteps BY <1>0 DEF SaveSteps
    <2> QED BY <1>0, <1>2, StepFits
<1>4. ASSUME NEW u \in Threads \ {t}, call[u].step = "write"
      PROVE  target'[u] \in {call[u].path, TmpPath[call[u].path], NoName}
    BY <1>0, <1>1, <1>4 DEF Typed, AllFit, Fits
<1>5. call' \in [Threads -> Call] /\ AllFit' BY <1>0, <1>2, <1>3, <1>4, OneMoves
<1>6. TmpPath[f] \in Names /\ Empty \in Marks BY <1>0
<1> QED BY <1>0, <1>2, <1>5, <1>6, DiskTyped DEF Typed, TypeOK, stillVars, counters

LEMMA WriteTyped == ASSUME Typed, NEW t \in Threads, Write(t) PROVE Typed'
<1> DEFINE c == call[t]
           s == IF c.path = "vault" THEN "backup" ELSE "rename"
           d == [c EXCEPT !.step = s]
           bytes == IF c.path = "vault" THEN c.env ELSE c.note
<1>0. /\ call[t].step = "write" /\ c.path \in Files /\ Update(t, d) /\ UNCHANGED stillVars
      /\ WriteTmp(t, c.path, bytes)
    BY RecordKnown DEF Write, Fits, SaveSteps
<1>1. target \in [Threads -> Names \cup {NoName}] BY DEF Typed, TypeOK
<1>2. target' \in [Threads -> Names \cup {NoName}] /\ target'[t] = NoName
    BY <1>0, <1>1 DEF WriteTmp
<1>3. d \in Call /\ Fits(d, target'[t])
    <2> s \in SaveSteps /\ s # "write" /\ call[t].step \in SaveSteps BY <1>0 DEF SaveSteps
    <2> QED BY <1>2, StepFits
<1>4. ASSUME NEW u \in Threads \ {t}, call[u].step = "write"
      PROVE  target'[u] \in {call[u].path, TmpPath[call[u].path], NoName}
    BY <1>0, <1>1, <1>4 DEF Typed, AllFit, Fits, WriteTmp
<1>5. call' \in [Threads -> Call] /\ AllFit' BY <1>0, <1>2, <1>3, <1>4, OneMoves
<1>6. /\ disk' \in [Names -> Envelope \cup Note \cup Marks]
      /\ \A m \in VaultNames : disk'[m] \in Envelope \cup Marks
      /\ \A m \in Names \ VaultNames : disk'[m] \in Note \cup Marks
    <2>1. CASE target[t] = NoName BY <1>0, <2>1 DEF WriteTmp, Typed, TypeOK
    <2>2. CASE target[t] # NoName
        <3>1. PICK b \in Overwrite(disk[target[t]], bytes) : disk' = [disk EXCEPT ![target[t]] = b]
            BY <1>0, <2>2 DEF WriteTmp
        <3>2. b = bytes \/ b = Torn BY <3>1 DEF Overwrite
        <3>3. target[t] \in Names /\ target[t] \in {c.path, TmpPath[c.path]}
            BY <1>0, <1>1, <2>2, RecordKnown DEF Fits
        <3>4. c.path = "vault" => target[t] \in VaultNames /\ bytes \in Envelope
            BY <1>0, <3>3, RecordKnown DEF Fits, SaveSteps
        <3>5. c.path # "vault" => target[t] \notin VaultNames /\ bytes \in Note
            BY <1>0, <3>3, RecordKnown
        <3>6. \/ b \in Marks \/ (target[t] \in VaultNames /\ b \in Envelope)
              \/ (target[t] \notin VaultNames /\ b \in Note)
            BY <3>2, <3>4, <3>5
        <3> QED BY <3>1, <3>3, <3>6, DiskTyped
    <2> QED BY <2>1, <2>2
<1> QED BY <1>0, <1>2, <1>5, <1>6 DEF Typed, TypeOK, stillVars, counters

LEMMA StartBackupTyped == ASSUME Typed, NEW t \in Threads, StartBackup(t) PROVE Typed'
<1>0. /\ call[t].step = "backup" /\ UNCHANGED stillVars /\ call[t].path = "vault"
      /\ target \in [Threads -> Names \cup {NoName}]
    BY RecordKnown DEF StartBackup, Fits, Typed, TypeOK
<1> call[t].step \in SaveSteps /\ "rename" \in SaveSteps /\ "copy" \in SaveSteps
    BY <1>0 DEF SaveSteps
<1> target[t] \in Names \cup {NoName} BY <1>0
<1>1. CASE disk["vault"] = Absent
    <2> DEFINE d == [call[t] EXCEPT !.step = "rename"]
    <2>1. UNCHANGED <<disk, target>> /\ Update(t, d) BY <1>1 DEF StartBackup
    <2>2. d \in Call /\ Fits(d, target[t]) BY StepFits
    <2>3. UNCHANGED sharedVars BY <1>0, <2>1 DEF sharedVars, stillVars
    <2> QED BY <2>1, <2>2, <2>3, RecordTyped
<1>2. CASE disk["vault"] # Absent
    <2> DEFINE d == [call[t] EXCEPT !.step = "copy"]
               e == [call[t] EXCEPT !.step = "copy", !.old = disk["vault"]]
    <2>1. OpenBackup /\ Update(t, e) BY <1>2 DEF StartBackup
    <2>2. d \in Call /\ Fits(d, target[t]) BY <1>0, StepFits
    <2>3. disk["vault"] \in Envelope \cup Marks BY DEF Typed, TypeOK
    <2>4. e \in Call BY <2>3, RecordKnown DEF Call, Steps
    <2>5. /\ e.step = d.step /\ e.job = d.job /\ e.cmd = d.cmd /\ e.key = d.key
          /\ e.path = d.path /\ e.env = d.env
        BY RecordKnown DEF Call
    <2>6. Fits(e, target[t]) BY <2>2, <2>5 DEF Fits
    <2>7. call' \in [Threads -> Call] /\ AllFit'
        BY <2>1, <2>4, <2>6, OneMovesStill DEF OpenBackup
    <2> QED BY <1>0, <2>1, <2>7, DiskTyped DEF OpenBackup, Typed, TypeOK, stillVars, counters
<1> QED BY <1>1, <1>2

LEMMA CopyBackupTyped == ASSUME Typed, NEW t \in Threads, CopyBackup(t) PROVE Typed'
<1> DEFINE d == [call[t] EXCEPT !.step = "rename"]
<1>0. /\ call[t].step = "copy" /\ UNCHANGED stillVars /\ FillBackup(call[t].old) /\ Update(t, d)
      /\ target[t] \in Names \cup {NoName}
    BY DEF CopyBackup, Typed, TypeOK
<1> call[t].step \in SaveSteps /\ "rename" \in SaveSteps BY <1>0 DEF SaveSteps
<1>1. d \in Call /\ Fits(d, target[t]) BY <1>0, StepFits
<1>2. call' \in [Threads -> Call] /\ AllFit' BY <1>0, <1>1, OneMovesStill DEF FillBackup
<1>3. call[t].old \in Envelope \cup Marks BY RecordKnown
<1> QED BY <1>0, <1>2, <1>3, DiskTyped DEF FillBackup, Typed, TypeOK, stillVars, counters

\* After the metadata, a command goes on to the next file, the answer or the end.
LEMMA AfterNoteFits ==
    ASSUME Typed, NEW t \in Threads
    PROVE  /\ call[t].path = "meta" => AfterNote(call[t]) \in Call
           /\ call[t].path = "meta" => \A handle : Fits(AfterNote(call[t]), handle)
<1> DEFINE c == call[t]
<1> SUFFICES ASSUME c.path = "meta"
             PROVE  AfterNote(c) \in Call /\ \A handle : Fits(AfterNote(c), handle)
    OBVIOUS
<1>0. c \in Call /\ Fits(c, target[t]) BY RecordKnown
<1> HIDE DEF c
<1>1. CASE AfterNote(c) = [c EXCEPT !.step = "note", !.job = "count"]
    BY <1>0, <1>1 DEF Call, Steps, Jobs, Fits, SaveSteps
<1>2. CASE AfterNote(c) = [c EXCEPT !.step = "zero", !.job = "vault", !.path = "vault"]
    BY <1>0, <1>2 DEF Call, Steps, Jobs, Fits, SaveSteps
<1>3. CASE AfterNote(c) = Idle BY <1>3, IdleFits
<1>4. CASE AfterNote(c) = [c EXCEPT !.step = "reply"]
    BY <1>0, <1>4 DEF Call, Steps, Fits, SaveSteps
<1> QED BY <1>1, <1>2, <1>3, <1>4 DEF AfterNote

\* What a failing call leaves in the record of its thread.
LEMMA GiveUpFits ==
    ASSUME Typed, NEW t \in Threads, GiveUp(t)
    PROVE  \E c \in Call : Update(t, c) /\ \A handle : Fits(c, handle)
<1>1. CASE BestEffort(call[t])
    BY <1>1, AfterNoteFits DEF GiveUp, BestEffort
<1>2. CASE ~BestEffort(call[t]) BY <1>2, IdleFits DEF GiveUp
<1> QED BY <1>1, <1>2

LEMMA RenameTyped == ASSUME Typed, NEW t \in Threads, RenameTmp(t) PROVE Typed'
<1> DEFINE c == call[t]
           f == c.path
<1>0. c.step = "rename" /\ f \in Files /\ UNCHANGED stillVars
    BY RecordKnown DEF RenameTmp, Fits, SaveSteps
<1>1. CASE ~CanRename(f)
    <2>1. GiveUp(t) /\ UNCHANGED <<disk, target>> BY <1>1 DEF RenameTmp
    <2>2. UNCHANGED sharedVars BY <1>0, <2>1 DEF sharedVars, stillVars
    <2> QED BY <2>1, <2>2, GiveUpFits, RecordTyped
<1>2. CASE CanRename(f)
    <2> DEFINE d == IF f = "vault" THEN [c EXCEPT !.step = "note", !.job = "seal", !.path = "meta"]
                    ELSE AfterNote(c)
    <2>1. Rename(f) /\ Update(t, d) BY <1>2 DEF RenameTmp
    <2>2. d \in Call /\ \A handle : Fits(d, handle)
        <3>1. CASE f = "vault"
            <4>1. c \in Call /\ Fits(c, target[t]) /\ c.env \in Envelope
                BY <1>0, <3>1, RecordKnown DEF Fits, SaveSteps
            <4> QED BY <3>1, <4>1 DEF Call, Steps, Jobs, Fits, SaveSteps
        <3>2. CASE f # "vault" BY <1>0, <3>2, AfterNoteFits
        <3> QED BY <3>1, <3>2
    <2>3. target \in [Threads -> Names \cup {NoName}] BY DEF Typed, TypeOK
    <2>4. target' \in [Threads -> Names \cup {NoName}] BY <1>0, <2>1, <2>3 DEF Rename
    <2>5. ASSUME NEW u \in Threads \ {t}, call[u].step = "write"
          PROVE  target'[u] \in {call[u].path, TmpPath[call[u].path], NoName}
        <3>1. target[u] \in {call[u].path, TmpPath[call[u].path], NoName} /\ call[u].path \in Files
            BY <2>5 DEF Typed, AllFit, Fits, SaveSteps
        <3>2. NoName \notin Names BY VaultAssumption
        <3> QED BY <1>0, <2>1, <2>3, <3>1, <3>2 DEF Rename
    <2>6. call' \in [Threads -> Call] /\ AllFit' BY <2>1, <2>2, <2>4, <2>5, OneMoves
    <2>7. /\ disk' \in [Names -> Envelope \cup Note \cup Marks]
          /\ \A m \in VaultNames : disk'[m] \in Envelope \cup Marks
          /\ \A m \in Names \ VaultNames : disk'[m] \in Note \cup Marks
        BY <1>0, <2>1 DEF Rename, Typed, TypeOK
    <2> QED BY <1>0, <2>4, <2>6, <2>7 DEF Typed, TypeOK, stillVars, counters
<1> QED BY <1>1, <1>2

LEMMA AmendTyped ==
    ASSUME NEW c \in Call, NEW m \in Note, c.job = "seal" => c.env \in Envelope
    PROVE  Amend(c, m) \in Note
BY DEF Amend, Note

LEMMA ReadNoteTyped == ASSUME Typed, NEW t \in Threads, ReadNote(t) PROVE Typed'
<1> DEFINE c == call[t]
           found == IF disk["meta"] \in Note THEN disk["meta"] ELSE NewNote
<1>0. /\ c.step = "note" /\ c \in Call /\ Fits(c, target[t])
      /\ UNCHANGED <<disk, target, session, edits, passes, crashes, acked>>
    BY RecordKnown DEF ReadNote
<1>1. found \in Note /\ NewNote \in Note BY DEF Note, NewNote
<1>2. ASSUME NEW m \in Note, Update(t, [c EXCEPT !.step = "create", !.note = Amend(c, m)])
      PROVE  call' \in [Threads -> Call] /\ AllFit'
    <2> DEFINE d == [c EXCEPT !.step = "create", !.note = Amend(c, m)]
    <2>1. Amend(c, m) \in Note BY <1>0, AmendTyped DEF Fits
    <2>2. d \in Call BY <1>0, <2>1 DEF Call, Steps
    <2>3. Fits(d, target[t]) BY <1>0 DEF Call, Fits, SaveSteps
    <2> QED BY <1>0, <1>2, <2>2, <2>3, OneMovesStill
<1>3. CASE /\ Update(t, [c EXCEPT !.step = "create", !.note = Amend(c, found)])
           /\ UNCHANGED faults
    <2>1. call' \in [Threads -> Call] /\ AllFit' BY <1>1, <1>2, <1>3
    <2> QED BY <1>0, <1>3, <2>1 DEF Typed, TypeOK
<1>4. CASE /\ faults < MaxFaults /\ faults' = faults + 1
           /\ Update(t, [c EXCEPT !.step = "create", !.note = Amend(c, NewNote)])
    <2>1. call' \in [Threads -> Call] /\ AllFit' BY <1>1, <1>2, <1>4
    <2>2. faults' \in 0..MaxFaults BY <1>4, VaultAssumption DEF Typed, TypeOK
    <2> QED BY <1>0, <2>1, <2>2 DEF Typed, TypeOK
<1> QED BY <1>3, <1>4 DEF ReadNote

-----------------------------------------------------------------------------
(* Destroying, answering, failing *)

LEMMA NextWipeFits ==
    ASSUME Typed, NEW t \in Threads, call[t].step \in {"zero", "unlink"}
    PROVE  NextWipe(call[t]) \in Call /\ \A handle : Fits(NextWipe(call[t]), handle)
<1> DEFINE c == call[t]
<1>0. c \in Call /\ Fits(c, target[t]) BY RecordKnown
<1>1. ASSUME NEW n \in Names, NextWipe(c) = [c EXCEPT !.step = "zero", !.path = n]
      PROVE  NextWipe(c) \in Call /\ \A handle : Fits(NextWipe(c), handle)
    BY <1>0, <1>1 DEF Call, Steps, Fits, SaveSteps
<1>2. CASE NextWipe(c) = [c EXCEPT !.step = "reply"]
    <2> DEFINE d == [c EXCEPT !.step = "reply"]
    <2>1. d \in Call BY <1>0 DEF Call, Steps
    <2>2. \A handle : Fits(d, handle) BY <1>0 DEF Call, Fits, SaveSteps
    <2> QED BY <1>2, <2>1, <2>2
<1>3. \/ \E n \in Names : NextWipe(c) = [c EXCEPT !.step = "zero", !.path = n]
      \/ NextWipe(c) = [c EXCEPT !.step = "reply"]
    BY DEF NextWipe
<1> QED BY <1>1, <1>2, <1>3

LEMMA WipeZeroTyped == ASSUME Typed, NEW t \in Threads, WipeZero(t) PROVE Typed'
<1> DEFINE c == call[t]
<1>0. /\ c.step = "zero" /\ c.path \in Names /\ c \in Call /\ Fits(c, target[t])
      /\ UNCHANGED <<session, counters>> /\ acked' \in {acked, {}}
    BY RecordKnown DEF WipeZero
<1>1. CASE disk[c.path] = Absent
    <2>1. Update(t, NextWipe(c)) /\ UNCHANGED <<disk, target>> BY <1>1 DEF WipeZero
    <2>2. NextWipe(c) \in Call /\ Fits(NextWipe(c), target[t]) BY <1>0, NextWipeFits
    <2>3. call' \in [Threads -> Call] /\ AllFit' BY <2>1, <2>2, OneMovesStill
    <2> QED BY <1>0, <2>1, <2>3 DEF Typed, TypeOK, counters
<1>2. CASE disk[c.path] # Absent
    <2> DEFINE d == [c EXCEPT !.step = "unlink"]
    <2>1. Update(t, d) /\ Zero(c.path) BY <1>2 DEF WipeZero
    <2>2. d \in Call BY <1>0 DEF Call, Steps
    <2>3. Fits(d, target[t]) BY <1>0 DEF Call, Fits, SaveSteps
    <2>4. call' \in [Threads -> Call] /\ AllFit' BY <2>1, <2>2, <2>3, OneMovesStill DEF Zero
    <2>5. PICK b \in {disk[c.path], Torn} : disk' = [disk EXCEPT ![c.path] = b]
        BY <2>1 DEF Zero
    <2>6. \/ b \in Marks \/ (c.path \in VaultNames /\ b \in Envelope)
          \/ (c.path \notin VaultNames /\ b \in Note)
        BY <1>0 DEF Typed, TypeOK
    <2>7. /\ disk' \in [Names -> Envelope \cup Note \cup Marks]
          /\ \A m \in VaultNames : disk'[m] \in Envelope \cup Marks
          /\ \A m \in Names \ VaultNames : disk'[m] \in Note \cup Marks
        BY <1>0, <2>5, <2>6, DiskTyped
    <2> QED BY <1>0, <2>1, <2>4, <2>7 DEF Typed, TypeOK, counters, Zero
<1> QED BY <1>1, <1>2

LEMMA WipeUnlinkTyped == ASSUME Typed, NEW t \in Threads, WipeUnlink(t) PROVE Typed'
<1> DEFINE c == call[t]
<1>0. /\ c.step = "unlink" /\ c.path \in Names /\ Unlink(c.path) /\ Update(t, NextWipe(c))
      /\ UNCHANGED <<session, counters>> /\ acked' \in {acked, {}}
    BY RecordKnown DEF WipeUnlink
<1>1. NextWipe(c) \in Call /\ \A handle : Fits(NextWipe(c), handle) BY <1>0, NextWipeFits
<1>2. target \in [Threads -> Names \cup {NoName}] BY DEF Typed, TypeOK
<1>3. target' \in [Threads -> Names \cup {NoName}] BY <1>0, <1>2 DEF Unlink
<1>4. ASSUME NEW u \in Threads \ {t}, call[u].step = "write"
      PROVE  target'[u] \in {call[u].path, TmpPath[call[u].path], NoName}
    BY <1>0, <1>2, <1>4 DEF Unlink, Typed, AllFit, Fits
<1>5. call' \in [Threads -> Call] /\ AllFit' BY <1>0, <1>1, <1>3, <1>4, OneMoves
<1>6. /\ disk' \in [Names -> Envelope \cup Note \cup Marks]
      /\ \A m \in VaultNames : disk'[m] \in Envelope \cup Marks
      /\ \A m \in Names \ VaultNames : disk'[m] \in Note \cup Marks
    BY <1>0, DiskTyped DEF Unlink
<1> QED BY <1>0, <1>3, <1>5, <1>6 DEF Typed, TypeOK, counters

LEMMA ReplyTyped == ASSUME Typed, NEW t \in Threads, Reply(t) PROVE Typed'
<1> DEFINE c == call[t]
<1>0. /\ Return(t) /\ UNCHANGED <<disk, target, counters>>
      /\ c.env.body \subseteq Edits /\ (c.cmd = "set" => c.key \in Edits)
    BY RecordKnown DEF Reply, Fits
<1>1. call' \in [Threads -> Call] /\ AllFit' BY <1>0, IdleFits, OneMovesStill
<1>2. session' \in {c.env.body, Locked, session} BY DEF Reply
<1>3. acked' \subseteq Edits BY <1>0 DEF Reply, Typed, TypeOK
<1>4. session' = Locked \/ session' \subseteq Edits BY <1>0, <1>2 DEF Typed, TypeOK
<1> QED BY <1>0, <1>1, <1>3, <1>4 DEF Typed, TypeOK, counters

LEMMA FailTyped == ASSUME Typed, NEW t \in Threads, Fail(t) PROVE Typed'
<1>0. /\ faults < MaxFaults /\ faults' = faults + 1 /\ GiveUp(t)
      /\ target' = [target EXCEPT ![t] = NoName]
      /\ UNCHANGED <<disk, session, edits, passes, crashes, acked>>
    BY DEF Fail
<1>1. PICK c \in Call : Update(t, c) /\ \A handle : Fits(c, handle) BY <1>0, GiveUpFits
<1>2. target \in [Threads -> Names \cup {NoName}] BY DEF Typed, TypeOK
<1>3. target' \in [Threads -> Names \cup {NoName}] BY <1>0, <1>2
<1>4. ASSUME NEW u \in Threads \ {t}, call[u].step = "write"
      PROVE  target'[u] \in {call[u].path, TmpPath[call[u].path], NoName}
    BY <1>0, <1>2, <1>4 DEF Typed, AllFit, Fits
<1>5. call' \in [Threads -> Call] /\ AllFit' BY <1>1, <1>3, <1>4, OneMoves
<1>6. faults' \in 0..MaxFaults BY <1>0, VaultAssumption DEF Typed, TypeOK
<1> QED BY <1>0, <1>3, <1>5, <1>6 DEF Typed, TypeOK

LEMMA CrashTyped == ASSUME Typed, Crash PROVE Typed'
<1>1. /\ call' \in [Threads -> Call] /\ AllFit' /\ target' \in [Threads -> Names \cup {NoName}]
    BY IdleFits DEF Crash, AllFit
<1>2. crashes' \in 0..MaxCrashes BY VaultAssumption DEF Crash, Typed, TypeOK
<1> QED BY <1>1, <1>2 DEF Crash, Typed, TypeOK

LEMMA LockTyped == ASSUME Typed, Lock PROVE Typed'
BY DEF Lock, Typed, TypeOK, AllFit, counters

-----------------------------------------------------------------------------
LEMMA InitTyped == Init => Typed
<1> SUFFICES ASSUME Init PROVE Typed OBVIOUS
<1>1. call \in [Threads -> Call] /\ AllFit BY IdleFits DEF Init, AllFit
<1> QED BY <1>1, VaultAssumption DEF Init, Typed, TypeOK

LEMMA NextTyped == Typed /\ [Next]_vars => Typed'
<1> SUFFICES ASSUME Typed, [Next]_vars PROVE Typed' OBVIOUS
<1>1. ASSUME NEW t \in Threads, CommandSteps(t) PROVE Typed'
    BY <1>1, SnapshotTyped, LoadTyped, JudgeTyped, CreateTyped, WriteTyped, StartBackupTyped,
       CopyBackupTyped, RenameTyped, ReadNoteTyped, WipeZeroTyped, WipeUnlinkTyped,
       ReplyTyped, FailTyped DEF CommandSteps
<1>2. CASE UNCHANGED vars BY <1>2 DEF vars, Typed, TypeOK, AllFit
<1> QED BY <1>1, <1>2, StartsTyped, CrashTyped, LockTyped DEF Next

\* Every variable keeps its type, and what a command is about to write or to
\* record is a complete envelope: whatever commands overlap, fail or crash, no
\* step of commands.rs and store.rs reads a record it did not fill.
THEOREM VaultTypeCorrect == Spec => []TypeOK
<1>1. Spec => []Typed BY InitTyped, NextTyped, PTL DEF Spec
<1>2. Typed => TypeOK BY DEF Typed
<1> QED BY <1>1, <1>2, PTL
=============================================================================
