---------------------------- MODULE DesktopProofs ----------------------------
(***************************************************************************)
(* The session, the Drive client and the stop switch, for any number of    *)
(* threads, credentials, folders and markers.                              *)
(***************************************************************************)
EXTENDS Desktop, TLAPS

USE DEF At, Update, UsesDrive

\* What a call holds at each step, given what the session holds: until drive()
\* has returned, every credential that the session has held since the call
\* began is among those it may use, and the one it copied is one of them.
Fits(c, s) ==
    /\ c.step \in {"save", "put"} => c.cmd = "stop"
    /\ c.step \in {"key", "cache"} => c.folder \in Folders
    /\ c.step = "save" \/ UsesDrive(c) => c.client = None
    /\ UsesDrive(c) /\ s \in Keys => s \in c.held
    /\ c.step = "cache" => c.key \in Keys /\ c.key \in c.held
    /\ c.step \in {"keep", "find", "put"} => c.client \in Client

Typed == TypeOK /\ \A p \in Pool : Fits(call[p], session)

\* A stop command that no other overlaps decides the switch and what is saved
\* of it; once it is answered, both say stop until the switch is touched.
\* A marker that is found stays in its folder.
Stops(c) == c.cmd = "stop"
StopInv ==
    /\ \A p, q \in Pool : Stops(call[p]) /\ Stops(call[q]) /\ call[p].alone => p = q
    /\ \A p \in Pool : LET c == call[p]
                       IN  Stops(c) /\ c.alone /\ c.on => flag /\ (c.step # "save" => flagFile)
    /\ stopped => /\ flag /\ flagFile
                  /\ \A p \in Pool : Stops(call[p]) => call[p].alone /\ call[p].on
    /\ \A p \in Pool : call[p].step = "put" /\ call[p].id # 0
                         => markers[call[p].client.folder] # <<>>
    /\ \A p \in Pool : Stops(call[p]) /\ call[p].alone => marked = None
    /\ MarkerSaysStop

-----------------------------------------------------------------------------
(* Types *)

LEMMA RecordKnown ==
    ASSUME Typed, NEW p \in Pool
    PROVE  /\ call[p] \in Call /\ Fits(call[p], session)
           /\ call[p].step \in {"idle", "open", "save", "folder", "key", "cache", "keep",
                                "find", "put", "post"}
           /\ call[p].on \in BOOLEAN /\ call[p].alone \in BOOLEAN
           /\ call[p].last \in BOOLEAN
           /\ call[p].held \subseteq Keys
BY DEF Typed, TypeOK, Call

\* The thread whose command moves is the only one whose record changes.
LEMMA OneMoves ==
    ASSUME Typed, NEW p \in Pool, NEW c \in Call, Update(p, c), Fits(c, session),
           UNCHANGED session
    PROVE  call' \in [Pool -> Call] /\ \A q \in Pool : Fits(call'[q], session')
<1>1. call \in [Pool -> Call] BY DEF Typed, TypeOK
<1>2. call' \in [Pool -> Call] /\ call'[p] = c BY <1>1
<1>3. \A q \in Pool \ {p} : call'[q] = call[q] BY <1>1
<1>4. ASSUME NEW q \in Pool PROVE Fits(call'[q], session')
    <2>1. CASE q = p BY <2>1, <1>2
    <2>2. CASE q # p
        <3>1. call'[q] = call[q] BY <2>2, <1>3
        <3>2. Fits(call[q], session) BY DEF Typed
        <3> QED BY <3>1, <3>2
    <2> QED BY <2>1, <2>2
<1> QED BY <1>2, <1>4

\* A record that has seen what the session holds differs in nothing else.
LEMMA SeesKnown ==
    ASSUME NEW c \in Call, NEW k
    PROVE  /\ Sees(c, k) \in Call
           /\ Sees(c, k).cmd = c.cmd /\ Sees(c, k).step = c.step /\ Sees(c, k).on = c.on
           /\ Sees(c, k).alone = c.alone /\ Sees(c, k).key = c.key
           /\ Sees(c, k).folder = c.folder /\ Sees(c, k).client = c.client
           /\ Sees(c, k).id = c.id
           /\ c.held \subseteq Sees(c, k).held
           /\ UsesDrive(c) /\ k \in Keys => k \in Sees(c, k).held
<1> DEFINE h == IF UsesDrive(c) THEN c.held \cup ({k} \cap Keys) ELSE c.held
<1>1. Sees(c, k) = [c EXCEPT !.held = h] BY DEF Sees, Call
<1>2. h \subseteq Keys /\ c.held \subseteq h /\ (UsesDrive(c) /\ k \in Keys => k \in h)
    BY DEF Call
<1> HIDE DEF h
<1> QED BY <1>1, <1>2 DEF Call

LEMMA SeesFits ==
    ASSUME NEW c \in Call, NEW s, Fits(c, s), NEW k
    PROVE  Fits(Sees(c, k), k)
<1> DEFINE d == Sees(c, k)
<1>1. /\ d.cmd = c.cmd /\ d.step = c.step /\ d.key = c.key /\ d.folder = c.folder
      /\ d.client = c.client /\ c.held \subseteq d.held
      /\ UsesDrive(c) /\ k \in Keys => k \in d.held
    BY SeesKnown
<1> HIDE DEF d
<1> QED BY <1>1 DEF Fits, d

LEMMA IdleFits == Idle \in Call /\ \A s : Fits(Idle, s)
BY DesktopAssumption DEF Idle, Call, Commands, Fits

\* The step of a call that opens no session and begins no drive().
LEMMA BeginFits ==
    ASSUME Typed, NEW p \in Pool, NEW c \in Call, c.client = None,
           c.step \in {"open", "folder", "post"}, Begin(p, c), UNCHANGED session
    PROVE  call' \in [Pool -> Call] /\ \A q \in Pool : Fits(call'[q], session')
<1> DEFINE d == Sees(c, session)
<1>1. /\ d \in Call /\ d.step = c.step /\ d.client = None
      /\ UsesDrive(c) /\ session \in Keys => session \in d.held
    BY SeesKnown
<1> HIDE DEF d
<1>2. Fits(d, session) BY <1>1 DEF Fits
<1>3. Update(p, d) BY DEF Begin, d
<1> QED BY <1>1, <1>2, <1>3, OneMoves

\* A session that changes is seen by every call inside drive().
LEMMA AllSee ==
    ASSUME Typed, NEW k \in Keys \cup {None}, session' = k,
           call' = [q \in Pool |-> call'[q]],
           \A q \in Pool : call'[q] \in {Idle, Sees(call[q], k)}
    PROVE  call' \in [Pool -> Call] /\ \A q \in Pool : Fits(call'[q], session')
<1>1. ASSUME NEW q \in Pool PROVE call'[q] \in Call /\ Fits(call'[q], k)
    <2>1. Sees(call[q], k) \in Call /\ Fits(Sees(call[q], k), k)
        BY RecordKnown, SeesKnown, SeesFits
    <2> QED BY <2>1, IdleFits
<1> QED BY <1>1

LEMMA LockFits ==
    ASSUME Typed, session' = Locked, call' = call
    PROVE  call' \in [Pool -> Call] /\ \A q \in Pool : Fits(call'[q], session')
<1>1. call \in [Pool -> Call] /\ Locked \notin Keys
    BY DesktopAssumption DEF Typed, TypeOK
<1>2. ASSUME NEW q \in Pool PROVE Fits(call[q], Locked)
    BY <1>1 DEF Typed, Fits
<1> QED BY <1>1, <1>2

LEMMA MainTyped == ASSUME Typed, AutoTask \/ MainThread PROVE Typed'
<1>0. Locked \in Keys \cup {Locked, None} /\ UNCHANGED <<flag, flagFile, markers, stopped, marked>>
    <2>1. EditSecret => UNCHANGED <<flag, flagFile, markers, stopped, marked>>
        BY DEF EditSecret, switchVars
    <2>2. AutoLock \/ AutoForget \/ VaultLock \/ ForgetDrive \/ ConfigSet
            => UNCHANGED <<flag, flagFile, markers, stopped, marked>>
        BY DEF AutoLock, AutoForget, VaultLock, ForgetDrive, ConfigSet, switchVars
    <2> QED BY <2>1, <2>2 DEF AutoTask, MainThread
<1>1. CASE AutoLock \/ VaultLock
    <2>1. session' = Locked /\ call' = call BY <1>1 DEF AutoLock, VaultLock
    <2>2. call' \in [Pool -> Call] /\ \A q \in Pool : Fits(call'[q], session')
        BY <2>1, LockFits
    <2> QED BY <1>0, <1>1, <2>1, <2>2 DEF AutoLock, VaultLock, Typed, TypeOK
<1>2. CASE AutoForget \/ ForgetDrive \/ ConfigSet
    BY <1>0, <1>2 DEF AutoForget, ForgetDrive, ConfigSet, Typed, TypeOK
<1>3. CASE EditSecret
    <2>1. PICK k \in Keys \cup {None} :
              session' = k /\ call' = [p \in Pool |-> Sees(call[p], k)]
        BY <1>3 DEF EditSecret
    <2>2. /\ call' = [q \in Pool |-> call'[q]]
          /\ \A q \in Pool : call'[q] \in {Idle, Sees(call[q], k)}
        BY <2>1
    <2>3. call' \in [Pool -> Call] /\ \A q \in Pool : Fits(call'[q], session')
        BY <2>1, <2>2, AllSee
    <2>4. UNCHANGED <<folder, cache, main, auto>> BY <1>3 DEF EditSecret
    <2>5. session' \in Keys \cup {Locked, None} BY <2>1
    <2> QED BY <1>0, <2>3, <2>4, <2>5 DEF Typed, TypeOK
<1> QED BY <1>1, <1>2, <1>3 DEF AutoTask, MainThread

\* Locking and unlocking, reading, dispatching.
LEMMA BeginTyped ==
    ASSUME Typed, NEW p \in Pool, VaultUnlock(p) \/ DriveRead(p) \/ NodeDispatch(p)
    PROVE  Typed'
<1>1. UNCHANGED <<session, cache, appVars, switchVars>>
    BY DEF VaultUnlock, DriveRead, NodeDispatch
<1>2. PICK cmd \in {"unlock", "read", "dispatch"}, step \in {"open", "folder", "post"} :
          Begin(p, [Idle EXCEPT !.cmd = cmd, !.step = step])
    BY DEF VaultUnlock, DriveRead, NodeDispatch
<1> DEFINE c == [Idle EXCEPT !.cmd = cmd, !.step = step]
<1>3. c \in Call /\ c.client = None /\ c.step = step BY IdleFits DEF Idle, Call, Commands
<1> HIDE DEF c
<1>4. call' \in [Pool -> Call] /\ \A q \in Pool : Fits(call'[q], session')
    BY <1>1, <1>2, <1>3, BeginFits DEF c
<1> QED BY <1>1, <1>4 DEF Typed, TypeOK, appVars, switchVars

LEMMA OpenTyped == ASSUME Typed, NEW p \in Pool, OpenSession(p) PROVE Typed'
<1>1. PICK k \in Keys \cup {None} :
          session' = k /\ call' = [q \in Pool |-> IF q = p THEN Idle ELSE Sees(call[q], k)]
    BY DEF OpenSession
<1>2. /\ call' = [q \in Pool |-> call'[q]]
      /\ \A q \in Pool : call'[q] \in {Idle, Sees(call[q], k)}
    BY <1>1
<1>3. call' \in [Pool -> Call] /\ \A q \in Pool : Fits(call'[q], session')
    BY <1>1, <1>2, AllSee
<1> QED BY <1>1, <1>3 DEF OpenSession, Typed, TypeOK, appVars, switchVars

LEMMA SetTyped == ASSUME Typed, NEW p \in Pool, SetKillSwitch(p) PROVE Typed'
<1>1. PICK on \in BOOLEAN :
          /\ flag' = on /\ stopped' = (stopped /\ on /\ Stopping = {}) /\ marked' = None
          /\ UNCHANGED <<session, cache, appVars, flagFile, markers>>
          /\ call' = [q \in Pool |->
                IF q = p THEN [Idle EXCEPT !.cmd = "stop", !.step = "save", !.on = on,
                                           !.alone = (Stopping = {})]
                ELSE [call[q] EXCEPT !.alone = (q \notin Stopping /\ @),
                                     !.last = (q \notin Stopping /\ @)]]
    BY DEF SetKillSwitch
<1>2. ASSUME NEW a \in BOOLEAN
      PROVE  LET c == [Idle EXCEPT !.cmd = "stop", !.step = "save", !.on = on, !.alone = a]
             IN  c \in Call /\ Fits(c, session)
    BY IdleFits DEF Idle, Call, Commands, Fits
<1>3. ASSUME NEW q \in Pool, NEW a \in BOOLEAN, NEW b \in BOOLEAN
      PROVE  LET c == [call[q] EXCEPT !.alone = a, !.last = b]
             IN  c \in Call /\ Fits(c, session)
    <2> DEFINE c == [call[q] EXCEPT !.alone = a, !.last = b]
    <2>1. call[q] \in Call /\ Fits(call[q], session) BY RecordKnown
    <2>2. c \in Call /\ c.cmd = call[q].cmd /\ c.step = call[q].step /\ c.key = call[q].key
          /\ c.folder = call[q].folder /\ c.client = call[q].client /\ c.held = call[q].held
        BY <2>1 DEF Call
    <2> HIDE DEF c
    <2>3. Fits(c, session) BY <2>1, <2>2 DEF Fits
    <2> QED BY <2>2, <2>3 DEF c
<1>4. ASSUME NEW q \in Pool PROVE call'[q] \in Call /\ Fits(call'[q], session)
    <2>1. CASE q = p BY <1>1, <1>2, <2>1
    <2>2. CASE q # p
        <3>1. call'[q] = [call[q] EXCEPT !.alone = (q \notin Stopping /\ call[q].alone),
                                         !.last = (q \notin Stopping /\ call[q].last)]
            BY <1>1, <2>2, RecordKnown DEF Call
        <3> QED BY <1>3, <3>1
    <2> QED BY <2>1, <2>2
<1>5. call' \in [Pool -> Call] BY <1>1, <1>4
<1> QED BY <1>1, <1>4, <1>5 DEF Typed, TypeOK, appVars

\* A step that ends its command or takes it one step further.
LEMMA RecordTyped ==
    ASSUME Typed, NEW p \in Pool, NEW c \in Call, Update(p, c), Fits(c, session),
           UNCHANGED <<session, folder, main, auto, flag>>,
           cache' \in Client \cup {None}, flagFile' \in BOOLEAN, stopped' \in BOOLEAN,
           marked' \in Folders \cup {None}, markers' \in [Folders -> Seq(Marker)],
           \A f \in Folders : Len(markers'[f]) <= MaxMarkers
    PROVE  Typed'
<1>1. call' \in [Pool -> Call] /\ \A q \in Pool : Fits(call'[q], session') BY OneMoves
<1> QED BY <1>1 DEF Typed, TypeOK

LEMMA AnswerTyped ==
    ASSUME Typed, NEW p \in Pool, NEW written \in BOOLEAN, Answer(p, written),
           written => call[p].client \in Client,
           UNCHANGED <<session, cache, folder, main, auto, flag, flagFile>>,
           markers' \in [Folders -> Seq(Marker)],
           \A f \in Folders : Len(markers'[f]) <= MaxMarkers
    PROVE  Typed'
<1>1. Update(p, Idle) /\ stopped' \in BOOLEAN BY DEF Answer, Typed, TypeOK
<1>2. marked' \in Folders \cup {None} BY DEF Answer, Typed, TypeOK, Client
<1>3. cache' \in Client \cup {None} /\ flagFile' \in BOOLEAN BY DEF Typed, TypeOK
<1> QED BY <1>1, <1>2, <1>3, IdleFits, RecordTyped

\* What most steps leave alone keeps its type.
LEMMA StillTyped ==
    ASSUME Typed, UNCHANGED <<cache, flagFile, markers, stopped, marked>>
    PROVE  /\ cache' \in Client \cup {None} /\ flagFile' \in BOOLEAN /\ stopped' \in BOOLEAN
           /\ marked' \in Folders \cup {None} /\ markers' \in [Folders -> Seq(Marker)]
           /\ \A f \in Folders : Len(markers'[f]) <= MaxMarkers
BY DEF Typed, TypeOK

LEMMA SaveFlagTyped == ASSUME Typed, NEW p \in Pool, SaveFlag(p) PROVE Typed'
<1> DEFINE c == call[p]
<1>0. c \in Call /\ c.step = "save" /\ c.cmd = "stop" BY RecordKnown DEF SaveFlag, Fits
<1>1. flagFile' \in BOOLEAN
    BY RecordKnown DEF SaveFlag, Saved, Typed, TypeOK
<1>2. PICK d \in Call : Update(p, d) /\ Fits(d, session)
    <2>1. CASE Update(p, Idle) BY <2>1, IdleFits
    <2>2. CASE Update(p, Sees([c EXCEPT !.step = "folder"], session))
        <3> DEFINE b == [c EXCEPT !.step = "folder"]
                   d == Sees(b, session)
        <3>1. b \in Call /\ b.step = "folder" /\ b.client = c.client BY <1>0 DEF Call
        <3> HIDE DEF b
        <3>2. d \in Call /\ d.step = "folder" /\ d.client = c.client
              /\ (session \in Keys => session \in d.held)
            BY <3>1, SeesKnown
        <3> HIDE DEF d
        <3>3. c.client = None BY <1>0, RecordKnown DEF Fits
        <3>4. Fits(d, session) BY <3>2, <3>3 DEF Fits
        <3> QED BY <2>2, <3>2, <3>4 DEF b, d
    <2> QED BY <2>1, <2>2 DEF SaveFlag
<1>3. UNCHANGED <<session, cache, folder, main, auto, flag, markers, stopped, marked>>
    BY DEF SaveFlag, appVars
<1>4. /\ cache' \in Client \cup {None} /\ stopped' \in BOOLEAN
      /\ marked' \in Folders \cup {None} /\ markers' \in [Folders -> Seq(Marker)]
      /\ \A f \in Folders : Len(markers'[f]) <= MaxMarkers
    BY <1>3 DEF Typed, TypeOK
<1> QED BY <1>1, <1>2, <1>3, <1>4, RecordTyped

LEMMA ReadFolderTyped ==
    ASSUME Typed, NEW p \in Pool, ReadFolder(p) \/ CopyKey(p)
    PROVE  Typed'
<1> DEFINE c == call[p]
<1>0. /\ UNCHANGED <<session, cache, folder, main, auto, flag, flagFile, markers>>
      /\ c \in Call /\ Fits(c, session) /\ c.step \in {"folder", "key"}
    BY RecordKnown DEF ReadFolder, CopyKey, appVars
<1>1. CASE Answer(p, FALSE)
    BY <1>0, <1>1, AnswerTyped DEF Typed, TypeOK
<1>2. ASSUME NEW d \in Call, Update(p, d), Fits(d, session), UNCHANGED <<stopped, marked>>
      PROVE  Typed'
    BY <1>0, <1>2, StillTyped, RecordTyped
<1>3. CASE folder # None /\ ReadFolder(p) /\ c.step = "folder"
    <2> DEFINE d == [c EXCEPT !.step = "key", !.folder = folder]
    <2>1. folder \in Folders BY <1>3 DEF Typed, TypeOK
    <2>2. d \in Call /\ d.step = "key" /\ d.folder = folder /\ d.client = c.client /\ d.held = c.held
        BY <1>0, <2>1 DEF Call
    <2>3. Update(p, d) /\ UNCHANGED <<stopped, marked>> BY <1>3 DEF ReadFolder
    <2> HIDE DEF d
    <2>4. Fits(d, session) BY <1>0, <1>3, <2>1, <2>2 DEF Fits
    <2> QED BY <1>2, <2>2, <2>3, <2>4
<1>4. CASE session \in Keys /\ CopyKey(p) /\ c.step = "key"
    <2> DEFINE d == [c EXCEPT !.step = "cache", !.key = session]
    <2>1. /\ d \in Call /\ d.step = "cache" /\ d.key = session /\ d.folder = c.folder
          /\ d.client = c.client /\ d.held = c.held
        BY <1>0, <1>4 DEF Call
    <2>2. Update(p, d) /\ UNCHANGED <<stopped, marked>> BY <1>4 DEF CopyKey
    <2> HIDE DEF d
    <2>3. Fits(d, session) BY <1>0, <1>4, <2>1 DEF Fits
    <2> QED BY <1>2, <2>1, <2>2, <2>3
<1> QED BY <1>1, <1>3, <1>4 DEF ReadFolder, CopyKey

LEMMA LookUpTyped == ASSUME Typed, NEW p \in Pool, LookUp(p) \/ Keep(p) PROVE Typed'
<1> DEFINE c == call[p]
<1>0. /\ UNCHANGED <<session, folder, main, auto, flag, flagFile, markers, stopped, marked>>
      /\ c \in Call /\ Fits(c, session) /\ c.step \in {"cache", "keep"}
      /\ c.folder \in Folders \cup {None} /\ c.key \in Keys \cup {None}
      /\ cache \in Client \cup {None}
    BY RecordKnown DEF LookUp, Keep, appVars, switchVars, Typed, TypeOK, Call
<1>1. ASSUME NEW d \in Call, Update(p, d), d.step \in {"keep", "find"}, d.client \in Client,
             cache' \in Client \cup {None}
      PROVE  Typed'
    <2>1. Fits(d, session) BY <1>1 DEF Fits
    <2>2. /\ flagFile' \in BOOLEAN /\ stopped' \in BOOLEAN
          /\ marked' \in Folders \cup {None} /\ markers' \in [Folders -> Seq(Marker)]
          /\ \A f \in Folders : Len(markers'[f]) <= MaxMarkers
        BY <1>0 DEF Typed, TypeOK
    <2> QED BY <1>0, <1>1, <2>1, <2>2, RecordTyped
<1>2. CASE LookUp(p)
    <2>1. c.step = "cache" /\ cache' = cache /\ c.folder \in Folders /\ c.key \in Keys
        BY <1>0, <1>2 DEF LookUp, Fits
    <2>2. PICK s \in {"keep", "find"}, client \in Client :
              Update(p, [Chosen(p) EXCEPT !.step = s, !.client = client])
        <3>1. CASE Hit(p)
            <4>1. cache \in Client BY <1>0, <3>1 DEF Hit
            <4> QED BY <1>2, <3>1, <4>1 DEF LookUp
        <3>2. CASE ~Hit(p)
            <4>1. [key |-> c.key, folder |-> c.folder] \in Client BY <2>1 DEF Client
            <4> QED BY <1>2, <3>2, <4>1 DEF LookUp
        <3> QED BY <3>1, <3>2
    <2> DEFINE d == [Chosen(p) EXCEPT !.step = s, !.client = client]
    <2>3. Chosen(p) \in Call BY <1>0 DEF Chosen, Call
    <2>4. d \in Call /\ d.step = s /\ d.client = client BY <2>3 DEF Call
    <2> HIDE DEF d
    <2> QED BY <1>0, <1>1, <2>1, <2>2, <2>4 DEF d
<1>3. CASE Keep(p)
    <2> DEFINE d == [c EXCEPT !.step = "find"]
    <2>1. c.step = "keep" /\ cache' = c.client /\ Update(p, d) BY <1>3 DEF Keep
    <2>2. c.client \in Client BY <1>0, <2>1 DEF Fits
    <2>3. d \in Call /\ d.step = "find" /\ d.client = c.client BY <1>0 DEF Call
    <2> HIDE DEF d
    <2> QED BY <1>1, <2>1, <2>2, <2>3
<1> QED BY <1>2, <1>3

\* A folder keeps its markers and their types.
LEMMA PutMarkerKnown ==
    ASSUME NEW ms \in Seq(Marker), Len(ms) <= MaxMarkers, NEW id \in 0..MaxMarkers,
           NEW on \in BOOLEAN, Len(PutMarker(ms, id, on)) <= MaxMarkers
    PROVE  /\ PutMarker(ms, id, on) \in Seq(Marker)
           /\ Len(PutMarker(ms, id, on)) >= Len(ms)
           /\ id = 0 \/ ms # <<>> => /\ PutMarker(ms, id, on) # <<>>
                                     /\ Head(PutMarker(ms, id, on)).on = on
<1> DEFINE n == Len(ms)
<1>0. n \in Nat /\ MaxMarkers \in Nat BY DesktopAssumption
<1>1. CASE id = 0
    <2> DEFINE m == [id |-> n + 1, on |-> on]
    <2>1. PutMarker(ms, id, on) = <<m>> \o ms BY <1>1 DEF PutMarker
    <2>2. Len(<<m>> \o ms) = n + 1 /\ Head(<<m>> \o ms) = m OBVIOUS
    <2>3. n + 1 \in 1..MaxMarkers BY <1>0, <2>1, <2>2
    <2>4. m \in Marker BY <2>3 DEF Marker
    <2>5. m.on = on OBVIOUS
    <2> HIDE DEF m
    <2>6. <<m>> \o ms \in Seq(Marker) BY <2>4
    <2>7. <<m>> \o ms # <<>> BY <2>2, <1>0
    <2> QED BY <1>0, <2>1, <2>2, <2>5, <2>6, <2>7
<1>2. CASE id # 0
    <2> DEFINE m == [id |-> id, on |-> on]
    <2>1. PutMarker(ms, id, on) = Refreshed(ms, m) BY <1>2 DEF PutMarker
    <2>2. m \in Marker /\ m.on = on BY <1>0, <1>2 DEF Marker
    <2> HIDE DEF m
    <2>3. ASSUME NEW i \in 1..n PROVE Refreshed(ms, m)[i] \in Marker
        <3>1. ms[i] \in Marker /\ (i > 1 => ms[i - 1] \in Marker) BY <1>0
        <3> QED BY <1>0, <2>2, <3>1 DEF Refreshed
    <2>4. Refreshed(ms, m) = [i \in 1..n |-> Refreshed(ms, m)[i]] BY DEF Refreshed
    <2>5. Refreshed(ms, m) \in [1..n -> Marker] BY <2>3, <2>4
    <2>6. Refreshed(ms, m) \in Seq(Marker) /\ Len(Refreshed(ms, m)) = n BY <1>0, <2>5
    <2>7. n > 0 => Refreshed(ms, m)[1] = m BY <1>0 DEF Refreshed
    <2>8. ms # <<>> => n > 0 BY <1>0
    <2>9. ms # <<>> => Refreshed(ms, m) # <<>> /\ Head(Refreshed(ms, m)) = m
        BY <1>0, <2>6, <2>7, <2>8
    <2> QED BY <1>0, <1>2, <2>1, <2>2, <2>6, <2>9
<1> QED BY <1>1, <1>2

LEMMA FindTyped == ASSUME Typed, NEW p \in Pool, Find(p) \/ Put(p) \/ Post(p) PROVE Typed'
<1> DEFINE c == call[p]
<1>0. /\ UNCHANGED <<session, cache, folder, main, auto, flag, flagFile>>
      /\ c \in Call /\ Fits(c, session) /\ c.step \in {"find", "put", "post"}
      /\ markers \in [Folders -> Seq(Marker)] /\ \A f \in Folders : Len(markers[f]) <= MaxMarkers
    BY RecordKnown DEF Find, Put, Post, appVars, switchVars, Typed, TypeOK
<1>1. c.step \in {"find", "put"} => c.client \in Client /\ c.client.folder \in Folders
    BY <1>0 DEF Fits, Client
<1>2. CASE Answer(p, FALSE) /\ markers' = markers BY <1>0, <1>2, AnswerTyped
<1>3. CASE c.step = "find" /\ Find(p) /\ ~Answer(p, FALSE)
    <2> DEFINE ms == markers[c.client.folder]
               id == IF ms = <<>> THEN 0 ELSE Head(ms).id
               d == [c EXCEPT !.step = "put", !.id = id]
    <2>1. /\ c.cmd = "stop" /\ Update(p, d) /\ UNCHANGED <<stopped, marked, markers>>
        BY <1>3 DEF Find, FirstFound
    <2>2. id \in 0..MaxMarkers
        <3>1. ms \in Seq(Marker) BY <1>0, <1>1, <1>3
        <3>2. ms # <<>> => Head(ms) \in Marker BY <3>1
        <3> QED BY <3>2, DesktopAssumption DEF Marker
    <2> HIDE DEF id
    <2>3. d \in Call /\ d.step = "put" /\ d.client = c.client /\ d.cmd = c.cmd
        BY <1>0, <2>2 DEF Call
    <2> HIDE DEF d
    <2>4. Fits(d, session) BY <1>1, <1>3, <2>1, <2>3 DEF Fits
    <2> QED BY <1>0, <2>1, <2>3, <2>4, StillTyped, RecordTyped
<1>4. CASE c.step = "put" /\ Put(p) /\ ~(Answer(p, FALSE) /\ markers' = markers)
    <2> DEFINE f == c.client.folder
               new == PutMarker(markers[f], c.id, c.on)
    <2>1. /\ Len(new) <= MaxMarkers /\ markers' = [markers EXCEPT ![f] = new]
          /\ \E written \in BOOLEAN : Answer(p, written)
        BY <1>4 DEF Put
    <2>2. c.id \in 0..MaxMarkers /\ c.on \in BOOLEAN BY <1>0 DEF Call
    <2>3. new \in Seq(Marker) BY <1>0, <1>1, <1>4, <2>1, <2>2, PutMarkerKnown
    <2> HIDE DEF new
    <2>4. /\ markers' \in [Folders -> Seq(Marker)]
          /\ \A g \in Folders : Len(markers'[g]) <= MaxMarkers
        BY <1>0, <1>1, <1>4, <2>1, <2>3
    <2> QED BY <1>0, <1>1, <1>4, <2>1, <2>4, AnswerTyped
<1>5. CASE Post(p)
    <2>1. Update(p, Idle) /\ UNCHANGED <<stopped, marked, markers>> BY <1>5 DEF Post, switchVars
    <2> QED BY <1>0, <2>1, IdleFits, StillTyped, RecordTyped
<1>6. /\ Find(p) => c.step = "find" /\ markers' = markers
      /\ Put(p) => c.step = "put"
    BY DEF Find, Put
<1> QED BY <1>2, <1>3, <1>4, <1>5, <1>6

LEMMA RestartTyped == ASSUME Typed, Restart PROVE Typed'
<1>1. call' \in [Pool -> Call] /\ \A p \in Pool : Fits(call'[p], session')
    BY IdleFits DEF Restart
<1> QED BY <1>1 DEF Restart, Typed, TypeOK

LEMMA InitTyped == Init => Typed
<1> SUFFICES ASSUME Init PROVE Typed OBVIOUS
<1>1. call \in [Pool -> Call] /\ \A p \in Pool : Fits(call[p], session) BY IdleFits DEF Init
<1>2. \A f \in Folders : markers[f] = <<>> /\ Len(markers[f]) <= MaxMarkers
    BY DesktopAssumption DEF Init
<1>3. markers \in [Folders -> Seq(Marker)] BY DEF Init
<1> QED BY <1>1, <1>2, <1>3 DEF Init, Typed, TypeOK

LEMMA NextTyped == Typed /\ [Next]_vars => Typed'
<1> SUFFICES ASSUME Typed, [Next]_vars PROVE Typed' OBVIOUS
<1>1. ASSUME NEW p \in Pool, Command(p) PROVE Typed'
    BY <1>1, BeginTyped, OpenTyped, SetTyped, SaveFlagTyped, ReadFolderTyped, LookUpTyped, FindTyped
       DEF Command
<1>2. CASE UNCHANGED vars BY <1>2 DEF vars, Typed, TypeOK
<1> QED BY <1>1, <1>2, MainTyped, RestartTyped DEF Next

\* Every variable keeps its type: no interleaving of commands, locks, edits and
\* restarts hands drive() or the marker's requests a record they did not fill.
THEOREM DesktopTypeCorrect == Spec => []TypeOK
<1>1. Spec => []Typed BY InitTyped, NextTyped, PTL DEF Spec
<1>2. Typed => TypeOK BY DEF Typed
<1> QED BY <1>1, <1>2, PTL

-----------------------------------------------------------------------------
(* The Drive client *)

\* However edits, locks, unlocks and other calls interleave, a call gets a Drive
\* client only with a credential that the unlocked session held since it began.
THEOREM ClientsAreLive == Spec => ClientsHoldLiveKey
<1> DEFINE Live == \A p \in Pool: At(p, "cache") /\ call'[p].client # None
                                    => call'[p].client.key \in call[p].held
<1>1. ASSUME Typed, [Next]_vars PROVE Live
    <2> SUFFICES ASSUME NEW p \in Pool, call[p].step = "cache", call'[p].client # None
                 PROVE  call'[p].client.key \in call[p].held
        OBVIOUS
    <2> DEFINE c == call[p]
    <2>0. /\ c \in Call /\ call \in [Pool -> Call] /\ c.client = None
          /\ c.key \in Keys /\ c.key \in c.held /\ c.folder \in Folders
        BY <1>1, RecordKnown DEF Fits, Typed, TypeOK
    <2>1. CASE LookUp(p)
        <3>1. Chosen(p) \in Call BY <2>0 DEF Chosen, Call
        <3>2. CASE Hit(p)
            <4>1. call'[p] = [Chosen(p) EXCEPT !.step = "find", !.client = cache]
                BY <2>0, <2>1, <3>2 DEF LookUp
            <4>2. call'[p].client = cache BY <3>1, <4>1 DEF Call
            <4> QED BY <2>0, <3>2, <4>2 DEF Hit
        <3>3. CASE ~Hit(p)
            <4>1. call'[p] = [Chosen(p) EXCEPT !.step = "keep",
                                 !.client = [key |-> c.key, folder |-> c.folder]]
                BY <2>0, <2>1, <3>3 DEF LookUp
            <4>2. call'[p].client.key = c.key BY <3>1, <4>1 DEF Call
            <4> QED BY <2>0, <4>2
        <3> QED BY <3>2, <3>3
    <2>2. CASE ~LookUp(p)
        <3>1. call'[p].client = None
            <4>1. \A k : Sees(c, k).client = None BY <2>0, SeesKnown
            <4>2. ASSUME NEW q \in Pool, Command(q) PROVE call'[p].client = None
                <5>1. CASE q = p
                    BY <2>0, <2>2, <4>2, <5>1 DEF Command, VaultUnlock, OpenSession, DriveRead,
                       SetKillSwitch, SaveFlag, ReadFolder, CopyKey, Keep, Find, Put,
                       NodeDispatch, Post, Begin
                <5>2. CASE q # p
                    <6>1. CASE OpenSession(q) BY <2>0, <4>1, <5>2, <6>1 DEF OpenSession
                    <6>2. CASE SetKillSwitch(q)
                        <7>1. call'[p] = [c EXCEPT !.alone = (p \notin Stopping /\ c.alone),
                                                   !.last = (p \notin Stopping /\ c.last)]
                            BY <2>0, <5>2, <6>2 DEF SetKillSwitch, Call
                        <7> QED BY <2>0, <7>1 DEF Call
                    <6>3. CASE call'[p] = c BY <2>0, <6>3
                    <6>4. (\E d : Update(q, d)) => call'[p] = c BY <2>0, <5>2
                    <6> QED BY <4>2, <6>1, <6>2, <6>3, <6>4
                        DEF Command, VaultUnlock, DriveRead, SaveFlag, ReadFolder, CopyKey,
                            LookUp, Keep, Find, Put, NodeDispatch, Post, Begin, Answer
                <5> QED BY <5>1, <5>2
            <4>3. CASE EditSecret BY <2>0, <4>1, <4>3 DEF EditSecret
            <4>4. CASE Restart BY <4>4 DEF Restart, Idle
            <4>5. CASE call' = call BY <2>0, <4>5
            <4> QED BY <1>1, <4>2, <4>3, <4>4, <4>5
                DEF Next, AutoTask, MainThread, AutoLock, AutoForget, VaultLock, ForgetDrive,
                    ConfigSet, vars
        <3> QED BY <3>1
    <2> QED BY <2>1, <2>2
<1>2. Typed /\ [Next]_vars => [Live]_vars BY <1>1
<1>3. Spec => []Typed BY InitTyped, NextTyped, PTL DEF Spec
<1> QED BY <1>2, <1>3, PTL DEF Spec, ClientsHoldLiveKey

-----------------------------------------------------------------------------
(* The stop switch *)

\* A command goes on without touching the switch, or ends.
Goes(c, d) ==
    /\ Stops(d) => /\ Stops(c) /\ d.alone = c.alone /\ d.on = c.on
                   /\ c.step = "save" => d.step = "save"
    /\ d.step = "put" /\ d.id # 0 => markers[d.client.folder] # <<>>

LEMMA StopsStay ==
    ASSUME StopInv, UNCHANGED <<flag, flagFile, markers, stopped, marked>>,
           \A p \in Pool : Goes(call[p], call'[p])
    PROVE  StopInv'
BY DEF StopInv, Goes, Stops, MarkerSaysStop, FirstFound

\* Most steps are one command's.
LEMMA OneStays ==
    ASSUME Typed, StopInv, UNCHANGED <<flag, flagFile, markers, stopped, marked>>,
           NEW p \in Pool, NEW d, Update(p, d), Goes(call[p], d)
    PROVE  StopInv'
<1>1. call \in [Pool -> Call] BY DEF Typed, TypeOK
<1>2. ASSUME NEW q \in Pool PROVE Goes(call[q], call'[q])
    <2>1. CASE q = p BY <1>1, <2>1
    <2>2. CASE q # p
        <3>1. call'[q] = call[q] BY <1>1, <2>2
        <3> QED BY <3>1 DEF StopInv, Goes
    <2> QED BY <2>1, <2>2
<1> QED BY <1>2, StopsStay

LEMMA IdleStops == ~Stops(Idle) /\ \A c : Goes(c, Idle)
BY DEF Idle, Stops, Goes

\* What the session holds is no matter of the switch.
LEMMA SeesGoes ==
    ASSUME Typed, StopInv, NEW p \in Pool, NEW k PROVE Goes(call[p], Sees(call[p], k))
<1>1. call[p] \in Call BY RecordKnown
<1>2. LET d == Sees(call[p], k)
      IN  /\ d.cmd = call[p].cmd /\ d.step = call[p].step /\ d.alone = call[p].alone
          /\ d.on = call[p].on /\ d.id = call[p].id /\ d.client = call[p].client
    BY <1>1, SeesKnown
<1> QED BY <1>2 DEF Goes, Stops, StopInv

LEMMA MainStops == ASSUME Typed, StopInv, AutoTask \/ MainThread PROVE StopInv'
<1>1. UNCHANGED <<flag, flagFile, markers, stopped, marked>>
    BY DEF AutoTask, MainThread, AutoLock, AutoForget, VaultLock, ForgetDrive, ConfigSet,
       EditSecret, switchVars
<1>2. CASE call' = call BY <1>1, <1>2, StopsStay DEF StopInv, Goes
<1>3. CASE EditSecret
    <2>1. ASSUME NEW p \in Pool PROVE Goes(call[p], call'[p])
        BY <1>3, SeesGoes DEF EditSecret
    <2> QED BY <1>1, <2>1, StopsStay
<1> QED BY <1>2, <1>3 DEF AutoTask, MainThread, AutoLock, AutoForget, VaultLock, ForgetDrive,
           ConfigSet

LEMMA BeginStops ==
    ASSUME Typed, StopInv, NEW p \in Pool,
           VaultUnlock(p) \/ OpenSession(p) \/ DriveRead(p) \/ NodeDispatch(p) \/ Post(p)
    PROVE  StopInv'
<1>1. UNCHANGED <<flag, flagFile, markers, stopped, marked>>
    BY DEF VaultUnlock, OpenSession, DriveRead, NodeDispatch, Post, switchVars
<1>2. CASE OpenSession(p)
    <2>1. ASSUME NEW q \in Pool PROVE Goes(call[q], call'[q])
        BY <1>2, SeesGoes, IdleStops DEF OpenSession
    <2> QED BY <1>1, <2>1, StopsStay
<1>3. CASE VaultUnlock(p) \/ DriveRead(p) \/ NodeDispatch(p)
    <2>1. PICK cmd \in {"unlock", "read", "dispatch"}, step \in {"open", "folder", "post"} :
              Begin(p, [Idle EXCEPT !.cmd = cmd, !.step = step])
        BY <1>3 DEF VaultUnlock, DriveRead, NodeDispatch
    <2> DEFINE c == [Idle EXCEPT !.cmd = cmd, !.step = step]
               d == Sees(c, session)
    <2>2. c \in Call /\ c.cmd = cmd /\ c.step = step BY IdleFits DEF Idle, Call, Commands
    <2> HIDE DEF c
    <2>3. d.cmd = cmd /\ d.step = step BY <2>2, SeesKnown
    <2>4. Update(p, d) BY <2>1 DEF Begin, c
    <2> HIDE DEF d
    <2>5. Goes(call[p], d) BY <2>3 DEF Goes, Stops
    <2> QED BY <1>1, <2>4, <2>5, OneStays
<1>4. CASE Post(p) BY <1>1, <1>4, IdleStops, OneStays DEF Post
<1> QED BY <1>2, <1>3, <1>4

\* The newest command overlaps every other; only one alone leaves a promise.
LEMMA SetStops == ASSUME Typed, StopInv, NEW p \in Pool, SetKillSwitch(p) PROVE StopInv'
<1> DEFINE Kept(q, a) == [call[q] EXCEPT !.alone = a]
<1>1. PICK on \in BOOLEAN :
          /\ flag' = on /\ stopped' = (stopped /\ on /\ Stopping = {}) /\ marked' = None
          /\ UNCHANGED <<flagFile, markers>>
          /\ call' = [q \in Pool |->
                IF q = p THEN [Idle EXCEPT !.cmd = "stop", !.step = "save", !.on = on,
                                           !.alone = (Stopping = {})]
                ELSE [call[q] EXCEPT !.alone = (q \notin Stopping /\ @),
                                     !.last = (q \notin Stopping /\ @)]]
    BY DEF SetKillSwitch
<1>2. /\ Stops(call'[p]) /\ call'[p].step = "save" /\ call'[p].on = on
      /\ call'[p].alone <=> Stopping = {}
    BY <1>1 DEF Idle, Stops
<1>3. ASSUME NEW q \in Pool, q # p
      PROVE  /\ call'[q].cmd = call[q].cmd /\ call'[q].step = call[q].step
             /\ call'[q].on = call[q].on /\ call'[q].id = call[q].id
             /\ call'[q].client = call[q].client
             /\ call'[q].alone <=> (~Stops(call[q]) /\ call[q].alone)
    <2>1. call'[q] = [call[q] EXCEPT !.alone = (q \notin Stopping /\ call[q].alone),
                                     !.last = (q \notin Stopping /\ call[q].last)]
        BY <1>1, <1>3, RecordKnown DEF Call
    <2>2. q \in Stopping <=> Stops(call[q]) BY DEF Stopping, Stops
    <2> QED BY <2>1, <2>2, RecordKnown DEF Call
<1>4. \A q \in Pool : Stopping = {} => ~Stops(call[q]) BY DEF Stopping, Stops
<1>5. ASSUME NEW q \in Pool, Stops(call'[q]), call'[q].alone PROVE q = p /\ Stopping = {}
    BY <1>2, <1>3, <1>5 DEF Stops
<1>6. ASSUME NEW q \in Pool, NEW r \in Pool, Stops(call'[q]), Stops(call'[r]), call'[q].alone
      PROVE  q = r
    <2>1. q = p /\ Stopping = {} BY <1>5, <1>6
    <2> QED BY <1>3, <1>4, <1>6, <2>1 DEF Stops
<1>7. ASSUME NEW q \in Pool, Stops(call'[q]), call'[q].alone, call'[q].on
      PROVE  flag' /\ (call'[q].step # "save" => flagFile')
    BY <1>1, <1>2, <1>5, <1>7
<1>8. ASSUME stopped'
      PROVE  /\ flag' /\ flagFile'
             /\ \A q \in Pool : Stops(call'[q]) => call'[q].alone /\ call'[q].on
    <2>1. Stopping = {} /\ on /\ stopped BY <1>1, <1>8
    <2>2. flag' /\ flagFile' BY <1>1, <2>1 DEF StopInv
    <2>3. ASSUME NEW q \in Pool, Stops(call'[q]) PROVE call'[q].alone /\ call'[q].on
        <3>1. q = p BY <1>3, <1>4, <2>1, <2>3 DEF Stops
        <3> QED BY <1>2, <2>1, <3>1
    <2> QED BY <2>2, <2>3
<1>9. ASSUME NEW q \in Pool, call'[q].step = "put", call'[q].id # 0
      PROVE  markers'[call'[q].client.folder] # <<>>
    <2>1. q # p BY <1>2, <1>9
    <2>2. markers[call[q].client.folder] # <<>> BY <1>3, <1>9, <2>1 DEF StopInv
    <2>3. markers' = markers BY <1>1
    <2> QED BY <1>3, <2>1, <2>2, <2>3
<1> QED BY <1>1, <1>6, <1>7, <1>8, <1>9 DEF StopInv, MarkerSaysStop, FirstFound

LEMMA SaveStops == ASSUME Typed, StopInv, NEW p \in Pool, SaveFlag(p) PROVE StopInv'
<1> DEFINE c == call[p]
<1>0. /\ c \in Call /\ c.step = "save" /\ Stops(c) /\ call \in [Pool -> Call]
      /\ UNCHANGED <<flag, markers, stopped, marked>>
    BY RecordKnown DEF SaveFlag, Fits, Stops, Typed, TypeOK
<1>1. CASE flagFile' = flagFile /\ Update(p, Idle)
    BY <1>0, <1>1, IdleStops, OneStays
<1>2. CASE flagFile' \in Saved(p) /\ Update(p, Sees([c EXCEPT !.step = "folder"], session))
    <2> DEFINE b == [c EXCEPT !.step = "folder"]
               d == Sees(b, session)
    <2>1. b \in Call /\ b.step = "folder" /\ b.cmd = c.cmd /\ b.alone = c.alone /\ b.on = c.on
        BY <1>0 DEF Call
    <2> HIDE DEF b
    <2>2. d.step = "folder" /\ d.cmd = c.cmd /\ d.alone = c.alone /\ d.on = c.on
        BY <2>1, SeesKnown
    <2>3. Update(p, d) BY <1>2 DEF b
    <2> HIDE DEF d
    <2>4. call'[p] = d /\ \A q \in Pool \ {p} : call'[q] = call[q] BY <1>0, <2>3
    <2>5. c.alone => flagFile' = c.on BY <1>2 DEF Saved
    <2>6. \A q \in Pool \ {p} : Stops(call[q]) => ~call[q].alone BY <1>0 DEF StopInv
    <2>7. stopped => flag /\ c.alone /\ c.on BY <1>0 DEF StopInv
    <2>8. ASSUME NEW q \in Pool
          PROVE  /\ Stops(call'[q]) <=> Stops(call[q])
                 /\ call'[q].alone = call[q].alone /\ call'[q].on = call[q].on
                 /\ call'[q].step = "put" => call'[q] = call[q]
        BY <2>2, <2>4 DEF Stops
    <2>9. ASSUME NEW q \in Pool, Stops(call'[q]), call'[q].alone, call'[q].on
          PROVE  flag' /\ (call'[q].step # "save" => flagFile')
        <3>1. q = p BY <2>6, <2>8, <2>9
        <3> QED BY <1>0, <2>2, <2>4, <2>5, <2>9, <3>1 DEF StopInv
    <2>10. stopped' => flag' /\ flagFile' BY <1>0, <2>5, <2>7
    <2> QED BY <1>0, <2>8, <2>9, <2>10 DEF StopInv, MarkerSaysStop, FirstFound
<1> QED BY <1>1, <1>2 DEF SaveFlag

\* What the answer to a stop that nobody overlaps reports of the marker is so.
LEMMA AnswerStops ==
    ASSUME Typed, StopInv, NEW p \in Pool, NEW written \in BOOLEAN, Answer(p, written),
           call[p].step # "save", UNCHANGED <<flag, flagFile>>,
           \A f \in Folders : markers[f] # <<>> => markers'[f] # <<>>,
           markers' = markers \/ Stops(call[p]),
           written => LET ms == markers'[call[p].client.folder]
                      IN  ms # <<>> /\ Head(ms).on = call[p].on
    PROVE  StopInv'
<1> DEFINE c == call[p]
           kept == Stops(c) /\ c.on /\ c.alone
           told == Stops(c) /\ c.on /\ c.last /\ written
<1>0. /\ call \in [Pool -> Call] /\ Update(p, Idle) /\ stopped' = (stopped \/ kept)
      /\ marked' = IF told THEN c.client.folder ELSE marked
    BY DEF Answer, Stops, Typed, TypeOK
<1>1. call'[p] = Idle /\ \A q \in Pool \ {p} : call'[q] = call[q] BY <1>0
<1>2. ASSUME NEW q \in Pool, Stops(call'[q]) \/ call'[q].step = "put"
      PROVE  q # p /\ call'[q] = call[q]
    BY <1>1, <1>2 DEF Idle, Stops
<1>3. kept => flag /\ flagFile /\ \A q \in Pool \ {p} : ~Stops(call[q]) BY DEF StopInv
<1>4. ASSUME stopped'
      PROVE  /\ flag' /\ flagFile'
             /\ \A q \in Pool : Stops(call'[q]) => call'[q].alone /\ call'[q].on
    BY <1>0, <1>2, <1>3, <1>4 DEF StopInv
<1>5. ASSUME NEW q \in Pool, call'[q].step = "put", call'[q].id # 0
      PROVE  markers'[call'[q].client.folder] # <<>>
    <2>1. call'[q] = call[q] BY <1>2, <1>5
    <2>2. call[q].client.folder \in Folders BY <1>5, <2>1, RecordKnown DEF Fits, Client
    <2> QED BY <1>5, <2>1, <2>2 DEF StopInv
<1>6. MarkerSaysStop'
    <2> SUFFICES ASSUME stopped', marked' # None
                 PROVE  markers'[marked'] # <<>> /\ Head(markers'[marked']).on
        BY DEF MarkerSaysStop, FirstFound
    <2>1. CASE told BY <1>0, <2>1
    <2>2. CASE ~told
        <3>1. marked' = marked /\ marked # None BY <1>0, <2>2
        <3>2. stopped /\ ~Stops(c) BY <1>0, <3>1 DEF StopInv
        <3>3. markers' = markers BY <3>2
        <3> QED BY <3>1, <3>2, <3>3 DEF StopInv, MarkerSaysStop, FirstFound
    <2> QED BY <2>1, <2>2
<1>9. ASSUME NEW q \in Pool, Stops(call'[q]), call'[q].alone PROVE marked' = None
    <2>1. q # p /\ Stops(call[q]) /\ call[q].alone BY <1>2, <1>9
    <2>2. ~Stops(c) /\ marked = None BY <2>1 DEF StopInv
    <2> QED BY <1>0, <2>2
<1>7. \A q, r \in Pool : Stops(call'[q]) /\ Stops(call'[r]) /\ call'[q].alone => q = r
    BY <1>2 DEF StopInv
<1>8. \A q \in Pool : Stops(call'[q]) /\ call'[q].alone /\ call'[q].on
                        => flag' /\ (call'[q].step # "save" => flagFile')
    BY <1>2 DEF StopInv
<1> QED BY <1>4, <1>5, <1>6, <1>7, <1>8, <1>9 DEF StopInv

LEMMA DriveStops ==
    ASSUME Typed, StopInv, NEW p \in Pool,
           ReadFolder(p) \/ CopyKey(p) \/ LookUp(p) \/ Keep(p)
    PROVE  StopInv'
<1> DEFINE c == call[p]
<1>0. c \in Call /\ c.step \in {"folder", "key", "cache", "keep"} /\ UNCHANGED <<flag, flagFile, markers>>
    BY RecordKnown DEF ReadFolder, CopyKey, LookUp, Keep, switchVars
<1>1. CASE Answer(p, FALSE) BY <1>0, <1>1, AnswerStops
<1>2. ASSUME NEW d, Update(p, d), d.cmd = c.cmd, d.alone = c.alone, d.on = c.on, d.step # "put",
             UNCHANGED <<stopped, marked>>
      PROVE  StopInv'
    <2>1. Goes(c, d) BY <1>0, <1>2 DEF Goes, Stops
    <2> QED BY <1>0, <1>2, <2>1, OneStays
<1>3. CASE ReadFolder(p) /\ ~Answer(p, FALSE)
    <2> DEFINE d == [c EXCEPT !.step = "key", !.folder = folder]
    <2>1. d.cmd = c.cmd /\ d.alone = c.alone /\ d.on = c.on /\ d.step = "key" BY <1>0 DEF Call
    <2> QED BY <1>2, <1>3, <2>1 DEF ReadFolder
<1>4. CASE CopyKey(p) /\ ~Answer(p, FALSE)
    <2> DEFINE d == [c EXCEPT !.step = "cache", !.key = session]
    <2>1. d.cmd = c.cmd /\ d.alone = c.alone /\ d.on = c.on /\ d.step = "cache" BY <1>0 DEF Call
    <2> QED BY <1>2, <1>4, <2>1 DEF CopyKey
<1>5. CASE LookUp(p)
    <2>1. PICK s \in {"find", "keep"} :
              \E k : Update(p, [Chosen(p) EXCEPT !.step = s, !.client = k])
        BY <1>5 DEF LookUp
    <2>a. PICK client : Update(p, [Chosen(p) EXCEPT !.step = s, !.client = client])
        BY <2>1
    <2> DEFINE d == [Chosen(p) EXCEPT !.step = s, !.client = client]
    <2>2. /\ Chosen(p) \in Call /\ Chosen(p).cmd = c.cmd /\ Chosen(p).alone = c.alone
          /\ Chosen(p).on = c.on
        BY <1>0 DEF Chosen, Call
    <2>3. d.cmd = c.cmd /\ d.alone = c.alone /\ d.on = c.on /\ d.step = s BY <2>2 DEF Call
    <2> HIDE DEF d
    <2>4. Update(p, d) /\ UNCHANGED <<stopped, marked>> BY <1>5, <2>a DEF d, LookUp, switchVars
    <2> QED BY <1>2, <2>3, <2>4
<1>6. CASE Keep(p)
    <2> DEFINE d == [c EXCEPT !.step = "find"]
    <2>1. d.cmd = c.cmd /\ d.alone = c.alone /\ d.on = c.on /\ d.step = "find" BY <1>0 DEF Call
    <2> QED BY <1>2, <1>6, <2>1 DEF Keep, switchVars
<1> QED BY <1>1, <1>3, <1>4, <1>5, <1>6

\* The marker is asked for by name, then updated or created.
LEMMA MarkerStops == ASSUME Typed, StopInv, NEW p \in Pool, Find(p) \/ Put(p) PROVE StopInv'
<1> DEFINE c == call[p]
           f == c.client.folder
           new == PutMarker(markers[f], c.id, c.on)
<1>0. /\ c \in Call /\ c.step \in {"find", "put"} /\ UNCHANGED <<flag, flagFile>>
      /\ f \in Folders /\ markers \in [Folders -> Seq(Marker)]
      /\ \A g \in Folders : Len(markers[g]) <= MaxMarkers
    BY RecordKnown DEF Find, Put, Fits, Client, Typed, TypeOK
<1>1. CASE Answer(p, FALSE) /\ markers' = markers BY <1>0, <1>1, AnswerStops
<1>2. CASE Find(p) /\ ~Answer(p, FALSE)
    <2> DEFINE ms == markers[c.client.folder]
               id == IF ms = <<>> THEN 0 ELSE Head(ms).id
               d == [c EXCEPT !.step = "put", !.id = id]
    <2>1. Update(p, d) /\ UNCHANGED <<stopped, marked, markers>> BY <1>2 DEF Find, FirstFound
    <2>2. id # 0 => markers[f] # <<>> OBVIOUS
    <2> HIDE DEF id
    <2>3. /\ d.cmd = c.cmd /\ d.alone = c.alone /\ d.on = c.on /\ d.client = c.client
          /\ d.step = "put" /\ d.id = id
        BY <1>0 DEF Call
    <2> HIDE DEF d
    <2>4. c.step = "find" BY <1>2 DEF Find
    <2>5. Goes(c, d) BY <2>2, <2>3, <2>4 DEF Goes, Stops
    <2> QED BY <1>0, <2>1, <2>5, OneStays
<1>3. CASE Put(p) /\ ~(Answer(p, FALSE) /\ markers' = markers)
    <2>1. /\ Len(new) <= MaxMarkers /\ markers' = [markers EXCEPT ![f] = new] /\ c.step = "put"
          /\ \E written \in BOOLEAN : Answer(p, written)
        BY <1>3 DEF Put
    <2>2. c.id \in 0..MaxMarkers /\ c.on \in BOOLEAN BY <1>0 DEF Call
    <2>3. c.id = 0 \/ markers[f] # <<>> BY <2>1 DEF StopInv
    <2>4. new # <<>> /\ Head(new).on = c.on
        BY <1>0, <2>1, <2>2, <2>3, PutMarkerKnown
    <2>5. Stops(c) BY <2>1, RecordKnown DEF Fits, Stops
    <2> HIDE DEF new
    <2>6. markers'[f] = new /\ \A g \in Folders \ {f} : markers'[g] = markers[g]
        BY <1>0, <2>1
    <2>7. \A g \in Folders : markers[g] # <<>> => markers'[g] # <<>> BY <2>4, <2>6
    <2>8. PICK written \in BOOLEAN : Answer(p, written) BY <2>1
    <2> QED BY <1>0, <2>1, <2>4, <2>5, <2>6, <2>7, <2>8, AnswerStops
<1>4. Find(p) => markers' = markers BY DEF Find
<1> QED BY <1>1, <1>2, <1>3, <1>4

\* The start reads the switch from the file a stop has saved.
LEMMA RestartStops == ASSUME StopInv, Restart PROVE StopInv'
<1>1. \A p \in Pool : call'[p] = Idle BY DEF Restart
<1>2. ~Stops(Idle) /\ Idle.step # "put" BY DEF Idle, Stops
<1> QED BY <1>1, <1>2 DEF StopInv, Restart, MarkerSaysStop, FirstFound

LEMMA InitStops == Init => StopInv
<1> SUFFICES ASSUME Init PROVE StopInv OBVIOUS
<1>1. \A p \in Pool : call[p] = Idle BY DEF Init
<1>2. ~Stops(Idle) /\ Idle.step # "put" BY DEF Idle, Stops
<1> QED BY <1>1, <1>2 DEF Init, StopInv, MarkerSaysStop

LEMMA StaysStopped == Spec => [](Typed /\ StopInv)
<1>1. ASSUME Typed, StopInv, [Next]_vars PROVE StopInv'
    <2>1. ASSUME NEW p \in Pool, Command(p) PROVE StopInv'
        BY <1>1, <2>1, BeginStops, SetStops, SaveStops, DriveStops, MarkerStops DEF Command
    <2>2. CASE UNCHANGED vars
        BY <1>1, <2>2, StopsStay DEF vars, StopInv, Goes
    <2> QED BY <1>1, <2>1, <2>2, MainStops, RestartStops DEF Next
<1>2. Typed /\ StopInv /\ [Next]_vars => (Typed /\ StopInv)' BY <1>1, NextTyped
<1> QED BY <1>2, InitTyped, InitStops, PTL DEF Spec

\* Whichever other commands overlap, fail or are cut off by a restart, no dispatch
\* begins after the answer to a stop that overlapped no other stop command, until
\* somebody touches the switch again.
THEOREM StopsAreFinal == Spec => StoppedStaysStopped
<1> DEFINE Refused == \A p \in Pool : NodeDispatch(p) => ~stopped
<1>1. StopInv => Refused BY DEF StopInv, NodeDispatch
<1>2. Typed /\ StopInv /\ [Next]_vars => [Refused]_vars BY <1>1
<1> QED BY <1>2, StaysStopped, PTL DEF Spec, StoppedStaysStopped

\* When a stop that overlapped no other stop command was answered as written, the
\* marker that is found first in that folder says stop until somebody touches the
\* switch again, however many markers earlier commands have left there.
THEOREM MarkersSayStop == Spec => []MarkerSaysStop
<1>1. StopInv => MarkerSaysStop BY DEF StopInv
<1> QED BY <1>1, StaysStopped, PTL
=============================================================================
