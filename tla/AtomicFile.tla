----------------------------- MODULE AtomicFile ------------------------------
(***************************************************************************)
(* The vault directory and the file operations of nrvault/src/atomic.rs.   *)
(*                                                                         *)
(* Each system call is a step.  disk gives each name its content; a file   *)
(* that has been created and not written is Empty, one that holds bytes of *)
(* several writers or zeros is Torn.  target[t] is the name under which    *)
(* the file that thread t has open is found now: a rename moves it, an     *)
(* unlink loses it, since the handle follows the file and not the name.    *)
(* write_all and sync_all are one step, and a completed rename survives a  *)
(* crash: both are the file system's part of the bargain.                  *)
(***************************************************************************)
EXTENDS Naturals

CONSTANTS Threads, Absent, Empty, Torn, NoName

VARIABLES disk, target

Files == {"vault", "meta"}
Names == {"vault", "vault.tmp", "vault.bak", "meta", "meta.tmp"}
TmpPath == [vault |-> "vault.tmp", meta |-> "meta.tmp"]
Backup == "vault.bak"

\* Mutant: the file itself is truncated and written.
CreateInPlace(t, f) ==
    /\ disk' = [disk EXCEPT ![f] = Empty]
    /\ target' = [target EXCEPT ![t] = f]

\* fs::File::create(&tmp) truncates the one temporary name every writer uses.
CreateTmp(t, f) ==
    /\ disk' = [disk EXCEPT ![TmpPath[f]] = Empty]
    /\ target' = [target EXCEPT ![t] = TmpPath[f]]

\* Writing from the start of a file that is not empty leaves the rest of the
\* longer one: which of the two is longer is not modelled.
Overwrite(old, bytes) == IF old = Empty THEN {bytes} ELSE {bytes, Torn}

\* write_all, flush and sync_all through the handle, which is then closed.
WriteTmp(t, f, bytes) ==
    /\ IF target[t] = NoName THEN UNCHANGED disk
       ELSE \E c \in Overwrite(disk[target[t]], bytes):
                disk' = [disk EXCEPT ![target[t]] = c]
    /\ target' = [target EXCEPT ![t] = NoName]

\* fs::copy truncates its destination before it copies.
OpenBackup == disk' = [disk EXCEPT ![Backup] = Empty] /\ UNCHANGED target

\* Mutant: the copy reads the new generation.
FillBackupLate(bytes) ==
    disk' = [disk EXCEPT ![Backup] = disk["vault.tmp"]] /\ UNCHANGED target

FillBackup(bytes) == disk' = [disk EXCEPT ![Backup] = bytes] /\ UNCHANGED target

\* fs::rename fails when another writer's rename took the temporary file.
CanRename(f) == disk[TmpPath[f]] # Absent
Rename(f) ==
    /\ disk' = [disk EXCEPT ![f] = disk[TmpPath[f]], ![TmpPath[f]] = Absent]
    /\ target' = [u \in Threads |->
                    IF target[u] = TmpPath[f] THEN f
                    ELSE IF target[u] = f THEN NoName ELSE target[u]]

\* The two halves of wipe; overwriting is best effort.
Zero(n) ==
    /\ \E c \in {disk[n], Torn}: disk' = [disk EXCEPT ![n] = c]
    /\ UNCHANGED target

Unlink(n) ==
    /\ disk' = [disk EXCEPT ![n] = Absent]
    /\ target' = [u \in Threads |-> IF target[u] = n THEN NoName ELSE target[u]]
=============================================================================
