--------------------------- MODULE VaultProperties ---------------------------
(* What the vault keeps, and what its comments and documents say it keeps. *)
EXTENDS VaultStore

Promise == INSTANCE AtomicVault WITH
    None <- Absent,
    vault <- IF Sealed(disk["vault"]) THEN disk["vault"] ELSE Absent

\* The vault implements its promise: through crashes and failed calls at every
\* step of every command, vault.bin is nothing or a whole envelope, which only
\* gains edits, changes its passphrase only in a rotation, and keeps every edit
\* that was acknowledged until it is destroyed (write_atomic, save, destroy).
\* An empty or torn file counts as none, and only a destroy leaves one: nothing
\* is said of what the app makes of an interrupted destroy.
KeepsPromise == Promise!Spec

\* A save that replaces an envelope leaves exactly that one in the backup.
PreviousGenerationKept ==
    [][(Sealed(disk["vault"]) /\ Sealed(disk'["vault"]) /\ disk'["vault"] # disk["vault"])
        => disk'["vault.bak"] = disk["vault"]]_vars

\* When vault_destroy answers Ok, no envelope is left under any name.
DestroyLeavesNothing ==
    [][\A t \in Threads:
         (call[t].step = "reply" /\ call[t].cmd = "destroy" /\ crashes' = crashes)
            => \A n \in Names \ {"meta.tmp"}: disk[n] = Absent]_vars

\* SECURITY.md: rotation re-wraps 32 bytes and does not re-encrypt the payload.
\* Here: the rename of a rotation takes no edit out of vault.bin.
RotationKeepsEdits ==
    [][\A t \in Threads:
         (/\ call[t].cmd = "rotate" /\ call[t].step = "rename" /\ call'[t].step = "note"
          /\ Sealed(disk["vault"]) /\ Sealed(disk'["vault"]))
            => disk["vault"].body \subseteq disk'["vault"].body]_vars

\* A mistyped passphrase is no tampering: nothing but the program writes these
\* files here, and unless it was interrupted between the two of a save, or a
\* call failed, the fingerprint is that of the envelope at every failed unlock.
\* (save, load_and_unseal, envelope_changed_since_seal)
AlarmsHaveCause ==
    disk["meta"] \in Note /\ disk["meta"].alarm => crashes > 0 \/ faults > 0
=============================================================================
