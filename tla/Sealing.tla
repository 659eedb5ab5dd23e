------------------------------- MODULE Sealing -------------------------------
(***************************************************************************)
(* The envelope of the vault (nrvault/src: vault.rs, kdf.rs, keywrap.rs,   *)
(* aead.rs) with ideal cryptography: a ciphertext is the record of what it *)
(* was made of, and opens for exactly the key, nonce and associated data   *)
(* in it.  What a write draws at random (salt, nonces, a fresh key) is the *)
(* number of the write, and so is the payload that it stores first.        *)
(***************************************************************************)
EXTENDS Naturals

CONSTANTS
    Passphrases,
    Costs,        \* KDF parameters that from_bytes accepts
    MaxWrites,    \* envelopes written
    MaxDamage,    \* accidents that change a part of the file
    Garbage       \* what no part of an envelope is

VARIABLES
    file,         \* vault.bin
    written,      \* every envelope ever written to it
    phrase,       \* the passphrase of the last sealing
    plain,        \* the payload last stored
    writes, damage

sealingVars == <<file, written, phrase, plain, writes, damage>>

(***************************************************************************)
(* Keys and ciphertexts.                                                   *)
(***************************************************************************)

Encrypt(key, nonce, aad, text) == [key |-> key, nonce |-> nonce, aad |-> aad, text |-> text]
Decrypts(c, key, nonce, aad) ==
    c # Garbage /\ c.key = key /\ c.nonce = nonce /\ c.aad = aad

Numbers == 1..MaxWrites
HeaderFields(costs, numbers, noncesDek) ==
    [cost: costs, salt: numbers, nonceKek: numbers, nonceDek: noncesDek]
Ciphertexts(keys, aads, texts) == [key: keys, nonce: Numbers, aad: aads, text: texts]

\* What a file may hold in each place, if it is not garbage.
Header == LET any == Numbers \cup {Garbage} IN HeaderFields(Costs \cup {Garbage}, any, any)
OsBlob == Ciphertexts({"profile"}, {"entropy"}, Numbers)
WrappedKey == Ciphertexts(Passphrases \X Numbers \X Costs,
                          HeaderFields(Costs, Numbers, {0}), Numbers)
Aad == Header \X (OsBlob \cup {Garbage}) \X (WrappedKey \cup {Garbage})
Payload == Ciphertexts(Numbers, Aad, Numbers)
Mac == Ciphertexts(Numbers, Aad \X Payload, {"mac"})
SealedFile == [header: Header, blob: OsBlob \cup {Garbage}, wrapped: WrappedKey \cup {Garbage},
             payload: Payload \cup {Garbage}, mac: Mac \cup {Garbage}]

ASSUME SealingAssumption ==
    /\ MaxWrites \in Nat \ {0} /\ MaxDamage \in Nat
    /\ Garbage \notin Costs \cup Passphrases \cup Nat
    /\ Garbage \notin OsBlob \cup WrappedKey \cup Payload \cup Mac

\* Argon2id and HKDF: a key of its own for every passphrase, salt and cost.
WrapKey(p, header) == <<p, header.salt, header.cost>>

\* Mutant: the payload nonce is not left out.
KekAadAll(header) == header

\* Every field but the payload nonce, which each save replaces.
KekAad(header) == [header EXCEPT !.nonceDek = 0]

\* DPAPI binds the key to the profile and, as entropy, to the salt.
OsWrapped(dek, salt) == Encrypt("profile", salt, "entropy", dek)

ComposeAad(header, blob, wrapped) == <<header, blob, wrapped>>

\* The tail of build and update_payload; the MAC key comes from the DEK.
Finish(header, blob, wrapped, dek, text) ==
    LET aad == ComposeAad(header, blob, wrapped)
        payload == Encrypt(dek, header.nonceDek, aad, text)
    IN  [header |-> header, blob |-> blob, wrapped |-> wrapped, payload |-> payload,
         mac |-> Encrypt(dek, header.salt, <<aad, payload>>, "mac")]

Build(text, dek, p, cost, n) ==
    LET header == [cost |-> cost, salt |-> n, nonceKek |-> n, nonceDek |-> n]
        wrapped == Encrypt(WrapKey(p, header), n, KekAad(header), dek)
    IN  Finish(header, OsWrapped(dek, n), wrapped, dek, text)

\* Mutant: the nonce of the payload is drawn once, when the vault is sealed.
UpdateKeepsNonce(f, dek, text, n) == Finish(f.header, f.blob, f.wrapped, dek, text)

\* Mutant: the nonce is zeroed and never filled.
UpdateZeroNonce(f, dek, text, n) ==
    Finish([f.header EXCEPT !.nonceDek = 0], f.blob, f.wrapped, dek, text)

\* update_payload looks neither at the tag of the file nor at its old payload.
UpdatePayload(f, dek, text, n) ==
    Finish([f.header EXCEPT !.nonceDek = n], f.blob, f.wrapped, dek, text)

(***************************************************************************)
(* Opening.                                                                *)
(***************************************************************************)

MacHolds(f, dek) ==
    Decrypts(f.mac, dek, f.header.salt, <<ComposeAad(f.header, f.blob, f.wrapped), f.payload>>)
PayloadOpens(f, dek) ==
    Decrypts(f.payload, dek, f.header.nonceDek, ComposeAad(f.header, f.blob, f.wrapped))

\* from_bytes bounds the cost before anything is derived from it.
Parses(f) == f.header.cost \in Costs
UnwrapsFor(f, p) ==
    Decrypts(f.wrapped, WrapKey(p, f.header), f.header.nonceKek, KekAad(f.header))
OsUnwraps(f) == Decrypts(f.blob, "profile", f.header.salt, "entropy")

WithDek(f, dek) == IF MacHolds(f, dek) /\ PayloadOpens(f, dek) THEN "ok" ELSE "integrity"

\* Mutant: the file is verified before the passphrase is known to be right.
UnsealMacFirst(f, p) ==
    CASE ~Parses(f) -> "format"
      [] Parses(f) /\ UnwrapsFor(f, p) -> WithDek(f, f.wrapped.text)
      [] OTHER -> "integrity"

\* unseal_raw with a passphrase; "either" never comes to the OS path.
Unseal(f, p) ==
    CASE ~Parses(f) -> "format"
      [] Parses(f) /\ UnwrapsFor(f, p) -> WithDek(f, f.wrapped.text)
      [] OTHER -> "auth"

\* Mutant: the tag of the payload is thought to be enough.
UnsealOsUnverified(f) ==
    CASE ~Parses(f) -> "format"
      [] Parses(f) /\ OsUnwraps(f) ->
            IF PayloadOpens(f, f.blob.text) THEN "ok" ELSE "integrity"
      [] OTHER -> "os_error"

UnsealOs(f) ==
    CASE ~Parses(f) -> "format"
      [] Parses(f) /\ OsUnwraps(f) -> WithDek(f, f.blob.text)
      [] OTHER -> "os_error"

(***************************************************************************)
(* Writing, and accidents.                                                 *)
(***************************************************************************)

Store(f) ==
    /\ writes < MaxWrites
    /\ writes' = writes + 1
    /\ file' = f /\ written' = written \cup {f}
    /\ UNCHANGED damage

SealingInit ==
    \E p \in Passphrases, cost \in Costs:
        /\ file = Build(1, 1, p, cost, 1) /\ written = {file}
        /\ phrase = p /\ plain = 1
        /\ writes = 1 /\ damage = 0

\* persist_session: the OS path reaches the key.
SaveEdit ==
    /\ Parses(file) /\ OsUnwraps(file)
    /\ Store(UpdatePayload(file, file.blob.text, writes + 1, writes + 1))
    /\ plain' = writes + 1
    /\ UNCHANGED phrase

\* rotate_passphrase keeps the key and the cost; rekey draws and calibrates.
Rewrap ==
    \E p, q \in Passphrases:
        /\ Unseal(file, p) = "ok"
        /\ \/ Store(Build(file.payload.text, file.wrapped.text, q, file.header.cost, writes + 1))
           \/ \E cost \in Costs:
                 Store(Build(file.payload.text, writes + 1, q, cost, writes + 1))
        /\ phrase' = q
        /\ UNCHANGED plain

\* A part of the file is lost, or comes from a backup.
Damage ==
    /\ damage < MaxDamage
    /\ damage' = damage + 1
    /\ \/ \E field \in DOMAIN file.header:
             \E v \in {f.header[field] : f \in written} \cup {Garbage}:
                file' = [file EXCEPT !.header = [@ EXCEPT ![field] = v]]
       \/ \E part \in {"blob", "wrapped", "payload", "mac"}:
             \E v \in {f[part] : f \in written} \cup {Garbage}:
                file' = [file EXCEPT ![part] = v]
    /\ file' # file
    /\ UNCHANGED <<written, phrase, plain, writes>>

SealingNext == SaveEdit \/ Rewrap \/ Damage

SealingSpec == SealingInit /\ [][SealingNext]_sealingVars

-----------------------------------------------------------------------------
SealingTypeOK ==
    /\ phrase \in Passphrases /\ plain \in Numbers /\ writes \in Numbers
    /\ damage \in 0..MaxDamage
    /\ file \in SealedFile /\ written \subseteq SealedFile

\* After any sequence of edits and rotations both the current passphrase and
\* the OS path open the vault and show the payload stored last, although an
\* edit never sees the passphrase. (update_payload, reseal, kek_aad)
BothPathsOpen ==
    damage = 0 => /\ Unseal(file, phrase) = "ok" /\ UnsealOs(file) = "ok"
                  /\ file.payload.text = plain

\* What opens, by either path, is one envelope as the program wrote it: no
\* mixture of two generations and no damaged file, except that an edit writes what
\* it finds in the header under new tags, damaged or not. (verify_with_dek)
OpenedIsWhole ==
    (UnsealOs(file) = "ok" \/ \E p \in Passphrases: Unseal(file, p) = "ok") => file \in written

\* "integrity" is a strike without further question: it is never reported for
\* a file as it was written, nor to a passphrase that is not the one the key
\* is wrapped for; and the right passphrase is never blamed while the wrapped
\* key and what it is bound to are intact. (load_and_unseal, the table of vault.rs)
ErrorsTellApart ==
    \A p \in Passphrases:
        /\ Unseal(file, p) = "integrity" => file \notin written /\ UnwrapsFor(file, p)
        /\ Unseal(file, p) = "auth" =>
              ~ \E f \in written:
                    /\ UnwrapsFor(f, p) /\ f.wrapped = file.wrapped
                    /\ [f.header EXCEPT !.nonceDek = file.header.nonceDek] = file.header

\* No two payloads are ever encrypted under one key with one nonce.
\* (update_payload, and reseal, which keeps the key)
NoncesAreFresh ==
    \A f, g \in written:
        f.payload.key = g.payload.key /\ f.payload.nonce = g.payload.nonce => f = g
=============================================================================
