------------------------------ MODULE Injection ------------------------------
(***************************************************************************)
(* Uploading the vault's credentials as secrets of the repository          *)
(* (src-tauri/src/gh: secrets.rs, the secret endpoints of api.rs).  The    *)
(* public key is fetched once; it may be replaced, the vault edited or     *)
(* locked, and a second upload run, between any two requests.              *)
(***************************************************************************)
EXTENDS Naturals

CONSTANTS
    Uploads,     \* overlapping calls of secrets_inject
    Required,    \* length of REQUIRED_SECRETS
    Values,      \* values of a credential
    MaxRepoKeys, \* public keys the repository has, one after the other
    NoValue      \* not in the vault, not stored

VARIABLES
    repoKey,     \* the current public key
    vaulted,     \* what secret_copy returns for each secret
    stored,      \* the secrets of the repository
    upload

injectionVars == <<repoKey, vaulted, stored, upload>>

SecretNames == 1..Required
SealedBox == [key: 1..MaxRepoKeys, value: Values]

ASSUME InjectionAssumption ==
    /\ Required \in Nat /\ MaxRepoKeys \in Nat \ {0}
    /\ NoValue \notin Values \cup SealedBox

NoUpload == [step |-> "idle", key |-> 0, at |-> 1, box |-> NoValue, ok |-> {}, calm |-> FALSE]

InjectionTypeOK ==
    /\ repoKey \in 1..MaxRepoKeys
    /\ vaulted \in [SecretNames -> Values \cup {NoValue}]
    /\ stored \in [SecretNames -> SealedBox \cup {NoValue}]
    /\ upload \in [Uploads -> [step: {"idle", "key", "copy", "put"},
                               key: 0..MaxRepoKeys,
                               at: 1..(Required + 1),       \* position in REQUIRED_SECRETS
                               box: SealedBox \cup {NoValue},
                               ok: SUBSET SecretNames,      \* reported as stored
                               calm: BOOLEAN]]              \* history: no edit and no other
                                                            \* upload since this one began

InjectionInit ==
    /\ repoKey = 1 /\ vaulted = [n \in SecretNames |-> NoValue]
    /\ stored = vaulted /\ upload = [u \in Uploads |-> NoUpload]

Disturbed == [u \in Uploads |-> [upload[u] EXCEPT !.calm = FALSE]]
Continue(u, fields) == upload' = [upload EXCEPT ![u] = fields]

\* A locked vault has nothing to copy.
EditVault ==
    /\ \/ \E n \in SecretNames, v \in Values \cup {NoValue}: vaulted' = [vaulted EXCEPT ![n] = v]
       \/ vaulted' = [n \in SecretNames |-> NoValue]
    /\ upload' = Disturbed
    /\ UNCHANGED <<repoKey, stored>>

RotateRepoKey ==
    /\ repoKey < MaxRepoKeys
    /\ repoKey' = repoKey + 1
    /\ UNCHANGED <<vaulted, stored, upload>>

SecretsInject(u) ==
    /\ upload[u].step = "idle"
    /\ upload' = [Disturbed EXCEPT ![u] =
          [NoUpload EXCEPT !.step = "key",
                           !.calm = \A w \in Uploads \ {u}: upload[w].step = "idle"]]
    /\ UNCHANGED <<repoKey, vaulted, stored>>

\* Mutant: a failed fetch goes on without a key.
FetchedKeysOrNone == {repoKey, 0}

FetchedKeys == {repoKey}

\* The slug, the token or the key may not be had; then nothing is reported.
RepoPublicKey(u) ==
    /\ upload[u].step = "key"
    /\ \/ \E key \in FetchedKeys: Continue(u, [upload[u] EXCEPT !.step = "copy", !.key = key])
       \/ Continue(u, NoUpload)
    /\ UNCHANGED <<repoKey, vaulted, stored>>

\* secret_copy and seal; a secret that is not there is passed over.
CopySecret(u) ==
    LET c == upload[u]
    IN  /\ c.step = "copy" /\ c.at <= Required
        /\ \/ /\ vaulted[c.at] = NoValue
              /\ Continue(u, [c EXCEPT !.at = @ + 1])
           \/ /\ vaulted[c.at] # NoValue
              /\ Continue(u, [c EXCEPT !.step = "put",
                                 !.box = [key |-> c.key, value |-> vaulted[c.at]]])
        /\ UNCHANGED <<repoKey, vaulted, stored>>

Report(u) ==
    /\ upload[u].step = "copy" /\ upload[u].at > Required
    /\ Continue(u, NoUpload)
    /\ UNCHANGED <<repoKey, vaulted, stored>>

\* Mutant: the key is read again for the write, the box is not sealed again.
KeyIdRefetched(c) == repoKey

KeyId(c) == c.key

\* Mutant: an answer of any kind counts as stored.
ReportsOkAlways(arrived) == {TRUE}

\* A write that arrived may still be reported as a network error.
ReportsOk(arrived) == IF arrived THEN BOOLEAN ELSE {FALSE}

\* GitHub stores a box whose key_id is the current one, and rejects any other.
PutSecret(u) ==
    LET c == upload[u]
    IN  /\ c.step = "put"
        /\ \E arrived \in BOOLEAN:
              /\ arrived => KeyId(c) = repoKey
              /\ stored' = IF arrived THEN [stored EXCEPT ![c.at] = c.box] ELSE stored
              /\ \E ok \in ReportsOk(arrived):
                    Continue(u, [c EXCEPT !.step = "copy", !.box = NoValue, !.at = @ + 1,
                                          !.ok = IF ok THEN @ \cup {c.at} ELSE @])
        /\ UNCHANGED <<repoKey, vaulted>>

InjectionNext ==
    \/ EditVault \/ RotateRepoKey
    \/ \E u \in Uploads: \/ SecretsInject(u) \/ RepoPublicKey(u)
                         \/ CopySecret(u) \/ PutSecret(u) \/ Report(u)

InjectionSpec == InjectionInit /\ [][InjectionNext]_injectionVars

-----------------------------------------------------------------------------
\* A key replaced halfway makes the remaining writes fail loudly: nothing is
\* stored that was sealed to another key than the current one. (put_secret)
StoresOnlyReadable ==
    [][\A n \in SecretNames: stored'[n] # stored[n] => stored'[n].key = repoKey]_injectionVars

\* When an upload that nothing disturbed reports a secret as stored, the
\* repository has the value that the vault has. (inject_required)
ReportsAreTrue ==
    \A u \in Uploads: upload[u].calm =>
        \A n \in upload[u].ok: stored[n] # NoValue /\ stored[n].value = vaulted[n]
=============================================================================
