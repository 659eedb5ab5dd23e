---------------------------- MODULE SealingProofs ----------------------------
(***************************************************************************)
(* Proofs about the vault's envelope, for any number of writes, accidents, *)
(* passphrases and costs.                                                  *)
(***************************************************************************)
EXTENDS Sealing, TLAPS

(***************************************************************************)
(* What the program writes.                                                *)
(***************************************************************************)

\* A payload and a tag that were made for the parts beside them, under the key
\* that the profile unwraps.
Genuine(f) ==
    LET aad == ComposeAad(f.header, f.blob, f.wrapped)
    IN  /\ f \in SealedFile /\ f.blob # Garbage /\ f.payload \in Payload /\ f.mac \in Mac
        /\ f.header.cost \in Costs /\ f.blob.nonce = f.header.salt
        /\ f.payload = Encrypt(f.blob.text, f.header.nonceDek, aad, f.payload.text)
        /\ f.mac = Encrypt(f.blob.text, f.header.salt, <<aad, f.payload>>, "mac")

\* The number that a write draws is none that an earlier one has drawn.
Drawn(f) ==
    /\ f.header.nonceDek \in 1..writes /\ f.blob.nonce \in 1..writes
    /\ f.wrapped # Garbage => f.wrapped.key[2] \in 1..writes
OneWritePerNonce == \A f, g \in written: f.header.nonceDek = g.header.nonceDek => f = g

\* A salt belongs to one key, whoever wrapped it.
OneKeyPerSalt ==
    \A f, g \in written:
        g.wrapped # Garbage /\ f.blob.nonce = g.wrapped.key[2] => f.blob.text = g.wrapped.text

\* An accident makes no ciphertext that was never written.
PartsAreOld ==
    /\ file.blob # Garbage => \E f \in written: file.blob = f.blob
    /\ file.wrapped # Garbage => \E f \in written: file.wrapped = f.wrapped
    /\ file.mac # Garbage => \E f \in written: file.mac = f.mac

UndamagedOpens ==
    damage = 0 => file \in written /\ UnwrapsFor(file, phrase) /\ file.payload.text = plain

SealingInv ==
    /\ SealingTypeOK /\ \A f \in written: Genuine(f) /\ Drawn(f)
    /\ OneWritePerNonce /\ OneKeyPerSalt /\ PartsAreOld /\ UndamagedOpens

-----------------------------------------------------------------------------
\* What is finished is genuine, if the blob belongs to the header.
LEMMA FinishMakes ==
  ASSUME NEW header \in Header, header.cost \in Costs, header.salt \in Numbers,
         header.nonceDek \in Numbers,
         NEW dek \in Numbers, NEW blob \in OsBlob, blob.text = dek, blob.nonce = header.salt,
         NEW wrapped \in WrappedKey \cup {Garbage}, NEW text \in Numbers
  PROVE  LET f == Finish(header, blob, wrapped, dek, text)
         IN  /\ Genuine(f) /\ f.header = header /\ f.blob = blob /\ f.wrapped = wrapped
             /\ f.payload.text = text
<1> DEFINE aad == ComposeAad(header, blob, wrapped)
           payload == Encrypt(dek, header.nonceDek, aad, text)
           mac == Encrypt(dek, header.salt, <<aad, payload>>, "mac")
           f == [header |-> header, blob |-> blob, wrapped |-> wrapped, payload |-> payload,
                 mac |-> mac]
<1>1. f = Finish(header, blob, wrapped, dek, text)
  BY DEF Finish
<1>2. aad \in Aad
  BY DEF ComposeAad, Aad
<1> HIDE DEF aad
<1>3. payload \in Payload /\ payload.text = text
  BY <1>2 DEF Encrypt, Payload, Ciphertexts
<1>4. payload = Encrypt(dek, header.nonceDek, aad, payload.text)
  BY <1>3
<1> HIDE DEF payload
<1>5. mac \in Mac
  BY <1>2, <1>3 DEF Encrypt, Mac, Ciphertexts
<1>6. mac = Encrypt(dek, header.salt, <<aad, payload>>, "mac")
  OBVIOUS
<1> HIDE DEF mac
<1>7. f \in SealedFile
  BY <1>3, <1>5 DEF SealedFile
<1>8. /\ f.header = header /\ f.blob = blob /\ f.wrapped = wrapped /\ f.payload = payload
      /\ f.mac = mac
  OBVIOUS
<1> HIDE DEF f
<1>9. blob # Garbage
  BY SealingAssumption
<1>10. ComposeAad(f.header, f.blob, f.wrapped) = aad
  BY <1>8 DEF aad
<1>11. Genuine(f)
  BY <1>3, <1>4, <1>5, <1>6, <1>7, <1>8, <1>9, <1>10 DEF Genuine
<1> QED
  BY <1>1, <1>3, <1>8, <1>11

\* What is built opens with the passphrase that it is built for.
LEMMA BuildMakes ==
  ASSUME NEW n \in Numbers, NEW dek \in Numbers, NEW p \in Passphrases, NEW cost \in Costs,
         NEW text \in Numbers
  PROVE  LET f == Build(text, dek, p, cost, n)
         IN  /\ Genuine(f) /\ UnwrapsFor(f, p) /\ f.payload.text = text
             /\ f.header.nonceDek = n /\ f.blob.nonce = n /\ f.blob.text = dek
             /\ f.wrapped \in WrappedKey /\ f.wrapped.key[2] = n /\ f.wrapped.text = dek
<1> DEFINE header == [cost |-> cost, salt |-> n, nonceKek |-> n, nonceDek |-> n]
           key == WrapKey(p, header)
           blob == OsWrapped(dek, n)
           wrapped == Encrypt(key, n, KekAad(header), dek)
           f == Finish(header, blob, wrapped, dek, text)
<1>1. f = Build(text, dek, p, cost, n)
  BY DEF Build
<1>2. /\ header \in Header /\ header.cost = cost /\ header.salt = n /\ header.nonceKek = n
      /\ header.nonceDek = n
  BY DEF Header, HeaderFields
<1> HIDE DEF header
<1>3. key \in Passphrases \X Numbers \X Costs /\ key[2] = n
  BY <1>2 DEF WrapKey
<1>4. KekAad(header) \in HeaderFields(Costs, Numbers, {0})
  BY <1>2 DEF KekAad, Header, HeaderFields
<1>5. blob \in OsBlob /\ blob.text = dek /\ blob.nonce = n
  BY DEF OsWrapped, Encrypt, OsBlob, Ciphertexts
<1> HIDE DEF key, blob
<1>6. /\ wrapped \in WrappedKey /\ wrapped.key = key /\ wrapped.nonce = n
      /\ wrapped.aad = KekAad(header) /\ wrapped.text = dek
  BY <1>3, <1>4 DEF Encrypt, WrappedKey, Ciphertexts
<1> HIDE DEF wrapped
<1>7. /\ Genuine(f) /\ f.header = header /\ f.blob = blob /\ f.wrapped = wrapped
      /\ f.payload.text = text
  BY <1>2, <1>5, <1>6, FinishMakes
<1> HIDE DEF f
<1>8. wrapped # Garbage
  BY <1>6, SealingAssumption
<1>9. UnwrapsFor(f, p)
  BY <1>2, <1>6, <1>7, <1>8 DEF UnwrapsFor, Decrypts, key
<1> QED
  BY <1>1, <1>2, <1>3, <1>5, <1>6, <1>7, <1>9

\* Whole files are told by their tags.
LEMMA TagHolds ==
  ASSUME NEW f, Genuine(f)
  PROVE  MacHolds(f, f.blob.text) /\ PayloadOpens(f, f.blob.text) /\ Parses(f) /\ OsUnwraps(f)
<1> DEFINE aad == ComposeAad(f.header, f.blob, f.wrapped)
<1>1. f.blob \in OsBlob
  BY DEF Genuine, SealedFile
<1>2. OsUnwraps(f)
  BY <1>1 DEF Genuine, OsUnwraps, Decrypts, OsBlob, Ciphertexts
<1>3. /\ f.payload = Encrypt(f.blob.text, f.header.nonceDek, aad, f.payload.text)
      /\ f.mac = Encrypt(f.blob.text, f.header.salt, <<aad, f.payload>>, "mac")
      /\ f \in SealedFile
  BY DEF Genuine
<1> HIDE DEF aad
<1>4. f.payload # Garbage /\ f.mac # Garbage
  BY SealingAssumption DEF Genuine
<1> QED
  BY <1>2, <1>3, <1>4 DEF Genuine, MacHolds, PayloadOpens, Decrypts, Encrypt, Parses, aad

LEMMA GenuineParts ==
  ASSUME NEW f, Genuine(f)
  PROVE  /\ f.payload.nonce = f.header.nonceDek
         /\ f.mac.aad = <<ComposeAad(f.header, f.blob, f.wrapped), f.payload>>
<1> DEFINE aad == ComposeAad(f.header, f.blob, f.wrapped)
<1>1. /\ f.payload = Encrypt(f.blob.text, f.header.nonceDek, aad, f.payload.text)
      /\ f.mac = Encrypt(f.blob.text, f.header.salt, <<aad, f.payload>>, "mac")
  BY DEF Genuine
<1> HIDE DEF aad
<1>2. ASSUME NEW c, NEW key, NEW nonce, NEW data, NEW text, c = Encrypt(key, nonce, data, text)
      PROVE  c.nonce = nonce /\ c.aad = data
  BY <1>2 DEF Encrypt
<1>3. f.payload.nonce = f.header.nonceDek /\ f.mac.aad = <<aad, f.payload>>
  BY <1>1, <1>2
<1> QED
  BY <1>3 DEF aad

\* Of a genuine file the passphrase opens what it unwraps.
LEMMA KeysAgree ==
  ASSUME SealingInv, NEW f \in written, NEW p \in Passphrases, UnwrapsFor(f, p)
  PROVE  f.wrapped.text = f.blob.text
<1>1. f.wrapped # Garbage /\ f.wrapped.key = WrapKey(p, f.header)
  BY DEF UnwrapsFor, Decrypts
<1>2. f.wrapped.key[2] = f.header.salt
  BY <1>1 DEF WrapKey
<1>3. f.blob.nonce = f.header.salt
  BY DEF SealingInv, Genuine
<1> QED
  BY <1>1, <1>2, <1>3 DEF SealingInv, OneKeyPerSalt

\* A tag that holds makes the whole file the one that it was computed for.
LEMMA TagTells == ASSUME SealingInv, NEW dek, MacHolds(file, dek) PROVE file \in written
<1>1. /\ file.mac # Garbage
      /\ file.mac.aad = <<ComposeAad(file.header, file.blob, file.wrapped), file.payload>>
  BY DEF MacHolds, Decrypts
<1>2. PICK f \in written: file.mac = f.mac
  BY <1>1 DEF SealingInv, PartsAreOld
<1>3. f.mac.aad = <<ComposeAad(f.header, f.blob, f.wrapped), f.payload>>
  BY GenuineParts DEF SealingInv
<1>4. /\ file.header = f.header /\ file.blob = f.blob /\ file.wrapped = f.wrapped
      /\ file.payload = f.payload
  BY <1>1, <1>2, <1>3 DEF ComposeAad
<1>5. file \in SealedFile /\ f \in SealedFile
  BY DEF SealingInv, SealingTypeOK
<1>6. file = f
  BY <1>2, <1>4, <1>5 DEF SealedFile
<1> QED
  BY <1>6

LEMMA OpensOnlyWhole == SealingInv => OpenedIsWhole
<1>1. ASSUME SealingInv, NEW dek, WithDek(file, dek) = "ok" PROVE file \in written
  BY <1>1, TagTells DEF WithDek
<1> QED
  BY <1>1 DEF OpenedIsWhole, UnsealOs, Unseal

LEMMA TellsApart == SealingInv => ErrorsTellApart
<1> SUFFICES ASSUME SealingInv, NEW p \in Passphrases
             PROVE  /\ Unseal(file, p) = "integrity" => file \notin written /\ UnwrapsFor(file, p)
                    /\ Unseal(file, p) = "auth" =>
                          ~ \E f \in written:
                                /\ UnwrapsFor(f, p) /\ f.wrapped = file.wrapped
                                /\ [f.header EXCEPT !.nonceDek = file.header.nonceDek] = file.header
  BY DEF ErrorsTellApart
<1>1. ASSUME Unseal(file, p) = "integrity" PROVE file \notin written /\ UnwrapsFor(file, p)
  <2>1. Parses(file) /\ UnwrapsFor(file, p) /\ WithDek(file, file.wrapped.text) = "integrity"
    BY <1>1 DEF Unseal
  <2>2. ASSUME file \in written PROVE FALSE
    <3>1. WithDek(file, file.blob.text) = "ok"
      BY <2>2, TagHolds DEF SealingInv, WithDek
    <3> QED
      BY <2>1, <2>2, <3>1, KeysAgree
  <2> QED
    BY <2>1, <2>2
<1>2. ASSUME Unseal(file, p) = "auth", NEW f \in written, UnwrapsFor(f, p),
             f.wrapped = file.wrapped,
             [f.header EXCEPT !.nonceDek = file.header.nonceDek] = file.header
      PROVE  FALSE
  <2>1. f.header \in Header /\ file.header \in Header /\ f.header.cost \in Costs
    BY DEF SealingInv, SealingTypeOK, SealedFile, Genuine
  <2>2. /\ file.header.cost = f.header.cost /\ file.header.salt = f.header.salt
        /\ file.header.nonceKek = f.header.nonceKek
    BY <1>2, <2>1 DEF Header, HeaderFields
  <2>3. KekAad(file.header) = KekAad(f.header)
    BY <2>1, <2>2 DEF KekAad, Header, HeaderFields
  <2>4. Parses(file) /\ UnwrapsFor(file, p)
    BY <1>2, <2>1, <2>2, <2>3 DEF Parses, UnwrapsFor, Decrypts, WrapKey
  <2> QED
    BY <1>2, <2>4 DEF Unseal, WithDek
<1> QED
  BY <1>1, <1>2

LEMMA OpensBothWays == SealingInv => BothPathsOpen
<1> SUFFICES ASSUME SealingInv, damage = 0
             PROVE  /\ Unseal(file, phrase) = "ok" /\ UnsealOs(file) = "ok"
                    /\ file.payload.text = plain
  BY DEF BothPathsOpen
<1>1. file \in written /\ UnwrapsFor(file, phrase) /\ file.payload.text = plain
  BY DEF SealingInv, UndamagedOpens
<1>2. Genuine(file) /\ phrase \in Passphrases
  BY <1>1 DEF SealingInv, SealingTypeOK
<1>3. file.wrapped.text = file.blob.text
  BY <1>1, <1>2, KeysAgree
<1> QED
  BY <1>1, <1>2, <1>3, TagHolds DEF Unseal, UnsealOs, WithDek

LEMMA NoncesFresh == SealingInv => NoncesAreFresh
<1>1. ASSUME SealingInv, NEW f \in written PROVE f.payload.nonce = f.header.nonceDek
  BY <1>1, GenuineParts DEF SealingInv
<1> QED
  BY <1>1 DEF SealingInv, OneWritePerNonce, NoncesAreFresh

-----------------------------------------------------------------------------
\* A genuine file is stored that drew the next number, with a blob and a
\* wrapped key that were made together.
LEMMA StoreKeeps ==
  ASSUME SealingInv, NEW f, Store(f), Genuine(f), f.header.nonceDek = writes + 1,
         f.blob.nonce \in 1..(writes + 1),
         f.wrapped # Garbage => f.wrapped.key[2] \in 1..(writes + 1),
         \/ /\ \E g \in written: f.blob = g.blob
            /\ f.wrapped # Garbage => \E g \in written: f.wrapped = g.wrapped
         \/ /\ f.blob.nonce = writes + 1
            /\ f.wrapped # Garbage /\ f.wrapped.key[2] = writes + 1 /\ f.wrapped.text = f.blob.text,
         phrase' \in Passphrases, plain' \in Numbers,
         damage = 0 => UnwrapsFor(f, phrase') /\ plain' = f.payload.text
  PROVE  SealingInv'
<1>1. /\ writes < MaxWrites /\ writes' = writes + 1 /\ file' = f /\ damage' = damage
      /\ written' = written \cup {f} /\ writes \in 1..MaxWrites /\ MaxWrites \in Nat
  BY SealingAssumption DEF Store, SealingInv, SealingTypeOK, Numbers
<1>2. f \in SealedFile /\ f.payload \in Payload /\ f.payload.text \in Numbers
  BY DEF Genuine, Payload, Ciphertexts
<1>3. SealingTypeOK'
  BY <1>1, <1>2 DEF SealingInv, SealingTypeOK, Numbers
<1>4. ASSUME NEW g \in written'
      PROVE  Genuine(g) /\ Drawn(g)' /\ (g \in written \/ g = f)
  BY <1>1 DEF SealingInv, Drawn
<1>5. OneWritePerNonce'
  <2>1. \A g \in written: g.header.nonceDek # writes + 1
    BY <1>1 DEF SealingInv, Drawn
  <2> QED
    BY <1>1, <2>1 DEF SealingInv, OneWritePerNonce
<1>6. OneKeyPerSalt'
  <2>1. \A g \in written: /\ g.blob.nonce # writes + 1
                          /\ g.wrapped # Garbage => g.wrapped.key[2] # writes + 1
    BY <1>1 DEF SealingInv, Drawn
  <2>2. \A g, h \in written:
           h.wrapped # Garbage /\ g.blob.nonce = h.wrapped.key[2] => g.blob.text = h.wrapped.text
    BY DEF SealingInv, OneKeyPerSalt
  <2>3. ASSUME NEW g \in written', NEW h \in written', h.wrapped # Garbage,
               g.blob.nonce = h.wrapped.key[2]
        PROVE  g.blob.text = h.wrapped.text
    <3>1. (g \in written \/ g = f) /\ (h \in written \/ h = f)
      BY <1>4
    <3> QED
      BY <2>1, <2>2, <2>3, <3>1
  <2> QED
    BY <2>3 DEF OneKeyPerSalt
<1>7. PartsAreOld'
  BY <1>1 DEF PartsAreOld
<1>8. UndamagedOpens'
  BY <1>1 DEF UndamagedOpens
<1>9. \A g \in written': Genuine(g)' /\ Drawn(g)'
  BY <1>4 DEF Genuine
<1> QED
  BY <1>3, <1>5, <1>6, <1>7, <1>8, <1>9 DEF SealingInv

LEMMA SealingInitOK == SealingInit => SealingInv
<1> SUFFICES ASSUME NEW p \in Passphrases, NEW cost \in Costs,
                    file = Build(1, 1, p, cost, 1), written = {file}, phrase = p, plain = 1,
                    writes = 1, damage = 0
             PROVE  SealingInv
  BY DEF SealingInit
<1>1. 1 \in Numbers /\ MaxDamage \in Nat
  BY SealingAssumption DEF Numbers
<1>2. /\ Genuine(file) /\ UnwrapsFor(file, p) /\ file.payload.text = 1
      /\ file.header.nonceDek = 1 /\ file.blob.nonce = 1 /\ file.blob.text = 1
      /\ file.wrapped \in WrappedKey /\ file.wrapped.key[2] = 1 /\ file.wrapped.text = 1
  BY <1>1, BuildMakes
<1>3. SealingTypeOK
  BY <1>1, <1>2 DEF SealingTypeOK, Genuine
<1> QED
  BY <1>2, <1>3 DEF SealingInv, Drawn, OneWritePerNonce, OneKeyPerSalt, PartsAreOld,
     UndamagedOpens

\* An edit keeps the wrapped key, even one it could not open.
LEMMA EditKeeps == ASSUME SealingInv, SaveEdit PROVE SealingInv'
<1> DEFINE n == writes + 1
           header == [file.header EXCEPT !.nonceDek = n]
           dek == file.blob.text
<1>1. /\ Parses(file) /\ OsUnwraps(file) /\ plain' = n /\ phrase' = phrase
      /\ Store(UpdatePayload(file, dek, n, n))
  BY DEF SaveEdit
<1>2. n \in Numbers /\ writes \in Nat
  BY <1>1, SealingAssumption DEF Store, SealingInv, SealingTypeOK, Numbers
<1>3. /\ file.blob \in OsBlob /\ file.blob.nonce = file.header.salt /\ dek \in Numbers
      /\ file.header.salt \in Numbers /\ file.wrapped \in WrappedKey \cup {Garbage}
      /\ file.header \in Header /\ file.blob # Garbage
  BY <1>1 DEF OsUnwraps, Decrypts, SealingInv, SealingTypeOK, SealedFile, OsBlob, Ciphertexts
<1>4. /\ header \in Header /\ header.cost = file.header.cost /\ header.salt = file.header.salt
      /\ header.nonceKek = file.header.nonceKek /\ header.nonceDek = n
  BY <1>2, <1>3 DEF Header, HeaderFields
<1>5. KekAad(header) = KekAad(file.header)
  BY <1>3, <1>4 DEF KekAad, Header, HeaderFields
<1>6. PICK f: f = UpdatePayload(file, dek, n, n)
  OBVIOUS
<1>7. f = Finish(header, file.blob, file.wrapped, dek, n)
  BY <1>6 DEF UpdatePayload
<1> HIDE DEF header, dek, n
<1>8. /\ Genuine(f) /\ f.header = header /\ f.blob = file.blob /\ f.wrapped = file.wrapped
      /\ f.payload.text = n
  BY <1>1, <1>2, <1>3, <1>4, <1>7, FinishMakes DEF Parses, dek
<1>9. damage = 0 => UnwrapsFor(f, phrase')
  BY <1>1, <1>4, <1>5, <1>8 DEF SealingInv, UndamagedOpens, UnwrapsFor, Decrypts, WrapKey
<1>10. /\ \E g \in written: f.blob = g.blob
       /\ f.wrapped # Garbage => \E g \in written: f.wrapped = g.wrapped
  BY <1>3, <1>8 DEF SealingInv, PartsAreOld
<1>11. /\ f.blob.nonce \in 1..(writes + 1)
       /\ f.wrapped # Garbage => f.wrapped.key[2] \in 1..(writes + 1)
  BY <1>2, <1>10 DEF SealingInv, Drawn
<1>12. plain' \in Numbers /\ plain' = f.payload.text
  BY <1>1, <1>2, <1>8
<1> QED
  BY <1>1, <1>4, <1>6, <1>8, <1>9, <1>10, <1>11, <1>12, StoreKeeps DEF n, SealingInv, SealingTypeOK

\* Only a whole file is wrapped anew.
LEMMA RewrapKeeps == ASSUME SealingInv, Rewrap PROVE SealingInv'
<1>1. PICK p, q \in Passphrases:
        /\ Unseal(file, p) = "ok"
        /\ \/ Store(Build(file.payload.text, file.wrapped.text, q, file.header.cost, writes + 1))
           \/ \E cost \in Costs:
                 Store(Build(file.payload.text, writes + 1, q, cost, writes + 1))
        /\ phrase' = q /\ plain' = plain
  BY DEF Rewrap
<1>2. file \in written
  BY <1>1, OpensOnlyWhole DEF OpenedIsWhole
<1>3. /\ file.payload.text \in Numbers /\ file.header.cost \in Costs
      /\ file.wrapped.text \in Numbers
  <2>1. UnwrapsFor(file, p) /\ Parses(file)
    BY <1>1 DEF Unseal
  <2>2. file.wrapped \in WrappedKey /\ file.payload \in Payload
    BY <1>2, <2>1 DEF UnwrapsFor, Decrypts, SealingInv, Genuine, SealedFile
  <2> QED
    BY <2>1, <2>2 DEF Parses, WrappedKey, Payload, Ciphertexts
<1>4. PICK dek \in Numbers, cost \in Costs:
        Store(Build(file.payload.text, dek, q, cost, writes + 1))
  <2>1. writes + 1 \in Numbers
    BY <1>1, SealingAssumption DEF Store, SealingInv, SealingTypeOK, Numbers
  <2> QED
    BY <1>1, <1>3, <2>1
<1>5. writes + 1 \in Numbers /\ writes + 1 \in 1..(writes + 1)
  BY <1>4, SealingAssumption DEF Store, SealingInv, SealingTypeOK, Numbers
<1>6. PICK f: f = Build(file.payload.text, dek, q, cost, writes + 1)
  OBVIOUS
<1>7. /\ Genuine(f) /\ UnwrapsFor(f, q) /\ f.payload.text = file.payload.text
      /\ f.header.nonceDek = writes + 1 /\ f.blob.nonce = writes + 1 /\ f.blob.text = dek
      /\ f.wrapped \in WrappedKey /\ f.wrapped.key[2] = writes + 1 /\ f.wrapped.text = dek
  BY <1>3, <1>5, <1>6, BuildMakes
<1>8. f.wrapped # Garbage
  BY <1>7, SealingAssumption
<1>9. plain' \in Numbers /\ (damage = 0 => plain' = f.payload.text)
  BY <1>1, <1>7 DEF SealingInv, SealingTypeOK, UndamagedOpens
<1> QED
  BY <1>1, <1>4, <1>5, <1>6, <1>7, <1>8, <1>9, StoreKeeps

LEMMA DamageKeeps == ASSUME SealingInv, Damage PROVE SealingInv'
<1>1. /\ damage < MaxDamage /\ damage' = damage + 1 /\ damage \in 0..MaxDamage
      /\ MaxDamage \in Nat /\ UNCHANGED <<written, phrase, plain, writes>>
      /\ file \in SealedFile /\ written \subseteq SealedFile
  BY SealingAssumption DEF Damage, SealingInv, SealingTypeOK
<1>2. /\ file' \in SealedFile
      /\ file'.blob # Garbage => \E f \in written: file'.blob = f.blob
      /\ file'.wrapped # Garbage => \E f \in written: file'.wrapped = f.wrapped
      /\ file'.mac # Garbage => \E f \in written: file'.mac = f.mac
  <2>1. ASSUME NEW field \in DOMAIN file.header,
               NEW v \in {f.header[field] : f \in written} \cup {Garbage},
               file' = [file EXCEPT !.header = [@ EXCEPT ![field] = v]]
        PROVE  /\ file' \in SealedFile /\ file'.blob = file.blob
               /\ file'.wrapped = file.wrapped /\ file'.mac = file.mac
    <3>1. file.header \in Header /\ \A f \in written: f.header \in Header
      BY <1>1 DEF SealedFile
    <3>2. [file.header EXCEPT ![field] = v] \in Header
      BY <2>1, <3>1 DEF Header, HeaderFields
    <3> QED
      BY <1>1, <2>1, <3>2 DEF SealedFile
  <2>2. ASSUME NEW v \in {f.blob : f \in written} \cup {Garbage},
               file' = [file EXCEPT !.blob = v]
        PROVE  /\ file' \in SealedFile /\ file'.blob = v
               /\ file'.wrapped = file.wrapped /\ file'.mac = file.mac
    BY <1>1, <2>2 DEF SealedFile
  <2>3. ASSUME NEW v \in {f.wrapped : f \in written} \cup {Garbage},
               file' = [file EXCEPT !.wrapped = v]
        PROVE  /\ file' \in SealedFile /\ file'.blob = file.blob
               /\ file'.wrapped = v /\ file'.mac = file.mac
    BY <1>1, <2>3 DEF SealedFile
  <2>4. ASSUME NEW v \in {f.payload : f \in written} \cup {Garbage},
               file' = [file EXCEPT !.payload = v]
        PROVE  /\ file' \in SealedFile /\ file'.blob = file.blob
               /\ file'.wrapped = file.wrapped /\ file'.mac = file.mac
    BY <1>1, <2>4 DEF SealedFile
  <2>5. ASSUME NEW v \in {f.mac : f \in written} \cup {Garbage},
               file' = [file EXCEPT !.mac = v]
        PROVE  /\ file' \in SealedFile /\ file'.blob = file.blob
               /\ file'.wrapped = file.wrapped /\ file'.mac = v
    BY <1>1, <2>5 DEF SealedFile
  <2>6. /\ file.blob # Garbage => \E f \in written: file.blob = f.blob
        /\ file.wrapped # Garbage => \E f \in written: file.wrapped = f.wrapped
        /\ file.mac # Garbage => \E f \in written: file.mac = f.mac
    BY DEF SealingInv, PartsAreOld
  <2>7. \/ \E field \in DOMAIN file.header:
             \E v \in {f.header[field] : f \in written} \cup {Garbage}:
                file' = [file EXCEPT !.header = [@ EXCEPT ![field] = v]]
        \/ \E v \in {f.blob : f \in written} \cup {Garbage}: file' = [file EXCEPT !.blob = v]
        \/ \E v \in {f.wrapped : f \in written} \cup {Garbage}: file' = [file EXCEPT !.wrapped = v]
        \/ \E v \in {f.payload : f \in written} \cup {Garbage}: file' = [file EXCEPT !.payload = v]
        \/ \E v \in {f.mac : f \in written} \cup {Garbage}: file' = [file EXCEPT !.mac = v]
    BY DEF Damage
  <2> QED
    BY <2>1, <2>2, <2>3, <2>4, <2>5, <2>6, <2>7
<1>3. SealingTypeOK' /\ PartsAreOld' /\ UndamagedOpens'
  BY <1>1, <1>2 DEF SealingInv, SealingTypeOK, PartsAreOld, UndamagedOpens
<1> QED
  BY <1>1, <1>3 DEF SealingInv, Drawn, OneWritePerNonce, OneKeyPerSalt

LEMMA SealingInductive == SealingSpec => []SealingInv
<1>1. SealingInv /\ [SealingNext]_sealingVars => SealingInv'
  <2> SUFFICES ASSUME SealingInv, [SealingNext]_sealingVars PROVE SealingInv'
    OBVIOUS
  <2>1. CASE UNCHANGED sealingVars
    BY <2>1 DEF sealingVars, SealingInv, SealingTypeOK, Drawn, OneWritePerNonce, OneKeyPerSalt,
       PartsAreOld, UndamagedOpens
  <2> QED
    BY <2>1, EditKeeps, RewrapKeeps, DamageKeeps DEF SealingNext
<1> QED
  BY SealingInitOK, <1>1, PTL DEF SealingSpec

-----------------------------------------------------------------------------
\* The file and every envelope ever written to it stay well formed.
THEOREM SealingTyped == SealingSpec => []SealingTypeOK
  BY SealingInductive, PTL DEF SealingInv

\* After any sequence of edits and rotations both paths open the vault and show
\* the payload stored last (update_payload, reseal, kek_aad).
THEOREM BothPathsStayOpen == SealingSpec => []BothPathsOpen
  BY SealingInductive, OpensBothWays, PTL

\* Whatever is damaged or put back, what opens is one envelope as it was
\* written (verify_with_dek).
THEOREM OnlyWholeFilesOpen == SealingSpec => []OpenedIsWhole
  BY SealingInductive, OpensOnlyWhole, PTL

\* A strike is never counted against a file as it was written, and the right
\* passphrase is never blamed for damage elsewhere (unseal_raw).
THEOREM ErrorsAreTold == SealingSpec => []ErrorsTellApart
  BY SealingInductive, TellsApart, PTL

\* No key ever encrypts two payloads with one nonce (update_payload, reseal).
THEOREM NoncesStayFresh == SealingSpec => []NoncesAreFresh
  BY SealingInductive, NoncesFresh, PTL
=============================================================================
