---------------------------- MODULE Stores_proofs ----------------------------
(***************************************************************************)
(* Proofs for the stores of credentials and of assets: that every          *)
(* credential can be decrypted and a deleted one does not come back, that  *)
(* what was acknowledged is in the file whenever the server is lost, and   *)
(* that an upload undisturbed by another of its name keeps its file; for   *)
(* every set of users, requests and assets, every number of keys and       *)
(* uploads and every width of the version.                                 *)
(***************************************************************************)
EXTENDS Credentials, AssetStore, AssetUpload, TLAPS

-----------------------------------------------------------------------------
(* Credentials. *)

\* A rotated record is a record, of the same owner and under the same ID, and
\* its secret is bound to it.
LEMMA RotateLemma ==
    ASSUME CredTypeOK, submissions < MaxSecrets, NEW r \in CredentialRecord
    PROVE  /\ Rotate(r) \in CredentialRecord
           /\ Rotate(r).id = r.id
           /\ Rotate(r).secret.aad = credentialAAD(Rotate(r))
           /\ Rotate(r).secret.plaintext.from = Rotate(r).user
<1> DEFINE next == [r EXCEPT !.keyVersion = (@ + 1) % VersionSpan]
<1>1. (r.keyVersion + 1) % VersionSpan \in Version
  BY CredentialAssumption DEF CredentialRecord, Version
<1>2. /\ next \in CredentialRecord
      /\ next.id = r.id
      /\ next.user = r.user
  BY <1>1 DEF CredentialRecord
<1>3. credentialAAD(next) \in AAD
  BY <1>2 DEF CredentialRecord, credentialAAD, AAD
<1>4. [from |-> r.user, nr |-> submissions + 1] \in APIKey
  BY CredentialAssumption DEF CredTypeOK, CredentialRecord, APIKey
<1>5. /\ Encrypt(r.user, next) \in EncryptedSecret
      /\ Encrypt(r.user, next).aad = credentialAAD(next)
      /\ Encrypt(r.user, next).plaintext.from = r.user
  BY <1>3, <1>4 DEF EncryptedSecret, Encrypt
<1>6. Rotate(r) = [next EXCEPT !.secret = Encrypt(r.user, next)]
  BY DEF Rotate
<1> HIDE DEF next
<1>7. /\ Rotate(r) \in CredentialRecord
      /\ Rotate(r).secret = Encrypt(r.user, next)
      /\ Rotate(r).id = next.id
      /\ Rotate(r).user = next.user
      /\ Rotate(r).provider = next.provider
      /\ Rotate(r).keyVersion = next.keyVersion
  BY <1>2, <1>5, <1>6 DEF CredentialRecord
<1>8. credentialAAD(Rotate(r)) = credentialAAD(next)
  BY <1>7 DEF credentialAAD
<1> QED
  BY <1>2, <1>5, <1>7, <1>8

\* The record that an update writes back.
Changed(q) == LET r == request[q].record
              IN  IF "name" \in request[q].patch THEN [r EXCEPT !.name = "second"] ELSE r

Written(q) == IF "apiKey" \in request[q].patch THEN Rotate(Changed(q)) ELSE Changed(q)

\* A command in hand has a record; an update has a patch as well.
LEMMA HeldCommand ==
    ASSUME CredTypeOK, NEW q \in Request, request[q].kind # "idle"
    PROVE  request[q].record \in CredentialRecord
  BY DEF CredTypeOK, Command, Idle

\* An update writes back a record of the one it found.
LEMMA WrittenLemma ==
    ASSUME CredTypeOK, HeldRecordsMatch, NEW q \in Request, Update(q)
    PROVE  /\ Written(q) \in CredentialRecord
           /\ Written(q).id = request[q].record.id
           /\ Written(q).id <= savedKeys
           /\ Written(q).secret.aad = credentialAAD(Written(q))
           /\ Written(q).secret.plaintext.from = Written(q).user
           /\ StoreUpdate(Written(q))
           /\ submissions' \in 0 .. MaxSecrets
<1> DEFINE r == request[q].record
<1>1. /\ request[q].kind = "update"
      /\ r \in CredentialRecord
  BY HeldCommand DEF Update
<1>2. /\ r.secret.aad = credentialAAD(r)
      /\ r.secret.plaintext.from = r.user
      /\ r.id <= savedKeys
  BY <1>1 DEF HeldRecordsMatch
<1>3. /\ Changed(q) \in CredentialRecord
      /\ Changed(q).id = r.id
      /\ Changed(q).user = r.user
      /\ Changed(q).provider = r.provider
      /\ Changed(q).keyVersion = r.keyVersion
      /\ Changed(q).secret = r.secret
  BY <1>1 DEF Changed, CredentialRecord
<1>4. /\ Changed(q).secret.aad = credentialAAD(Changed(q))
      /\ Changed(q).secret.plaintext.from = Changed(q).user
  BY <1>2, <1>3 DEF credentialAAD
<1>5. CASE "apiKey" \in request[q].patch
  <2>1. /\ submissions < MaxSecrets
        /\ submissions' = submissions + 1
        /\ StoreUpdate(Rotate(Changed(q)))
    BY <1>5 DEF Update, Changed
  <2>2. submissions' \in 0 .. MaxSecrets
    BY <2>1, CredentialAssumption DEF CredTypeOK
  <2>3. Written(q) = Rotate(Changed(q))
    BY <1>5 DEF Written
  <2> QED
    BY <1>2, <1>3, <2>1, <2>2, <2>3, RotateLemma
<1>6. CASE "apiKey" \notin request[q].patch
  <2>1. /\ UNCHANGED submissions
        /\ StoreUpdate(Changed(q))
    BY <1>6 DEF Update, Changed
  <2>2. Written(q) = Changed(q)
    BY <1>6 DEF Written
  <2> QED
    BY <1>2, <1>3, <1>4, <2>1, <2>2 DEF CredTypeOK
<1> QED
  BY <1>5, <1>6

\* The record that Save makes.
LEMMA SaveLemma ==
    ASSUME CredTypeOK, NEW u \in User, NEW p \in Provider, Save(u, p)
    PROVE  \E r \in CredentialRecord :
               /\ credentials' = credentials \cup {r}
               /\ r.id = savedKeys + 1
               /\ r.secret.aad = credentialAAD(r)
               /\ r.secret.plaintext.from = r.user
<1> DEFINE head == [id |-> savedKeys + 1, user |-> u, provider |-> p, keyVersion |-> 1]
           r == [id |-> savedKeys + 1, user |-> u, provider |-> p, name |-> "first",
                 keyVersion |-> 1, secret |-> Encrypt(u, head)]
<1>1. savedKeys + 1 \in KeyID /\ 1 \in Version
  BY CredentialAssumption DEF Save, CredTypeOK, KeyID, Version
<1>2. submissions + 1 \in 1 .. MaxSecrets
  BY CredentialAssumption DEF Save, CredTypeOK
<1>3. credentialAAD(head) \in AAD /\ credentialAAD(head) = credentialAAD(r)
  BY <1>1 DEF credentialAAD, AAD
<1>4. /\ Encrypt(u, head) \in EncryptedSecret
      /\ Encrypt(u, head).aad = credentialAAD(head)
      /\ Encrypt(u, head).plaintext.from = u
  BY <1>2, <1>3 DEF Encrypt, EncryptedSecret, APIKey
<1>5. r \in CredentialRecord
  BY <1>1, <1>4 DEF CredentialRecord
<1>6. credentials' = credentials \cup {r}
  BY DEF Save
<1>7. r.id = savedKeys + 1 /\ r.user = u /\ r.secret = Encrypt(u, head)
  OBVIOUS
<1> HIDE DEF r, head
<1> QED
  BY <1>3, <1>4, <1>5, <1>6, <1>7
\* No step takes a variable out of its type.
LEMMA CredTypeStep ==
    ASSUME CredTypeOK, HeldRecordsMatch, [CredNext]_credVars
    PROVE  CredTypeOK'
<1>1. ASSUME NEW u \in User, NEW p \in Provider, Save(u, p) PROVE CredTypeOK'
  <2>1. credentials' \subseteq CredentialRecord
    BY <1>1, SaveLemma DEF CredTypeOK
  <2>2. savedKeys' \in 0 .. MaxKeys /\ submissions' \in 0 .. MaxSecrets
    BY <1>1, CredentialAssumption DEF Save, CredTypeOK
  <2> QED
    BY <1>1, <2>1, <2>2 DEF Save, CredTypeOK
<1>2. ASSUME NEW q \in Request, NEW r \in credentials,
             (\E patch \in Patch : FindForUpdate(q, r, patch)) \/ FindForDelete(q, r)
      PROVE  CredTypeOK'
  <2>1. r \in CredentialRecord
    BY DEF CredTypeOK
  <2>2. request' \in [Request -> Command \cup {Idle}]
    BY <1>2, <2>1 DEF FindForUpdate, FindForDelete, Command, CredTypeOK
  <2> QED
    BY <1>2, <2>2 DEF FindForUpdate, FindForDelete, CredTypeOK
<1>3. ASSUME NEW q \in Request, Update(q) PROVE CredTypeOK'
  <2>1. credentials' \subseteq CredentialRecord
    BY <1>3, WrittenLemma DEF StoreUpdate, Others, CredTypeOK
  <2>2. submissions' \in 0 .. MaxSecrets
    BY <1>3, WrittenLemma
  <2> QED
    BY <1>3, <2>1, <2>2 DEF Update, CredTypeOK
<1>4. ASSUME NEW q \in Request, Delete(q) PROVE CredTypeOK'
  <2>1. request[q].record \in CredentialRecord
    BY <1>4, HeldCommand DEF Delete
  <2>2. request[q].record.id \in KeyID
    BY <2>1 DEF CredentialRecord
  <2> QED
    BY <1>4, <2>2 DEF Delete, Others, CredTypeOK
<1>5. CASE RestartServer
  BY <1>5 DEF RestartServer, CredTypeOK
<1>6. CASE UNCHANGED credVars
  BY <1>6 DEF credVars, CredTypeOK
<1> QED
  BY <1>1, <1>2, <1>3, <1>4, <1>5, <1>6 DEF CredNext, Manage

\* The inductive step: each action keeps every secret with its record, brings
\* no deleted ID back, and leaves in hand only what was once stored.
LEMMA CredInvStep ==
    ASSUME CredTypeOK, CredInv, [CredNext]_credVars
    PROVE  CredInv'
<1> USE DEF CredInv, SecretMatchesRecord, DeletedStaysDeleted, Has
<1>1. ASSUME NEW u \in User, NEW p \in Provider, Save(u, p) PROVE CredInv'
  <2>1. PICK new \in CredentialRecord :
            /\ credentials' = credentials \cup {new}
            /\ new.id = savedKeys + 1
            /\ new.secret.aad = credentialAAD(new)
            /\ new.secret.plaintext.from = new.user
    BY <1>1, SaveLemma
  <2>2. savedKeys' = savedKeys + 1 /\ savedKeys \in Nat /\ UNCHANGED <<deletedKeys, request>>
    BY <1>1 DEF Save, CredTypeOK
  <2>3. \A id \in KeyID : id <= savedKeys => id # new.id /\ id <= savedKeys'
    BY <2>1, <2>2 DEF KeyID
  <2>4. /\ \A r \in credentials : r.id \in KeyID
        /\ deletedKeys \subseteq KeyID
        /\ \A q \in Request : request[q].kind # "idle" => request[q].record.id \in KeyID
    BY HeldCommand DEF CredTypeOK, CredentialRecord
  <2>5. SecretMatchesRecord'
    BY <2>1, <2>3, <2>4
  <2>6. DeletedStaysDeleted' /\ (\A id \in deletedKeys : id <= savedKeys')
    BY <2>1, <2>2, <2>3, <2>4
  <2>7. HeldRecordsMatch'
    BY <2>2, <2>3, <2>4 DEF HeldRecordsMatch
  <2>8. \A r \in credentials' : r.id <= savedKeys'
    BY <2>1, <2>2, <2>3, <2>4
  <2> QED
    BY <2>2, <2>5, <2>6, <2>7, <2>8
<1>2. ASSUME NEW q \in Request, NEW r \in credentials,
             (\E patch \in Patch : FindForUpdate(q, r, patch)) \/ FindForDelete(q, r)
      PROVE  CredInv'
  <2>1. request' \in [Request -> Command \cup {Idle}]
    BY <1>2, CredTypeStep DEF CredNext, Manage, CredTypeOK
  <2>2. /\ request'[q].record = r
        /\ \A p \in Request \ {q} : request'[p] = request[p]
        /\ UNCHANGED <<credentials, savedKeys, deletedKeys>>
    BY <1>2 DEF FindForUpdate, FindForDelete, CredTypeOK
  <2>3. HeldRecordsMatch'
    BY <2>2 DEF HeldRecordsMatch
  <2> QED
    BY <2>2, <2>3
<1>3. ASSUME NEW q \in Request, Update(q) PROVE CredInv'
  <2> DEFINE w == Written(q)
  <2>1. /\ w.id <= savedKeys
        /\ w.secret.aad = credentialAAD(w)
        /\ w.secret.plaintext.from = w.user
        /\ StoreUpdate(w)
    BY <1>3, WrittenLemma
  <2> HIDE DEF w
  <2>2. UNCHANGED <<savedKeys, deletedKeys>>
    BY <1>3 DEF Update
  <2>3. HeldRecordsMatch'
    BY <1>3, <2>2 DEF HeldRecordsMatch, Update, CredTypeOK, Idle
  <2>4. SecretMatchesRecord'
    BY <2>1 DEF StoreUpdate, Others
  <2>5. DeletedStaysDeleted' /\ (\A r \in credentials' : r.id <= savedKeys')
    BY <2>1, <2>2 DEF StoreUpdate, Others
  <2> QED
    BY <2>2, <2>3, <2>4, <2>5
<1>4. ASSUME NEW q \in Request, Delete(q) PROVE CredInv'
  <2> DEFINE id == request[q].record.id
  <2>1. id <= savedKeys
    BY <1>4 DEF Delete, HeldRecordsMatch
  <2>2. \/ credentials' = Others(id) /\ deletedKeys' = deletedKeys \cup {id}
        \/ credentials' = credentials /\ deletedKeys' = deletedKeys
    BY <1>4 DEF Delete
  <2> HIDE DEF id
  <2>3. UNCHANGED savedKeys
    BY <1>4 DEF Delete
  <2>4. HeldRecordsMatch'
    BY <1>4, <2>3 DEF HeldRecordsMatch, Delete, CredTypeOK, Idle
  <2>5. SecretMatchesRecord' /\ DeletedStaysDeleted'
    BY <2>2 DEF Others
  <2> QED
    BY <2>1, <2>2, <2>3, <2>4, <2>5 DEF Others
<1>5. CASE RestartServer
  BY <1>5 DEF RestartServer, HeldRecordsMatch, Idle
<1>6. CASE UNCHANGED credVars
  BY <1>6 DEF credVars, HeldRecordsMatch
<1> QED
  BY <1>1, <1>2, <1>3, <1>4, <1>5, <1>6 DEF CredNext, Manage

\* The types and the invariant hold together: the type of a record written back
\* is that of a record once found.
LEMMA CredInvariant == CredSpec => [](CredTypeOK /\ CredInv)
<1>1. CredInit => CredTypeOK /\ CredInv
  BY CredentialAssumption DEF CredInit, CredTypeOK, CredInv, SecretMatchesRecord,
     DeletedStaysDeleted, HeldRecordsMatch, Idle
<1>2. CredTypeOK /\ CredInv /\ [CredNext]_credVars => (CredTypeOK /\ CredInv)'
  BY CredTypeStep, CredInvStep DEF CredInv
<1> QED
  BY <1>1, <1>2, PTL DEF CredSpec

\* Every variable holds a value of its type in every state.
THEOREM CredTypeCorrect == CredSpec => []CredTypeOK
  BY CredInvariant, PTL

\* What Use finds it can decrypt: every stored secret is bound to its record as
\* it is, however updates, deletions and restarts interleave.
THEOREM SecretMatchesRecordHolds == CredSpec => []SecretMatchesRecord
<1>1. CredTypeOK /\ CredInv => SecretMatchesRecord
  BY DEF CredInv
<1> QED
  BY <1>1, CredInvariant, PTL

\* A deleted credential does not come back through an update that found it
\* before.
THEOREM DeletedStaysDeletedHolds == CredSpec => []DeletedStaysDeleted
<1>1. CredTypeOK /\ CredInv => DeletedStaysDeleted
  BY DEF CredInv
<1> QED
  BY <1>1, CredInvariant, PTL

-----------------------------------------------------------------------------
\* Nothing comes between what the only request finds and what it does.
LEMMA HeldIsStoredStep ==
    ASSUME NEW only, Request = {only}, CredTypeOK, HeldIsStored, [CredNext]_credVars
    PROVE  HeldIsStored'
<1> USE DEF CredTypeOK, HeldIsStored
<1>1. ASSUME NEW u \in User, NEW p \in Provider, Save(u, p) PROVE HeldIsStored'
  BY <1>1 DEF Save
<1>2. ASSUME NEW q \in Request, NEW r \in credentials, NEW patch \in Patch,
             FindForUpdate(q, r, patch)
      PROVE  HeldIsStored'
  BY <1>2 DEF FindForUpdate
<1>3. ASSUME NEW q \in Request, NEW r \in credentials, FindForDelete(q, r)
      PROVE  HeldIsStored'
  BY <1>3 DEF FindForDelete
<1>4. ASSUME NEW q \in Request, Update(q) \/ Delete(q) PROVE HeldIsStored'
  BY <1>4 DEF Update, Delete, Idle
<1>5. CASE RestartServer
  BY <1>5 DEF RestartServer, Idle
<1>6. CASE UNCHANGED credVars
  BY <1>6 DEF credVars
<1> QED
  BY <1>1, <1>2, <1>3, <1>4, <1>5, <1>6 DEF CredNext, Manage

\* "Update modifies only non-nil mutable fields" (gateway.go:40) is true of
\* requests that come one after the other: what breaks it in the run
\* lost_rotation is the store's mutex being given back between Find and Update.
THEOREM UpdateModifiesOnlyNamedAlone ==
    ASSUME NEW only, Request = {only}
    PROVE  CredSpec => UpdateModifiesOnlyNamed
<1> DEFINE Named(q, r, s) == /\ "name" \notin request[q].patch => s.name = r.name
                             /\ "apiKey" \notin request[q].patch => s.secret = r.secret
           Step == \A q \in Request : request[q].kind = "update" /\ request'[q] = Idle =>
                     \A r \in credentials, s \in credentials' :
                        r.id = request[q].record.id /\ s.id = r.id => Named(q, r, s)
<1>1. CredInit => HeldIsStored
  BY DEF CredInit, HeldIsStored, Idle
<1>2. CredTypeOK /\ HeldIsStored /\ [CredNext]_credVars => HeldIsStored'
  BY HeldIsStoredStep
<1>3. CredTypeOK /\ CredInv /\ HeldIsStored /\ [CredNext]_credVars => [Step]_credVars
  <2> SUFFICES ASSUME CredTypeOK, CredInv, HeldIsStored, CredNext,
                      NEW q \in Request, request[q].kind = "update", request'[q] = Idle,
                      NEW r \in credentials, NEW s \in credentials',
                      r.id = request[q].record.id, s.id = r.id
               PROVE  Named(q, r, s)
    OBVIOUS
  <2>1. r = request[q].record
    BY DEF HeldIsStored, CredInv, SecretMatchesRecord
  <2>2. CASE Update(q)
    <3>1. StoreUpdate(Written(q)) /\ Written(q).id = r.id
      BY <2>1, <2>2, WrittenLemma DEF CredInv
    <3>2. s = Written(q)
      BY <3>1 DEF StoreUpdate, Others, Has
    <3>3. r \in CredentialRecord
      BY DEF CredTypeOK
    <3>4. "name" \notin request[q].patch => Changed(q) = r
      BY <2>1 DEF Changed
    <3>5. Changed(q) \in CredentialRecord /\ Changed(q).secret = r.secret
      BY <2>1, <3>3 DEF Changed, CredentialRecord
    <3>6. Rotate(Changed(q)).name = Changed(q).name
      BY <3>5 DEF Rotate, CredentialRecord
    <3> QED
      BY <3>2, <3>4, <3>5, <3>6 DEF Written
  <2>3. ASSUME NEW u \in User, NEW p \in Provider, Save(u, p) PROVE FALSE
    BY <2>3 DEF Save, Idle
  <2>4. ASSUME NEW v \in Request, NEW f \in credentials,
               (\E patch \in Patch : FindForUpdate(v, f, patch)) \/ FindForDelete(v, f)
        PROVE  FALSE
    BY <2>4 DEF FindForUpdate, FindForDelete, Idle
  <2>5. ASSUME Delete(q) PROVE FALSE
    BY <2>5 DEF Delete
  <2>6. ASSUME RestartServer PROVE FALSE
    BY <2>6 DEF RestartServer
  <2> QED
    BY <2>2, <2>3, <2>4, <2>5, <2>6 DEF CredNext, Manage
<1> QED
  BY <1>1, <1>2, <1>3, CredInvariant, PTL
  DEF CredSpec, UpdateModifiesOnlyNamed

-----------------------------------------------------------------------------
(* The asset store. *)

\* Every variable holds a value of its type in every state.
THEOREM StoreTypeCorrect == StoreSpec => []StoreTypeOK
<1>1. StoreInit => StoreTypeOK
  BY DEF StoreInit, StoreTypeOK, NoSave
<1>2. StoreTypeOK /\ [StoreNext]_storeVars => StoreTypeOK'
  <2> SUFFICES ASSUME StoreTypeOK, [StoreNext]_storeVars PROVE StoreTypeOK'
    OBVIOUS
  <2> USE DEF StoreTypeOK, Saving, NoSave
  <2>1. ASSUME NEW a \in AssetID, CreateAsset(a) PROVE StoreTypeOK'
    BY <2>1 DEF CreateAsset
  <2>2. ASSUME NEW a \in AssetID, DeleteAsset(a) PROVE StoreTypeOK'
    BY <2>2 DEF DeleteAsset
  <2>3. CASE WriteTemp
    BY <2>3 DEF WriteTemp
  <2>4. CASE CommitSave
    <3>1. saving \in Saving /\ saving.id \in AssetID
      BY <2>4 DEF CommitSave
    <3> QED
      BY <2>4, <3>1 DEF CommitSave
  <2>5. CASE FailSave
    BY <2>5 DEF FailSave
  <2>6. CASE CrashStore
    BY <2>6 DEF CrashStore
  <2>7. CASE UNCHANGED storeVars
    BY <2>7 DEF storeVars
  <2> QED
    BY <2>1, <2>2, <2>3, <2>4, <2>5, <2>6, <2>7 DEF StoreNext
<1> QED
  BY <1>1, <1>2, PTL DEF StoreSpec

\* The inductive invariant: a whole temporary file is the map as it is, so the
\* rename loses nothing that was acknowledged.
THEOREM StoreInvHolds == StoreSpec => []StoreInv
<1>1. StoreInit => StoreInv
  BY TornAssumption DEF StoreInit, StoreInv, AckedIsDurable, NoSave
<1>2. StoreTypeOK /\ StoreInv /\ [StoreNext]_storeVars => StoreInv'
  <2> SUFFICES ASSUME StoreTypeOK, StoreInv, [StoreNext]_storeVars PROVE StoreInv'
    OBVIOUS
  <2> USE DEF StoreTypeOK, StoreInv, AckedIsDurable, Saving, NoSave
  <2>1. ASSUME NEW a \in AssetID, CreateAsset(a) PROVE StoreInv'
    BY <2>1 DEF CreateAsset
  <2>2. ASSUME NEW a \in AssetID, DeleteAsset(a) PROVE StoreInv'
    BY <2>2 DEF DeleteAsset
  <2>3. CASE WriteTemp
    BY <2>3 DEF WriteTemp
  <2>4. CASE CommitSave
    BY <2>4 DEF CommitSave
  <2>5. CASE FailSave
    BY <2>5 DEF FailSave
  <2>6. CASE CrashStore
    BY <2>6 DEF CrashStore
  <2>7. CASE UNCHANGED storeVars
    BY <2>7 DEF storeVars
  <2> QED
    BY <2>1, <2>2, <2>3, <2>4, <2>5, <2>6, <2>7 DEF StoreNext
<1> QED
  BY <1>1, <1>2, StoreTypeCorrect, PTL DEF StoreSpec

\* A server that is lost in the middle of a save starts again with every asset
\* whose registration was acknowledged and whose deletion nobody asked for.
THEOREM AckedIsDurableHolds == StoreSpec => []AckedIsDurable
<1>1. StoreInv => AckedIsDurable
  BY DEF StoreInv
<1> QED
  BY <1>1, StoreInvHolds, PTL

-----------------------------------------------------------------------------
\* Every variable of the uploads holds a value of its type in every state.
THEOREM UploadTypeCorrect == UploadSpec => []UploadTypeOK
<1> USE UploadAssumption DEF UploadTypeOK, Upload, Name
<1>1. UploadInit => UploadTypeOK
  BY DEF UploadInit
<1>2. UploadTypeOK /\ [UploadNext]_uploadVars => UploadTypeOK'
  <2> SUFFICES ASSUME UploadTypeOK, [UploadNext]_uploadVars PROVE UploadTypeOK'
    OBVIOUS
  <2>1. ASSUME NEW u \in Upload, CreateFile(u) PROVE UploadTypeOK'
    <3>1. FileName[u] \in Name /\ Opened(u) \in 0 .. Uploads
      BY DEF Opened
    <3>2. disturbed' \subseteq Upload
      BY <2>1 DEF CreateFile, Meet, Namesakes
    <3>3. contents' \in [Upload -> SUBSET Upload]
      BY <2>1, <3>1 DEF CreateFile
    <3> QED
      BY <2>1, <3>1, <3>2, <3>3 DEF CreateFile
  <2>2. ASSUME NEW u \in Upload, CopyFile(u) PROVE UploadTypeOK'
    BY <2>2 DEF CopyFile
  <2>3. ASSUME NEW u \in Upload, CopyFails(u) PROVE UploadTypeOK'
    BY <2>3 DEF CopyFails
  <2>4. ASSUME NEW u \in Upload, RegisterUpload(u) PROVE UploadTypeOK'
    BY <2>4 DEF RegisterUpload
  <2>5. CASE UNCHANGED uploadVars
    BY <2>5 DEF uploadVars
  <2> QED
    BY <2>1, <2>2, <2>3, <2>4, <2>5 DEF UploadNext
<1> QED
  BY <1>1, <1>2, PTL DEF UploadSpec

\* An upload opens a file that exists or becomes the file of that name, and
\* every file that was made under its name keeps it.
LEMMA OpenedLemma ==
    ASSUME UploadTypeOK, FilesKeepName, NEW u \in Upload
    PROVE  /\ Opened(u) \in Upload
           /\ FileName[Opened(u)] = FileName[u]
           /\ FileName[u] \in Name
BY UploadAssumption DEF UploadTypeOK, FilesKeepName, Opened, Name, Upload

\* Opening a file disturbs every namesake, and its own upload when one of them
\* is still writing.
LEMMA MeetLemma ==
    ASSUME NEW u \in Upload, Meet(u)
    PROVE  /\ disturbed \subseteq disturbed'
           /\ \A v \in Upload \ disturbed' :
                 v # u /\ handler[v] # "none" => FileName[v] # FileName[u]
           /\ u \notin disturbed' => \A v \in Namesakes(u) : handler[v] # "copy"
BY DEF Meet, Namesakes

\* A step of an upload preserves the invariant.
LEMMA CreateFileStep ==
    ASSUME UploadTypeOK, UploadInv, NEW u \in Upload, CreateFile(u)
    PROVE  UploadInv'
<1> DEFINE f == Opened(u)
<1>1. f \in Upload /\ FileName[f] = FileName[u] /\ FileName[u] \in Name
  BY OpenedLemma DEF UploadInv
<1> HIDE DEF f
<1>2. /\ handler[u] = "none"
      /\ handler' = [handler EXCEPT ![u] = "copy"]
      /\ dst' = [dst EXCEPT ![u] = f]
      /\ link' = [link EXCEPT ![FileName[u]] = f]
      /\ contents' = [contents EXCEPT ![f] = {}]
  BY DEF CreateFile, f
<1>3. /\ disturbed \subseteq disturbed'
      /\ \A v \in Upload \ disturbed' :
            v # u /\ handler[v] # "none" => FileName[v] # FileName[u]
      /\ u \notin disturbed' => \A v \in Namesakes(u) : handler[v] # "copy"
  BY MeetLemma DEF CreateFile
<1>4. f # 0
  BY <1>1, UploadAssumption DEF Upload
<1>5. FilesKeepName'
  BY <1>1, <1>2, <1>4 DEF UploadTypeOK, UploadInv, FilesKeepName
<1>6. (\A v \in Upload : handler[v] \in {"copy", "register", "ok"} => dst[v] # 0)'
  BY <1>1, <1>2, <1>4 DEF UploadTypeOK, UploadInv
<1>7. WritesAlone'
  <2> SUFFICES ASSUME NEW v \in Upload \ disturbed', handler'[v] # "none",
                      NEW w \in Namesakes(v)'
               PROVE  handler'[w] # "copy"
    BY DEF WritesAlone
  <2>1. w \in Upload /\ w # v /\ FileName[w] = FileName[v] /\ handler'[w] # "none"
    BY DEF Namesakes
  <2>2. CASE v = u
    <3>1. w \in Namesakes(u) /\ handler'[w] = handler[w]
      BY <1>2, <2>1, <2>2 DEF UploadTypeOK, Namesakes
    <3> QED
      BY <1>3, <2>2, <3>1
  <2>3. CASE v # u
    <3>1. handler[v] # "none" /\ v \in Upload \ disturbed
      BY <1>2, <1>3, <2>3 DEF UploadTypeOK
    <3>2. w # u
      BY <1>3, <2>1, <2>3, <3>1
    <3>3. w \in Namesakes(v) /\ handler'[w] = handler[w]
      BY <1>2, <2>1, <3>2 DEF UploadTypeOK, Namesakes
    <3> QED
      BY <3>1, <3>3 DEF UploadInv, WritesAlone
  <2> QED
    BY <2>2, <2>3
<1>8. HoldsItsFile'
  <2> SUFFICES ASSUME NEW v \in Upload \ disturbed',
                      handler'[v] \in {"copy", "register", "ok"}
               PROVE  /\ dst'[v] = link'[FileName[v]]
                      /\ contents'[dst'[v]] = IF handler'[v] = "copy" THEN {} ELSE {v}
    BY DEF HoldsItsFile
  <2>1. CASE v = u
    BY <1>1, <1>2, <2>1 DEF UploadTypeOK
  <2>2. CASE v # u
    <3>1. /\ handler'[v] = handler[v] /\ dst'[v] = dst[v]
          /\ v \in Upload \ disturbed
      BY <1>2, <1>3, <2>2 DEF UploadTypeOK
    <3>2. FileName[v] # FileName[u] /\ FileName[v] \in Name
      BY <1>3, <2>2, <3>1 DEF Name
    <3>3. /\ dst[v] = link[FileName[v]]
          /\ contents[dst[v]] = IF handler[v] = "copy" THEN {} ELSE {v}
      BY <3>1 DEF UploadInv, HoldsItsFile
    <3>4. dst[v] \in Upload /\ FileName[dst[v]] = FileName[v]
      <4>1. dst[v] # 0
        BY <3>1 DEF UploadInv
      <4> QED
        BY <4>1, UploadAssumption DEF UploadInv, FilesKeepName, UploadTypeOK, Upload
    <3>5. dst[v] # f
      BY <1>1, <3>2, <3>4
    <3>6. link'[FileName[v]] = link[FileName[v]] /\ contents'[dst[v]] = contents[dst[v]]
      BY <1>2, <3>2, <3>4, <3>5 DEF UploadTypeOK
    <3> QED
      BY <3>1, <3>3, <3>6
  <2> QED
    BY <2>1, <2>2
<1> QED
  BY <1>5, <1>6, <1>7, <1>8 DEF UploadInv

\* The bytes of a copy go to a file that no undisturbed namesake holds.
LEMMA CopyFileStep ==
    ASSUME UploadTypeOK, UploadInv, NEW u \in Upload, CopyFile(u)
    PROVE  UploadInv'
<1>1. /\ handler[u] = "copy"
      /\ handler' = [handler EXCEPT ![u] = "register"]
      /\ contents' = [contents EXCEPT ![dst[u]] = @ \cup {u}]
      /\ UNCHANGED <<link, dst, disturbed>>
  BY DEF CopyFile
<1>2. dst[u] \in Upload /\ FileName[dst[u]] = FileName[u]
  <2>1. dst[u] # 0
    BY <1>1 DEF UploadInv
  <2> QED
    BY <2>1, UploadAssumption DEF UploadInv, FilesKeepName, UploadTypeOK, Upload
<1>3. FilesKeepName'
  BY <1>1 DEF UploadInv, FilesKeepName
<1>4. (\A v \in Upload : handler[v] \in {"copy", "register", "ok"} => dst[v] # 0)'
  BY <1>1 DEF UploadTypeOK, UploadInv
<1>5. WritesAlone'
  BY <1>1 DEF UploadTypeOK, UploadInv, WritesAlone, Namesakes
<1>6. HoldsItsFile'
  <2> SUFFICES ASSUME NEW v \in Upload \ disturbed,
                      handler'[v] \in {"copy", "register", "ok"}
               PROVE  /\ dst[v] = link[FileName[v]]
                      /\ contents'[dst[v]] = IF handler'[v] = "copy" THEN {} ELSE {v}
    BY <1>1 DEF HoldsItsFile
  <2>1. /\ handler[v] \in {"copy", "register", "ok"}
        /\ v # u => handler'[v] = handler[v]
    BY <1>1 DEF UploadTypeOK
  <2>2. /\ dst[v] = link[FileName[v]]
        /\ contents[dst[v]] = IF handler[v] = "copy" THEN {} ELSE {v}
    BY <2>1 DEF UploadInv, HoldsItsFile
  <2>3. CASE v = u
    BY <1>1, <1>2, <2>2, <2>3 DEF UploadTypeOK
  <2>4. CASE v # u
    <3>1. FileName[v] # FileName[u]
      BY <1>1, <2>1, <2>4 DEF UploadInv, WritesAlone, Namesakes
    <3>2. dst[v] \in Upload /\ FileName[dst[v]] = FileName[v]
      <4>1. dst[v] # 0
        BY <2>1 DEF UploadInv
      <4> QED
        BY <4>1, UploadAssumption DEF UploadInv, FilesKeepName, UploadTypeOK, Upload
    <3>3. contents'[dst[v]] = contents[dst[v]]
      BY <1>1, <1>2, <3>1, <3>2 DEF UploadTypeOK
    <3> QED
      BY <2>1, <2>2, <2>4, <3>3
  <2> QED
    BY <2>3, <2>4
<1> QED
  BY <1>3, <1>4, <1>5, <1>6 DEF UploadInv

\* What a failed copy removes is no file of an undisturbed namesake.
LEMMA CopyFailsStep ==
    ASSUME UploadTypeOK, UploadInv, NEW u \in Upload, CopyFails(u)
    PROVE  UploadInv'
<1>1. /\ handler[u] = "copy"
      /\ handler' = [handler EXCEPT ![u] = "error"]
      /\ link' = [link EXCEPT ![FileName[u]] = 0]
      /\ UNCHANGED <<dst, contents, disturbed>>
  BY DEF CopyFails
<1>2. FilesKeepName'
  BY <1>1 DEF UploadInv, FilesKeepName, UploadTypeOK
<1>3. (\A v \in Upload : handler[v] \in {"copy", "register", "ok"} => dst[v] # 0)'
  BY <1>1 DEF UploadTypeOK, UploadInv
<1>4. WritesAlone'
  BY <1>1 DEF UploadTypeOK, UploadInv, WritesAlone, Namesakes
<1>5. HoldsItsFile'
  <2> SUFFICES ASSUME NEW v \in Upload \ disturbed,
                      handler'[v] \in {"copy", "register", "ok"}
               PROVE  /\ dst[v] = link'[FileName[v]]
                      /\ contents[dst[v]] = IF handler'[v] = "copy" THEN {} ELSE {v}
    BY <1>1 DEF HoldsItsFile
  <2>1. v # u /\ handler'[v] = handler[v]
    BY <1>1 DEF UploadTypeOK
  <2>2. FileName[v] # FileName[u] /\ FileName[v] \in Name
    BY <1>1, <2>1 DEF UploadInv, WritesAlone, Namesakes, Name
  <2>3. link'[FileName[v]] = link[FileName[v]]
    BY <1>1, <2>2 DEF UploadTypeOK
  <2> QED
    BY <2>1, <2>3 DEF UploadInv, HoldsItsFile
<1> QED
  BY <1>2, <1>3, <1>4, <1>5 DEF UploadInv

\* The inductive invariant: while an upload is not disturbed, nobody writes
\* beside it, and the file that it opened is at its path with what it wrote.
THEOREM UploadInvHolds == UploadSpec => []UploadInv
<1>1. UploadInit => UploadInv
  BY DEF UploadInit, UploadInv, FilesKeepName, WritesAlone, HoldsItsFile
<1>2. UploadTypeOK /\ UploadInv /\ [UploadNext]_uploadVars => UploadInv'
  <2> SUFFICES ASSUME UploadTypeOK, UploadInv, [UploadNext]_uploadVars PROVE UploadInv'
    OBVIOUS
  <2>1. ASSUME NEW u \in Upload, RegisterUpload(u) PROVE UploadInv'
    <3>1. /\ handler[u] = "register"
          /\ handler' = [handler EXCEPT ![u] = handler'[u]]
          /\ handler'[u] \in {"ok", "error"}
          /\ UNCHANGED <<link, dst, contents, disturbed>>
      BY <2>1 DEF RegisterUpload, UploadTypeOK
    <3>2. FilesKeepName'
      BY <3>1 DEF UploadInv, FilesKeepName
    <3>3. (\A v \in Upload : handler[v] \in {"copy", "register", "ok"} => dst[v] # 0)'
      BY <3>1 DEF UploadTypeOK, UploadInv
    <3>4. WritesAlone'
      BY <3>1 DEF UploadTypeOK, UploadInv, WritesAlone, Namesakes
    <3>5. HoldsItsFile'
      BY <3>1 DEF UploadTypeOK, UploadInv, HoldsItsFile
    <3> QED
      BY <3>2, <3>3, <3>4, <3>5 DEF UploadInv
  <2>2. CASE UNCHANGED uploadVars
    BY <2>2 DEF uploadVars, UploadInv, FilesKeepName, WritesAlone, HoldsItsFile, Namesakes
  <2> QED
    BY <2>1, <2>2, CreateFileStep, CopyFileStep, CopyFailsStep DEF UploadNext
<1> QED
  BY <1>1, <1>2, UploadTypeCorrect, PTL DEF UploadSpec

\* A registered upload that no other of its name met or followed has its file,
\* with its own bytes and no others (handleAssetUpload).
THEOREM SoleUploadKeepsFileHolds == UploadSpec => []SoleUploadKeepsFile
<1>1. UploadInv => SoleUploadKeepsFile
  BY DEF UploadInv, HoldsItsFile, SoleUploadKeepsFile
<1> QED
  BY <1>1, UploadInvHolds, PTL
=============================================================================
