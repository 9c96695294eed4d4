---------------------------- MODULE Credentials ----------------------------
(***************************************************************************)
(* The LLM credentials: Gateway (internal/agent/llm_gateway/gateway.go)    *)
(* over inMemoryCredentialStore (cmd/server/main.go).  Each method of the  *)
(* store is atomic under its mutex; Execute calls two of them and holds    *)
(* nothing in between.  A command that is rejected changes nothing and is  *)
(* left out, and so are Use, which only reads one record, and Enabled,     *)
(* which nothing ever clears.                                              *)
(***************************************************************************)
EXTENDS Naturals

CONSTANTS
    User, Provider,
    Request,      \* RPCs that manage a key at the same time
    MaxKeys,      \* bound: credentials saved
    MaxSecrets,   \* bound: API keys submitted
    VersionSpan   \* KeyVersion is a uint32 and counts modulo VersionSpan

ASSUME CredentialAssumption == /\ MaxKeys \in Nat
                               /\ MaxSecrets \in Nat
                               /\ VersionSpan \in Nat \ {0, 1}

\* IDs are random in the code: here they are numbers never used before.
KeyID == 1 .. MaxKeys
Version == 0 .. VersionSpan - 1

\* An API key, told apart by who submitted it and when; a ciphertext of it, and
\* what credentialAAD has bound it to.
APIKey == [from: User, nr: 1 .. MaxSecrets]
AAD == [id: KeyID, user: User, provider: Provider, version: Version]
EncryptedSecret == [plaintext: APIKey, aad: AAD]

\* Name stands for BaseURL too: both are replaced alone.
CredentialRecord ==
    [id: KeyID, user: User, provider: Provider, name: {"first", "second"},
     keyVersion: Version, secret: EncryptedSecret]

\* The fields of an update that are not nil.
Patch == (SUBSET {"name", "apiKey"}) \ {{}}

Idle == [kind |-> "idle"]
Command == [kind: {"update"}, record: CredentialRecord, patch: Patch]
             \cup [kind: {"delete"}, record: CredentialRecord]

VARIABLES
    credentials,  \* the records in the store
    savedKeys,    \* how many have been saved
    submissions,  \* how many API keys have been submitted
    deletedKeys,  \* the keys whose deletion has been acknowledged
    request       \* the commands that have found their record

credVars == <<credentials, savedKeys, submissions, deletedKeys, request>>

CredTypeOK ==
    /\ credentials \subseteq CredentialRecord
    /\ savedKeys \in 0 .. MaxKeys
    /\ submissions \in 0 .. MaxSecrets
    /\ deletedKeys \subseteq KeyID
    /\ request \in [Request -> Command \cup {Idle}]

CredInit ==
    /\ credentials = {}
    /\ savedKeys = 0
    /\ submissions = 0
    /\ deletedKeys = {}
    /\ request = [q \in Request |-> Idle]

-----------------------------------------------------------------------------
credentialAAD(r) ==
    [id |-> r.id, user |-> r.user, provider |-> r.provider, version |-> r.keyVersion]

\* The next API key of user u, encrypted for record r.
Encrypt(u, r) == [plaintext |-> [from |-> u, nr |-> submissions + 1],
                  aad |-> credentialAAD(r)]

\* Mutant of Rotate: encrypted under the old version.
RotateThenCount(r) ==
    [r EXCEPT !.secret = Encrypt(r.user, r),
              !.keyVersion = (@ + 1) % VersionSpan]

\* The record with a new API key: its version first, for the AAD holds it.
Rotate(r) ==
    LET next == [r EXCEPT !.keyVersion = (@ + 1) % VersionSpan]
    IN  [next EXCEPT !.secret = Encrypt(r.user, next)]

Has(id) == \E r \in credentials : r.id = id
Others(id) == {r \in credentials : r.id # id}

\* Mutant of StoreUpdate: INSERT OR REPLACE, as the asset store has it.
StoreUpsert(r) == credentials' = Others(r.id) \cup {r}

\* store.Update: a record that has been deleted meanwhile is not found.
StoreUpdate(r) ==
    credentials' = IF Has(r.id) THEN Others(r.id) \cup {r} ELSE credentials

-----------------------------------------------------------------------------
\* Execute(save): the record is made and stored in one call.
Save(u, p) ==
    /\ savedKeys < MaxKeys
    /\ submissions < MaxSecrets
    /\ savedKeys' = savedKeys + 1
    /\ submissions' = submissions + 1
    /\ LET head == [id |-> savedKeys + 1, user |-> u, provider |-> p,
                    keyVersion |-> 1]
       IN  credentials' = credentials \cup
               {[id |-> savedKeys + 1, user |-> u, provider |-> p, name |-> "first",
                 keyVersion |-> 1, secret |-> Encrypt(u, head)]}
    /\ UNCHANGED <<deletedKeys, request>>

\* Execute(update): store.Find, and the owner has been checked.
FindForUpdate(q, r, patch) ==
    /\ request[q] = Idle
    /\ request' = [request EXCEPT
                       ![q] = [kind |-> "update", record |-> r, patch |-> patch]]
    /\ UNCHANGED <<credentials, savedKeys, submissions, deletedKeys>>

\* The copy is changed and written back whole.
Update(q) ==
    /\ request[q].kind = "update"
    /\ LET r == request[q].record
           patch == request[q].patch
           named == IF "name" \in patch THEN [r EXCEPT !.name = "second"] ELSE r
       IN  IF "apiKey" \in patch
           THEN /\ submissions < MaxSecrets
                /\ submissions' = submissions + 1
                /\ StoreUpdate(Rotate(named))
           ELSE /\ StoreUpdate(named)
                /\ UNCHANGED submissions
    /\ request' = [request EXCEPT ![q] = Idle]
    /\ UNCHANGED <<savedKeys, deletedKeys>>

\* Execute(delete): store.Find, and the owner has been checked.
FindForDelete(q, r) ==
    /\ request[q] = Idle
    /\ request' = [request EXCEPT ![q] = [kind |-> "delete", record |-> r]]
    /\ UNCHANGED <<credentials, savedKeys, submissions, deletedKeys>>

\* store.Delete; if another has come before, the answer is "not found".
Delete(q) ==
    /\ request[q].kind = "delete"
    /\ LET id == request[q].record.id
       IN  IF Has(id)
           THEN /\ credentials' = Others(id)
                /\ deletedKeys' = deletedKeys \cup {id}
           ELSE UNCHANGED <<credentials, deletedKeys>>
    /\ request' = [request EXCEPT ![q] = Idle]
    /\ UNCHANGED <<savedKeys, submissions>>

\* The store is in memory: a restart of the server empties it.
RestartServer ==
    /\ credentials # {}
    /\ credentials' = {}
    /\ request' = [q \in Request |-> Idle]
    /\ UNCHANGED <<savedKeys, submissions, deletedKeys>>

Manage(q) ==
    \/ \E r \in credentials : \/ \E patch \in Patch : FindForUpdate(q, r, patch)
                              \/ FindForDelete(q, r)
    \/ Update(q) \/ Delete(q)

CredNext ==
    \/ \E u \in User, p \in Provider : Save(u, p)
    \/ \E q \in Request : Manage(q)
    \/ RestartServer

CredSpec == CredInit /\ [][CredNext]_credVars

-----------------------------------------------------------------------------
\* Use can always decrypt what it finds, and finds a key that the owner has
\* submitted: concurrent updates and a wrap of the version never leave a
\* ciphertext with a record whose AAD it is not bound to.  One ID has one record.
SecretMatchesRecord ==
    \A r \in credentials :
        /\ r.secret.aad = credentialAAD(r)
        /\ r.secret.plaintext.from = r.user
        /\ \A s \in credentials : s.id = r.id => s = r

\* "use deleted credential: want ErrCredentialNotFound" (gateway_test.go): an
\* update that found the record before its deletion does not bring it back.
DeletedStaysDeleted == \A id \in deletedKeys : ~Has(id)

\* "Update modifies only non-nil mutable fields" (gateway.go:40): an update
\* leaves the fields it does not name as they are.
UpdateModifiesOnlyNamed ==
    [][\A q \in Request : request[q].kind = "update" /\ request'[q] = Idle =>
          \A r \in credentials, s \in credentials' :
              r.id = request[q].record.id /\ s.id = r.id =>
                  /\ "name" \notin request[q].patch => s.name = r.name
                  /\ "apiKey" \notin request[q].patch => s.secret = r.secret]_credVars

\* What a request has found is still in the store as it was: so it is when no
\* other request comes between.
HeldIsStored ==
    \A q \in Request : request[q].kind # "idle" => request[q].record \in credentials

\* What a command has in hand is a record as it once was.
HeldRecordsMatch ==
    \A q \in Request : request[q].kind # "idle" =>
        /\ request[q].record.secret.aad = credentialAAD(request[q].record)
        /\ request[q].record.secret.plaintext.from = request[q].record.user
        /\ request[q].record.id <= savedKeys

\* The inductive invariant behind SecretMatchesRecord and DeletedStaysDeleted.
CredInv ==
    /\ SecretMatchesRecord
    /\ DeletedStaysDeleted
    /\ HeldRecordsMatch
    /\ \A r \in credentials : r.id <= savedKeys
    /\ \A id \in deletedKeys : id <= savedKeys
=============================================================================
