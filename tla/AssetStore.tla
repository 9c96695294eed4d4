----------------------------- MODULE AssetStore -----------------------------
(***************************************************************************)
(* FileAssetStore (internal/service/asset_file_store.go): a map under a    *)
(* mutex and its JSON file, rewritten by every change through a temporary  *)
(* file and a rename.  A record is its ID, drawn from the clock by         *)
(* RegisterAsset (asset_service.go): two registrations in one nanosecond   *)
(* are left out.  List, Get and GetStats only read the map.                *)
(***************************************************************************)
CONSTANTS
    AssetID,
    Torn      \* what is in a file whose writing was cut short

ASSUME TornAssumption == \A S \in SUBSET AssetID : Torn # S

VARIABLES
    assets,     \* the map
    metadata,   \* the file: the records in it, or Torn
    temp,       \* the temporary file
    saving,     \* the change whose save is under way, under the mutex
    acked,      \* IDs that RegisterAsset has returned
    discarded,  \* IDs whose deletion has been asked for
    lagging     \* a save has failed since the last that succeeded

storeVars == <<assets, metadata, temp, saving, acked, discarded, lagging>>

NoSave == [step |-> "none"]
Saving == [step: {"write", "rename"}, kind: {"create", "delete"}, id: AssetID]

StoreTypeOK ==
    /\ assets \subseteq AssetID
    /\ metadata \in (SUBSET AssetID) \cup {Torn}
    /\ temp \in (SUBSET AssetID) \cup {Torn}
    /\ saving \in Saving \cup {NoSave}
    /\ acked \subseteq AssetID
    /\ discarded \subseteq AssetID
    /\ lagging \in BOOLEAN

StoreInit ==
    /\ assets = {}
    /\ metadata = {}
    /\ temp = {}
    /\ saving = NoSave
    /\ acked = {}
    /\ discarded = {}
    /\ lagging = FALSE

-----------------------------------------------------------------------------
\* Create: the map first.  An ID is used once.
CreateAsset(a) ==
    /\ saving = NoSave
    /\ a \notin assets \cup acked \cup discarded
    /\ metadata # Torn => a \notin metadata
    /\ assets' = assets \cup {a}
    /\ saving' = [step |-> "write", kind |-> "create", id |-> a]
    /\ UNCHANGED <<metadata, temp, acked, discarded, lagging>>

\* Delete of a record the user sees: the map first.
DeleteAsset(a) ==
    /\ saving = NoSave
    /\ a \in assets
    /\ assets' = assets \ {a}
    /\ discarded' = discarded \cup {a}
    /\ saving' = [step |-> "write", kind |-> "delete", id |-> a]
    /\ UNCHANGED <<metadata, temp, acked, lagging>>

\* Mutant of WriteTemp: the file itself is rewritten.
WriteInPlace ==
    /\ saving.step = "write"
    /\ temp' = assets
    /\ metadata' \in {assets, Torn}
    /\ saving' = [saving EXCEPT !.step = "rename"]
    /\ UNCHANGED <<assets, acked, discarded, lagging>>

\* os.WriteFile of the temporary file begins: it is emptied and filled.
WriteTemp ==
    /\ saving.step = "write"
    /\ temp' \in {assets, Torn}
    /\ saving' = [saving EXCEPT !.step = "rename"]
    /\ UNCHANGED <<assets, metadata, acked, discarded, lagging>>

\* The write succeeded and os.Rename puts the new file in the place of the old.
CommitSave ==
    /\ saving.step = "rename"
    /\ temp # Torn
    /\ metadata' = temp
    /\ lagging' = FALSE
    /\ acked' = IF saving.kind = "create" THEN acked \cup {saving.id} ELSE acked
    /\ saving' = NoSave
    /\ UNCHANGED <<assets, temp, discarded>>

\* The write or the rename fails: the call returns an error, and the map keeps
\* the change.
FailSave ==
    /\ saving # NoSave
    /\ lagging' = TRUE
    /\ saving' = NoSave
    /\ UNCHANGED <<assets, metadata, temp, acked, discarded>>

\* The server is lost; NewFileAssetStore reads the file, or fails for good.
CrashStore ==
    /\ metadata # Torn
    /\ assets # metadata \/ saving # NoSave
    /\ assets' = metadata
    /\ saving' = NoSave
    /\ lagging' = FALSE
    /\ UNCHANGED <<metadata, temp, acked, discarded>>

StoreNext ==
    \/ \E a \in AssetID : CreateAsset(a) \/ DeleteAsset(a)
    \/ WriteTemp \/ CommitSave \/ FailSave \/ CrashStore

StoreSpec == StoreInit /\ [][StoreNext]_storeVars

-----------------------------------------------------------------------------
\* "persistent": the file can be read at any moment, so a server that is lost
\* in the middle of a save starts again, and holds every asset whose
\* registration was acknowledged and whose deletion nobody asked for.  The map
\* and the file differ only during a save or after one that has failed.
AckedIsDurable ==
    /\ metadata # Torn
    /\ acked \ discarded \subseteq metadata
    /\ saving = NoSave /\ ~lagging => assets = metadata

\* What the map has, and what the temporary file is about to bring.
StoreInv ==
    /\ AckedIsDurable
    /\ acked \ discarded \subseteq assets
    /\ saving # NoSave /\ saving.step = "rename" /\ temp # Torn => temp = assets
    /\ saving # NoSave /\ saving.kind = "create" => saving.id \in assets
=============================================================================
