---------------------------- MODULE AssetUpload ----------------------------
(***************************************************************************)
(* handleAssetUpload (internal/gateway/http_gateway.go) over the asset     *)
(* table of SQLite: a file under the base name of the upload, then a       *)
(* record of it.  Uploads of one name share a path and nothing guards it.  *)
(***************************************************************************)
EXTENDS Naturals

CONSTANTS
    Uploads,  \* how many there are; an upload is its number
    FileName  \* FileName[u]: the base name it comes with

ASSUME UploadAssumption == /\ Uploads \in Nat
                           /\ DOMAIN FileName = 1 .. Uploads

Upload == 1 .. Uploads
Name == {FileName[u] : u \in Upload}

VARIABLES
    handler,   \* how far the handler of each upload has come
    link,      \* link[n]: the file at name n, by the upload that made it; 0: none
    dst,       \* the file that each upload has opened
    contents,  \* contents[f]: the uploads whose bytes are in file f
    disturbed  \* uploads that another of the same name met or followed

uploadVars == <<handler, link, dst, contents, disturbed>>

UploadTypeOK ==
    /\ handler \in [Upload -> {"none", "copy", "register", "ok", "error"}]
    /\ link \in [Name -> 0 .. Uploads]
    /\ dst \in [Upload -> 0 .. Uploads]
    /\ contents \in [Upload -> SUBSET Upload]
    /\ disturbed \subseteq Upload

UploadInit ==
    /\ handler = [u \in Upload |-> "none"]
    /\ link = [n \in Name |-> 0]
    /\ dst = [u \in Upload |-> 0]
    /\ contents = [u \in Upload |-> {}]
    /\ disturbed = {}

Namesakes(u) ==
    {v \in Upload \ {u} : FileName[v] = FileName[u] /\ handler[v] # "none"}

\* The file a new upload opens.
Opened(u) == IF link[FileName[u]] = 0 THEN u ELSE link[FileName[u]]

Meet(u) ==
    disturbed' = disturbed \cup Namesakes(u) \cup
                 (IF \E v \in Namesakes(u) : handler[v] = "copy" THEN {u} ELSE {})

-----------------------------------------------------------------------------
\* Mutant of CreateFile: an existing file is opened as it is.
OpenFile(u) ==
    /\ handler[u] = "none"
    /\ handler' = [handler EXCEPT ![u] = "copy"]
    /\ dst' = [dst EXCEPT ![u] = Opened(u)]
    /\ link' = [link EXCEPT ![FileName[u]] = Opened(u)]
    /\ Meet(u)
    /\ UNCHANGED contents

\* os.Create: a file of that name is opened and emptied.
CreateFile(u) ==
    /\ handler[u] = "none"
    /\ handler' = [handler EXCEPT ![u] = "copy"]
    /\ dst' = [dst EXCEPT ![u] = Opened(u)]
    /\ link' = [link EXCEPT ![FileName[u]] = Opened(u)]
    /\ contents' = [contents EXCEPT ![Opened(u)] = {}]
    /\ Meet(u)

\* io.Copy into the open file, wherever its name points by now.
CopyFile(u) ==
    /\ handler[u] = "copy"
    /\ handler' = [handler EXCEPT ![u] = "register"]
    /\ contents' = [contents EXCEPT ![dst[u]] = @ \cup {u}]
    /\ UNCHANGED <<link, dst, disturbed>>

\* The copy fails: what is at the path now is removed.
CopyFails(u) ==
    /\ handler[u] = "copy"
    /\ handler' = [handler EXCEPT ![u] = "error"]
    /\ link' = [link EXCEPT ![FileName[u]] = 0]
    /\ UNCHANGED <<dst, contents, disturbed>>

\* RegisterAsset; when it fails the file stays.
RegisterUpload(u) ==
    /\ handler[u] = "register"
    /\ \E end \in {"ok", "error"} : handler' = [handler EXCEPT ![u] = end]
    /\ UNCHANGED <<link, dst, contents, disturbed>>

UploadNext ==
    \E u \in Upload : \/ CreateFile(u) \/ CopyFile(u) \/ CopyFails(u)
                      \/ RegisterUpload(u)

UploadSpec == UploadInit /\ [][UploadNext]_uploadVars

-----------------------------------------------------------------------------
\* A registered upload has its file, with its own bytes and no others, unless
\* another of the same name ran beside it or came after it: what an earlier
\* upload, a failed one too, has left at the path does no harm.
SoleUploadKeepsFile ==
    \A u \in Upload \ disturbed :
        handler[u] = "ok" =>
            /\ link[FileName[u]] # 0
            /\ contents[link[FileName[u]]] = {u}
\* Files keep the name they were made under.
FilesKeepName ==
    /\ \A n \in Name : link[n] # 0 => FileName[link[n]] = n
    /\ \A u \in Upload : dst[u] # 0 => FileName[dst[u]] = FileName[u]

\* No namesake writes beside an upload that was not disturbed.
WritesAlone ==
    \A u \in Upload \ disturbed :
        handler[u] # "none" => \A v \in Namesakes(u) : handler[v] # "copy"

\* The file such an upload opened is still at its path, with what it wrote.
HoldsItsFile ==
    \A u \in Upload \ disturbed :
        handler[u] \in {"copy", "register", "ok"} =>
            /\ dst[u] = link[FileName[u]]
            /\ contents[dst[u]] = IF handler[u] = "copy" THEN {} ELSE {u}

\* What the proof of SoleUploadKeepsFile carries from step to step.
UploadInv ==
    /\ FilesKeepName
    /\ \A u \in Upload : handler[u] \in {"copy", "register", "ok"} => dst[u] # 0
    /\ WritesAlone
    /\ HoldsItsFile
=============================================================================
