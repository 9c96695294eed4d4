------------------------------ MODULE RpcCodec ------------------------------
(***************************************************************************)
(* A call through the generated RPC code (kitex_gen/handler/v0_1): the     *)
(* client writes the arguments, the server reads them and calls its        *)
(* handler, the server writes the result, the client reads it.  All the    *)
(* structs share one shape of FastRead and FastWrite, modelled once here   *)
(* over the fields of each struct; a field's id is its place in the        *)
(* sequence.  The two ends may have been generated from versions of the    *)
(* IDL that differ in some fields, or in what a list has as elements.      *)
(* Bytes, buffers and lengths are left out, and so is the order of the     *)
(* fields of a message, which FastRead takes as they come.                 *)
(***************************************************************************)
EXTENDS Naturals, Sequences

CONSTANTS
    Versions,  \* how the IDL of a writer may differ from that of the reader
    Filled     \* which optional fields a writer may set, by name

VARIABLES
    method,   \* the method called
    leg,      \* "call", then what has come of it
    written,  \* the message: the optional fields it has, how its IDL differs
    wire,     \* the fields as they are sent
    got       \* what FastRead made of them

rpcVars == <<method, leg, written, wire, got>>

-----------------------------------------------------------------------------
(* The structs.  Enumerations are I32, and any number passes. *)

TEXT == "STRING"
I32 == "I32"
I64 == "I64"
BOOL == "BOOL"
LIST == "LIST"
STRUCT == "STRUCT"

ReqOf(name, type, struct) ==
    [name |-> name, type |-> type, struct |-> struct, required |-> TRUE]
OptOf(name, type, struct) ==
    [name |-> name, type |-> type, struct |-> struct, required |-> FALSE]
Req(name, type) == ReqOf(name, type, <<>>)
Opt(name, type) == OptOf(name, type, <<>>)

ManageLLMKeyRequest ==
    <<Req("user_id", TEXT), Req("operation", I32), Opt("key_id", TEXT),
      Opt("provider", I32), Opt("name", TEXT), Opt("api_key", TEXT),
      Opt("base_url", TEXT)>>

ManageLLMKeyResponse == <<Req("key_id", TEXT), Opt("provider", I32)>>

AssetView ==
    <<Req("asset_id", TEXT), Req("name", TEXT), Req("asset_type", I32),
      Req("file_format", TEXT), Req("file_size_bytes", I64),
      Req("storage_uri", TEXT), Opt("thumbnail_uri", TEXT), Req("status", I32),
      Opt("tags", LIST), Req("created_at", TEXT), Req("updated_at", TEXT),
      Opt("description", TEXT)>>

ListAssetsRequest ==
    <<Req("user_id", TEXT), Opt("asset_type", I32), Opt("query_keyword", TEXT),
      Opt("page_size", I32), Opt("page_num", I32)>>

ListAssetsResponse == <<ReqOf("assets", LIST, AssetView), Req("total_count", I64)>>

RegisterAssetRequest ==
    <<Req("user_id", TEXT), Req("name", TEXT), Req("asset_type", I32),
      Req("file_format", TEXT), Req("file_size_bytes", I64),
      Req("storage_uri", TEXT), Opt("description", TEXT), Opt("tags", LIST)>>

RegisterAssetResponse == <<Req("asset_id", TEXT), Req("status", I32)>>

DeleteAssetRequest == <<Req("user_id", TEXT), Req("asset_id", TEXT)>>

DeleteAssetResponse == <<Req("success", BOOL)>>

GetAssetStatsRequest == <<Req("user_id", TEXT)>>

GetAssetStatsResponse ==
    <<Req("total_assets", I64), Req("total_models", I64), Req("total_presets", I64),
      Req("total_storage_bytes", I64)>>

TaskFailure ==
    <<Req("code", TEXT), Req("message", TEXT), Req("retryable", BOOL)>>

TaskNodeView ==
    <<Req("node_id", TEXT), Req("status", I32), Req("attempts", I32),
      Opt("started_at", TEXT), Opt("finished_at", TEXT),
      OptOf("failure", STRUCT, TaskFailure)>>

TaskArtifactView ==
    <<Req("type", TEXT), Req("uri", TEXT), Req("name", TEXT)>>

ShotPreviewTaskView ==
    <<Req("task_id", TEXT), Req("status", I32), Req("workflow_id", TEXT),
      Req("workflow_version", TEXT), ReqOf("nodes", LIST, TaskNodeView),
      ReqOf("artifacts", LIST, TaskArtifactView),
      OptOf("failure", STRUCT, TaskFailure), Req("created_at", TEXT),
      Req("updated_at", TEXT), Opt("finished_at", TEXT)>>

CreateShotPreviewTaskRequest ==
    <<Req("user_id", TEXT), Req("prompt", TEXT), Opt("conversation_id", TEXT),
      Opt("request_id", TEXT), Opt("workflow_id", TEXT),
      Opt("workflow_version", TEXT)>>

CreateShotPreviewTaskResponse ==
    <<Req("task_id", TEXT), Req("status", I32), Opt("request_id", TEXT),
      Opt("replayed", BOOL)>>

GetShotPreviewTaskRequest == <<Req("user_id", TEXT), Req("task_id", TEXT)>>

GetShotPreviewTaskResponse == <<ReqOf("task", STRUCT, ShotPreviewTaskView)>>

CancelShotPreviewTaskRequest == <<Req("user_id", TEXT), Req("task_id", TEXT)>>

CancelShotPreviewTaskResponse == <<ReqOf("task", STRUCT, ShotPreviewTaskView)>>

RetryShotPreviewTaskRequest == <<Req("user_id", TEXT), Req("task_id", TEXT)>>

RetryShotPreviewTaskResponse == <<ReqOf("task", STRUCT, ShotPreviewTaskView)>>

\* The request and the response of each method.
LLMKeyMethods ==
    [ManageLLMKey |-> <<ManageLLMKeyRequest, ManageLLMKeyResponse>>]

AssetMethods ==
    [ListAssets |-> <<ListAssetsRequest, ListAssetsResponse>>,
     RegisterAsset |-> <<RegisterAssetRequest, RegisterAssetResponse>>,
     DeleteAsset |-> <<DeleteAssetRequest, DeleteAssetResponse>>,
     GetAssetStats |-> <<GetAssetStatsRequest, GetAssetStatsResponse>>]

ShotPreviewMethods ==
    [CreateShotPreviewTask |-> <<CreateShotPreviewTaskRequest, CreateShotPreviewTaskResponse>>,
     GetShotPreviewTask |-> <<GetShotPreviewTaskRequest, GetShotPreviewTaskResponse>>,
     CancelShotPreviewTask |-> <<CancelShotPreviewTaskRequest, CancelShotPreviewTaskResponse>>,
     RetryShotPreviewTask |-> <<RetryShotPreviewTaskRequest, RetryShotPreviewTaskResponse>>]

Method == DOMAIN LLMKeyMethods \cup DOMAIN AssetMethods \cup DOMAIN ShotPreviewMethods

MethodInfo(m) ==
    CASE m \in DOMAIN LLMKeyMethods -> LLMKeyMethods[m]
      [] m \in DOMAIN AssetMethods -> AssetMethods[m]
      [] OTHER -> ShotPreviewMethods[m]

\* The Args and Result structs that wrap them: nothing in them is required.
ArgsOfMethod(m) == <<OptOf("request", STRUCT, MethodInfo(m)[1])>>
ResultOfMethod(m) == <<OptOf("success", STRUCT, MethodInfo(m)[2])>>

-----------------------------------------------------------------------------
(* What two versions of the IDL may differ in, and what a message may hold. *)

Messages == {MethodInfo(m)[k] : m \in Method, k \in {1, 2}}
Inner(structs) == UNION {{s[i].struct : i \in DOMAIN s} : s \in structs}
Nested == Messages \cup Inner(Messages) \cup Inner(Inner(Messages))
              \cup Inner(Inner(Inner(Messages)))
FieldName == UNION {{s[i].name : i \in DOMAIN s} : s \in Nested}

\* No struct nests deeper than the nodes' failures of a task.
ASSUME NestingAssumption == Inner(Nested) \subseteq Nested

\* The writer's IDL lacks some fields, gives others another type, or other
\* elements if they are lists, or has more.
Difference == [missing: SUBSET FieldName, retyped: SUBSET FieldName,
               elements: SUBSET FieldName, more: BOOLEAN]

ASSUME VersionAssumption == Versions \subseteq Difference /\ Filled \subseteq SUBSET FieldName

SameVersion == [missing |-> {}, retyped |-> {}, elements |-> {}, more |-> FALSE]

-----------------------------------------------------------------------------
(* FastWrite and FastRead of one struct, and of structs that hold others. *)

Present(field, w) == field.required \/ field.name \in w.filled

AnotherType(type) == IF type = TEXT THEN I64 ELSE TEXT

\* What is in a list: strings or structs.  (Nobody asks of another type.)
ElementType(field) == IF field.struct = <<>> THEN TEXT ELSE STRUCT

OtherElements(field, w) == field.type = LIST /\ field.name \in w.version.elements

\* A field as it is sent: its type, its elements' type, and the fields inner that
\* it holds: none if it is a scalar; a list has one element.
Sent(i, field, w, inner) ==
    [id |-> i,
     type |-> IF field.name \in w.version.retyped THEN AnotherType(field.type)
              ELSE field.type,
     elem |-> IF OtherElements(field, w) THEN AnotherType(ElementType(field))
              ELSE ElementType(field),
     value |-> inner]

\* The fields sent for a struct whose i-th field holds the fields inner[i].
FastWrite(struct, w, inner) ==
    {Sent(i, struct[i], w, inner[i]) :
        i \in {j \in DOMAIN struct : /\ Present(struct[j], w)
                                     /\ struct[j].name \notin w.version.missing}}
    \cup IF w.version.more /\ struct # <<>>
         THEN {[id |-> Len(struct) + 1, type |-> TEXT, elem |-> TEXT, value |-> {}]}
         ELSE {}

FastWrite1(struct, w) == FastWrite(struct, w, [i \in DOMAIN struct |-> {}])
FastWrite2(struct, w) ==
    FastWrite(struct, w, [i \in DOMAIN struct |-> FastWrite1(struct[i].struct, w)])
FastWrite3(struct, w) ==
    FastWrite(struct, w, [i \in DOMAIN struct |-> FastWrite2(struct[i].struct, w)])
FastWrite4(struct, w) ==
    FastWrite(struct, w, [i \in DOMAIN struct |-> FastWrite3(struct[i].struct, w)])

Failed == [ok |-> FALSE, inStep |-> TRUE, fields |-> {}]
NoFields == [ok |-> TRUE, inStep |-> TRUE, fields |-> {}]

\* A list's elements have been decoded as what they are not: from there on the
\* bytes are no longer read as they were written, in the structs around it too.
OutOfStep == [ok |-> FALSE, inStep |-> FALSE, fields |-> {}]

\* What FastRead takes from the fields of a message: known ids with the type they
\* should have; every other field is skipped.
KnownFields(struct, fields) ==
    {f \in fields : f.id \in DOMAIN struct /\ f.type = struct[f.id].type}

\* Mutant of IssetIn: a field counts as set whatever its type.
SeenIn(struct, fields) == {f.id : f \in fields}

\* The isset flags of the required fields.
IssetIn(struct, fields) == {f.id : f \in KnownFields(struct, fields)}

\* ReadListBegin's element type is thrown away: what a known list holds is decoded
\* as the reader's type.
Misfits(struct, f) == f.type = LIST /\ f.elem # ElementType(struct[f.id])

\* inner[f] is what reading the value of f has given.
FastRead(struct, fields, inner) ==
    LET known == KnownFields(struct, fields)
        required == {i \in DOMAIN struct : struct[i].required}
    IN  IF \E f \in known : Misfits(struct, f) \/ ~inner[f].inStep THEN OutOfStep
        ELSE IF required \subseteq IssetIn(struct, fields) /\ \A f \in known : inner[f].ok
        THEN [NoFields EXCEPT !.fields = {<<f.id, inner[f].fields>> : f \in known}]
        ELSE Failed

\* How a read may end: out of step, the bytes may make an error, or a message that
\* passes and that nobody wrote.
Outcomes(read) ==
    IF read.inStep THEN {read} ELSE {[read EXCEPT !.ok = passes] : passes \in BOOLEAN}

FastRead1(struct, fields) == FastRead(struct, fields, [f \in fields |-> NoFields])
FastRead2(struct, fields) ==
    FastRead(struct, fields,
             [f \in KnownFields(struct, fields) |-> FastRead1(struct[f.id].struct, f.value)])
FastRead3(struct, fields) ==
    FastRead(struct, fields,
             [f \in KnownFields(struct, fields) |-> FastRead2(struct[f.id].struct, f.value)])
FastRead4(struct, fields) ==
    FastRead(struct, fields,
             [f \in KnownFields(struct, fields) |-> FastRead3(struct[f.id].struct, f.value)])
FastRead5(struct, fields) ==
    FastRead(struct, fields,
             [f \in KnownFields(struct, fields) |-> FastRead4(struct[f.id].struct, f.value)])

-----------------------------------------------------------------------------
(* A call. *)

RpcInit ==
    /\ method \in Method
    /\ leg = "call"
    /\ written = [filled |-> {}, version |-> SameVersion]
    /\ wire = {}
    /\ got = Failed

\* The one field of Args and Result.
Envelope(fields) == [id |-> 1, type |-> STRUCT, elem |-> STRUCT, value |-> fields]

\* One end writes a message; the pointer to it in Args or Result is set.
Send(message) ==
    \E filled \in Filled, version \in Versions :
        /\ written' = [filled |-> filled, version |-> version]
        /\ wire' = {Envelope(FastWrite4(message, written'))}

CallMethod ==
    /\ leg = "call"
    /\ leg' = "arguments"
    /\ Send(MethodInfo(method)[1])
    /\ UNCHANGED <<method, got>>

ReadArguments ==
    /\ leg = "arguments"
    /\ got' \in Outcomes(FastRead5(ArgsOfMethod(method), wire))
    /\ leg' = IF got'.ok THEN "handler" ELSE "bad arguments"
    /\ UNCHANGED <<method, written, wire>>

\* The handler answers, or its error goes to the client as an exception.
Answer ==
    /\ leg = "handler"
    /\ \/ leg' = "result" /\ Send(MethodInfo(method)[2])
       \/ leg' = "exception" /\ UNCHANGED <<written, wire>>
    /\ got' = Failed
    /\ UNCHANGED method

ReadResult ==
    /\ leg = "result"
    /\ got' \in Outcomes(FastRead5(ResultOfMethod(method), wire))
    /\ leg' = IF got'.ok THEN "returned" ELSE "bad result"
    /\ UNCHANGED <<method, written, wire>>

RpcNext == CallMethod \/ ReadArguments \/ Answer \/ ReadResult

RpcSpec == RpcInit /\ [][RpcNext]_rpcVars

-----------------------------------------------------------------------------
(* What the two ends should agree on, said without the wire. *)

\* What of a struct gets through, if inner[i] is what gets through of its i-th
\* field: the fields that were filled in and that both versions have alike, unless
\* one of them is a list of other elements.
Understood(struct, w, inner) ==
    LET lost == w.version.missing \cup w.version.retyped
        arrived == {i \in DOMAIN struct : Present(struct[i], w) /\ struct[i].name \notin lost}
    IN  IF \E i \in arrived : OtherElements(struct[i], w) \/ ~inner[i].inStep THEN OutOfStep
        ELSE IF \A i \in DOMAIN struct : IF i \in arrived THEN inner[i].ok
                                         ELSE ~struct[i].required
        THEN [NoFields EXCEPT !.fields = {<<i, inner[i].fields>> : i \in arrived}]
        ELSE Failed

Understood1(struct, w) == Understood(struct, w, [i \in DOMAIN struct |-> NoFields])
Understood2(struct, w) ==
    Understood(struct, w, [i \in DOMAIN struct |-> Understood1(struct[i].struct, w)])
Understood3(struct, w) ==
    Understood(struct, w, [i \in DOMAIN struct |-> Understood2(struct[i].struct, w)])
Understood4(struct, w) ==
    Understood(struct, w, [i \in DOMAIN struct |-> Understood3(struct[i].struct, w)])

AgreeOn(message) ==
    LET understood == Understood4(message, written)
    IN  understood.inStep =>
            got = IF understood.ok
                  THEN [NoFields EXCEPT !.fields = {<<1, understood.fields>>}]
                  ELSE Failed

\* An end has read just the fields that both versions have in common, at every
\* depth, and has refused the message when a required one is not among them: no
\* call is lost, and none is accepted, because fields were added, removed or
\* given another type on one side.  Except for a message in which a list that
\* both versions have arrives with other elements than the reader's: nothing is
\* promised of it.  A list within a field that is skipped does no harm, and one
\* such message does none to the next.
CallsAgree ==
    /\ leg \in {"handler", "bad arguments"} => AgreeOn(MethodInfo(method)[1])
    /\ leg \in {"returned", "bad result"} => AgreeOn(MethodInfo(method)[2])

\* What is on the wire is what was written.
WireIsWritten ==
    LET Carries(message) ==
            wire = {Envelope(FastWrite4(message, written))}
    IN  /\ leg = "arguments" => Carries(MethodInfo(method)[1])
        /\ leg = "result" => Carries(MethodInfo(method)[2])

RpcTypeOK ==
    /\ method \in Method
    /\ leg \in {"call", "arguments", "handler", "bad arguments", "result", "exception",
                "returned", "bad result"}
    /\ written \in [filled: SUBSET FieldName, version: Difference]
    /\ got.ok \in BOOLEAN
=============================================================================
