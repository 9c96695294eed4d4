--------------------------- MODULE Services_proofs ---------------------------
(***************************************************************************)
(* Proofs for RpcCodec: each call reads what both versions of the IDL have *)
(* in common.  Then the specification of the run services is shown to be   *)
(* one of each of its components, so that what is proved of them holds of  *)
(* it.                                                                     *)
(***************************************************************************)
EXTENDS MCServices, WorkflowGraph_proofs, Flow_proofs, Stores_proofs, TLAPS

(* The structs. *)

TypeId == {TEXT, I32, I64, BOOL, LIST, STRUCT}

IsStruct(s) ==
    /\ Len(s) \in Nat
    /\ DOMAIN s = 1 .. Len(s)
    /\ \A i \in DOMAIN s : s[i].type \in TypeId

IsStruct2(s) == IsStruct(s) /\ \A i \in DOMAIN s : IsStruct(s[i].struct)
IsStruct3(s) == IsStruct(s) /\ \A i \in DOMAIN s : IsStruct2(s[i].struct)
IsStruct4(s) == IsStruct(s) /\ \A i \in DOMAIN s : IsStruct3(s[i].struct)

LEMMA Scalar == IsStruct3(<<>>) /\ IsStruct2(<<>>) /\ IsStruct(<<>>)
BY DEF IsStruct3, IsStruct2, IsStruct

LEMMA FlatStructs ==
    /\ IsStruct4(ManageLLMKeyRequest) /\ IsStruct4(ManageLLMKeyResponse)
    /\ IsStruct4(ListAssetsRequest)
    /\ IsStruct4(RegisterAssetRequest) /\ IsStruct4(RegisterAssetResponse)
    /\ IsStruct4(DeleteAssetRequest) /\ IsStruct4(DeleteAssetResponse)
    /\ IsStruct4(GetAssetStatsRequest) /\ IsStruct4(GetAssetStatsResponse)
    /\ IsStruct4(CreateShotPreviewTaskRequest) /\ IsStruct4(CreateShotPreviewTaskResponse)
    /\ IsStruct4(GetShotPreviewTaskRequest) /\ IsStruct4(CancelShotPreviewTaskRequest)
    /\ IsStruct4(RetryShotPreviewTaskRequest)
BY Scalar DEF ManageLLMKeyRequest, ManageLLMKeyResponse, ListAssetsRequest,
    RegisterAssetRequest, RegisterAssetResponse, DeleteAssetRequest,
    DeleteAssetResponse, GetAssetStatsRequest, GetAssetStatsResponse,
    CreateShotPreviewTaskRequest, CreateShotPreviewTaskResponse,
    GetShotPreviewTaskRequest, CancelShotPreviewTaskRequest,
    RetryShotPreviewTaskRequest, IsStruct4, IsStruct, Req, ReqOf, Opt, OptOf, TypeId

LEMMA NestedStructs ==
    /\ IsStruct4(ListAssetsResponse)
    /\ IsStruct4(GetShotPreviewTaskResponse) /\ IsStruct4(CancelShotPreviewTaskResponse)
    /\ IsStruct4(RetryShotPreviewTaskResponse)
<1>1. IsStruct2(TaskFailure) /\ IsStruct(TaskFailure)
  BY Scalar DEF TaskFailure, IsStruct2, IsStruct, Req, ReqOf, TypeId
<1>2. IsStruct2(TaskNodeView)
  <2>1. IsStruct(TaskNodeView)
    BY DEF TaskNodeView, IsStruct, Req, ReqOf, Opt, OptOf, TypeId
  <2>2. \A i \in DOMAIN TaskNodeView : IsStruct(TaskNodeView[i].struct)
    BY Scalar, <1>1 DEF TaskNodeView, Req, ReqOf, Opt, OptOf
  <2> QED
    BY <2>1, <2>2 DEF IsStruct2
<1>3. IsStruct2(TaskArtifactView)
  BY Scalar DEF TaskArtifactView, IsStruct2, IsStruct, Req, ReqOf, TypeId
<1>4. IsStruct3(ShotPreviewTaskView)
  BY Scalar, <1>1, <1>2, <1>3 DEF ShotPreviewTaskView, IsStruct3, IsStruct, Req, ReqOf, Opt,
    OptOf, TypeId
<1>5. IsStruct3(AssetView)
  BY Scalar DEF AssetView, IsStruct3, IsStruct, Req, ReqOf, Opt, OptOf, TypeId
<1> QED
  BY Scalar, <1>4, <1>5 DEF ListAssetsResponse, GetShotPreviewTaskResponse,
    CancelShotPreviewTaskResponse, RetryShotPreviewTaskResponse, IsStruct4, IsStruct,
    Req, ReqOf, TypeId

LEMMA MessageIsStruct ==
    ASSUME NEW m \in Method, NEW k \in {1, 2}
    PROVE  IsStruct4(MethodInfo(m)[k])
BY FlatStructs, NestedStructs
   DEF Method, MethodInfo, LLMKeyMethods, AssetMethods, ShotPreviewMethods

(* One struct. *)

\* What FastRead makes of what FastWrite wrote is what the two versions have in
\* common, if that is so of the structs within: inner is what is written of each
\* field, read[f] what its reader gives, and understood[i] what it should give.
LEMMA StructRoundTrip ==
    ASSUME NEW s, IsStruct(s), NEW w, NEW inner, NEW read, NEW understood,
           \A f \in KnownFields(s, FastWrite(s, w, inner)) :
               read[f] = understood[f.id]
    PROVE  FastRead(s, FastWrite(s, w, inner), read) = Understood(s, w, understood)
<1> DEFINE lost == w.version.missing \cup w.version.retyped
           arrived == {i \in DOMAIN s : Present(s[i], w) /\ s[i].name \notin lost}
           known == KnownFields(s, FastWrite(s, w, inner))
           Field(i) == Sent(i, s[i], w, inner[i])
<1>1. \A type : AnotherType(type) # type
  BY DEF AnotherType, TEXT, I64
<1>2. Len(s) + 1 \notin DOMAIN s
  BY DEF IsStruct
<1>3. known = {Field(i) : i \in arrived}
  BY <1>1, <1>2 DEF KnownFields, FastWrite, Sent
<1>4. /\ \A i \in arrived : Field(i) \in known /\ Field(i).id = i
      /\ \A f \in known : f.id \in arrived /\ f = Field(f.id)
  BY <1>3 DEF Sent
<1>10. \A i \in arrived : Misfits(s, Field(i)) <=> OtherElements(s[i], w)
  BY <1>1 DEF Misfits, OtherElements, Sent
<1> HIDE DEF arrived, Field
<1>5. IssetIn(s, FastWrite(s, w, inner)) = arrived
  BY <1>4 DEF IssetIn
<1>6. (\A f \in known : read[f].ok) <=> \A i \in arrived : understood[i].ok
  BY <1>4
<1>7. {<<f.id, read[f].fields>> : f \in known} = {<<i, understood[i].fields>> : i \in arrived}
  BY <1>4
<1>8. {i \in DOMAIN s : s[i].required} \subseteq arrived
         <=> \A i \in DOMAIN s : i \notin arrived => ~s[i].required
  OBVIOUS
<1>9. (\E f \in known : Misfits(s, f) \/ ~read[f].inStep)
         <=> \E i \in arrived : OtherElements(s[i], w) \/ ~understood[i].inStep
  BY <1>4, <1>10
<1> QED
  BY <1>5, <1>6, <1>7, <1>8, <1>9 DEF FastRead, Understood, arrived

(* Structs that hold structs. *)

LEMMA RoundTrip1 ==
    ASSUME NEW s, IsStruct(s), NEW w
    PROVE  FastRead1(s, FastWrite1(s, w)) = Understood1(s, w)
<1> DEFINE inner == [i \in DOMAIN s |-> {}]
           fields == FastWrite(s, w, inner)
           read == [f \in fields |-> NoFields]
           understood == [i \in DOMAIN s |-> NoFields]
<1>1. \A f \in KnownFields(s, fields) : read[f] = understood[f.id]
  BY DEF KnownFields
<1> HIDE DEF inner, read, understood
<1>2. FastRead(s, fields, read) = Understood(s, w, understood)
  BY <1>1, StructRoundTrip
<1> QED
  BY <1>2 DEF FastRead1, FastWrite1, Understood1, inner, read, understood

LEMMA KnownWritten ==
    ASSUME NEW s, IsStruct(s), NEW w, NEW inner,
           NEW f \in KnownFields(s, FastWrite(s, w, inner))
    PROVE  f.id \in DOMAIN s /\ f.value = inner[f.id]
<1>1. Len(s) + 1 \notin DOMAIN s
  BY DEF IsStruct
<1> QED
  BY <1>1 DEF KnownFields, FastWrite, Sent

LEMMA RoundTrip2 ==
    ASSUME NEW s, IsStruct2(s), NEW w
    PROVE  FastRead2(s, FastWrite2(s, w)) = Understood2(s, w)
<1> DEFINE inner == [i \in DOMAIN s |-> FastWrite1(s[i].struct, w)]
           fields == FastWrite(s, w, inner)
           read == [f \in KnownFields(s, fields) |-> FastRead1(s[f.id].struct, f.value)]
           understood == [i \in DOMAIN s |-> Understood1(s[i].struct, w)]
<1>1. \A f \in KnownFields(s, fields) : f.id \in DOMAIN s /\ f.value = inner[f.id]
  BY KnownWritten DEF IsStruct2
<1>2. \A f \in KnownFields(s, fields) : read[f] = understood[f.id]
  BY <1>1, RoundTrip1 DEF IsStruct2
<1> HIDE DEF inner, read, understood
<1>3. FastRead(s, fields, read) = Understood(s, w, understood)
  BY <1>2, StructRoundTrip DEF IsStruct2
<1> QED
  BY <1>3 DEF FastRead2, FastWrite2, Understood2, inner, read, understood

LEMMA RoundTrip3 ==
    ASSUME NEW s, IsStruct3(s), NEW w
    PROVE  FastRead3(s, FastWrite3(s, w)) = Understood3(s, w)
<1> DEFINE inner == [i \in DOMAIN s |-> FastWrite2(s[i].struct, w)]
           fields == FastWrite(s, w, inner)
           read == [f \in KnownFields(s, fields) |-> FastRead2(s[f.id].struct, f.value)]
           understood == [i \in DOMAIN s |-> Understood2(s[i].struct, w)]
<1>1. \A f \in KnownFields(s, fields) : f.id \in DOMAIN s /\ f.value = inner[f.id]
  BY KnownWritten DEF IsStruct3
<1>2. \A f \in KnownFields(s, fields) : read[f] = understood[f.id]
  BY <1>1, RoundTrip2 DEF IsStruct3
<1> HIDE DEF inner, read, understood
<1>3. FastRead(s, fields, read) = Understood(s, w, understood)
  BY <1>2, StructRoundTrip DEF IsStruct3
<1> QED
  BY <1>3 DEF FastRead3, FastWrite3, Understood3, inner, read, understood

LEMMA RoundTrip4 ==
    ASSUME NEW s, IsStruct4(s), NEW w
    PROVE  FastRead4(s, FastWrite4(s, w)) = Understood4(s, w)
<1> DEFINE inner == [i \in DOMAIN s |-> FastWrite3(s[i].struct, w)]
           fields == FastWrite(s, w, inner)
           read == [f \in KnownFields(s, fields) |-> FastRead3(s[f.id].struct, f.value)]
           understood == [i \in DOMAIN s |-> Understood3(s[i].struct, w)]
<1>1. \A f \in KnownFields(s, fields) : f.id \in DOMAIN s /\ f.value = inner[f.id]
  BY KnownWritten DEF IsStruct4
<1>2. \A f \in KnownFields(s, fields) : read[f] = understood[f.id]
  BY <1>1, RoundTrip3 DEF IsStruct4
<1> HIDE DEF inner, read, understood
<1>3. FastRead(s, fields, read) = Understood(s, w, understood)
  BY <1>2, StructRoundTrip DEF IsStruct4
<1> QED
  BY <1>3 DEF FastRead4, FastWrite4, Understood4, inner, read, understood

(* A call. *)

\* The struct that wraps a message has one optional field, whose type is the same
\* in all versions.
LEMMA ReadWrapper ==
    ASSUME NEW name, NEW message, IsStruct4(message), NEW w
    PROVE  FastRead5(<<OptOf(name, STRUCT, message)>>,
                     {Envelope(FastWrite4(message, w))})
              = IF ~Understood4(message, w).inStep THEN OutOfStep
                ELSE IF Understood4(message, w).ok
                THEN [NoFields EXCEPT !.fields = {<<1, Understood4(message, w).fields>>}]
                ELSE Failed
<1> DEFINE wrapper == <<OptOf(name, STRUCT, message)>>
           field == Envelope(FastWrite4(message, w))
           read == [f \in {field} |-> FastRead4(wrapper[f.id].struct, f.value)]
<1>1. /\ DOMAIN wrapper = {1} /\ wrapper[1].struct = message
      /\ wrapper[1].type = STRUCT /\ ~wrapper[1].required
  BY DEF OptOf
<1>2. /\ field.id = 1 /\ field.type = STRUCT /\ field.value = FastWrite4(message, w)
      /\ field.type # LIST
  BY DEF Envelope, STRUCT, LIST
<1> HIDE DEF wrapper, field
<1>3. KnownFields(wrapper, {field}) = {field}
  BY <1>1, <1>2 DEF KnownFields
<1>4. read[field] = Understood4(message, w)
  BY <1>1, <1>2, RoundTrip4
<1>5. FastRead5(wrapper, {field}) = FastRead(wrapper, {field}, read)
  BY <1>3 DEF FastRead5
<1> HIDE DEF read
<1>6. {i \in DOMAIN wrapper : wrapper[i].required} = {}
  BY <1>1
<1>7. {<<f.id, read[f].fields>> : f \in {field}} = {<<1, Understood4(message, w).fields>>}
  BY <1>2, <1>4
<1>8. FastRead(wrapper, {field}, read)
         = IF ~read[field].inStep THEN OutOfStep
           ELSE IF read[field].ok
           THEN [NoFields EXCEPT !.fields = {<<f.id, read[f].fields>> : f \in {field}}]
           ELSE Failed
  BY <1>2, <1>3, <1>6 DEF FastRead, Misfits
<1> QED
  BY <1>4, <1>5, <1>7, <1>8 DEF wrapper, field

\* Every variable of a call holds a value of its type.
THEOREM RpcTypeCorrect == RpcSpec => []RpcTypeOK
<1>1. SameVersion \in Difference
  BY DEF SameVersion, Difference
<1>2. RpcInit => RpcTypeOK
  BY <1>1 DEF RpcInit, RpcTypeOK, Failed
<1>3. ASSUME NEW message, Send(message)
      PROVE  written' \in [filled: SUBSET FieldName, version: Difference]
  BY <1>3, VersionAssumption DEF Send
<1>4. \A struct, fields, inner : \A end \in Outcomes(FastRead(struct, fields, inner)) :
         end.ok \in BOOLEAN
  <2> SUFFICES ASSUME NEW struct, NEW fields, NEW inner,
                      NEW end \in Outcomes(FastRead(struct, fields, inner))
               PROVE  end.ok \in BOOLEAN
    OBVIOUS
  <2> DEFINE read == FastRead(struct, fields, inner)
  <2>1. \/ read = OutOfStep
        \/ read.inStep /\ read.ok \in BOOLEAN
    BY DEF FastRead, NoFields, Failed
  <2> HIDE DEF read
  <2>2. CASE read = OutOfStep
    BY <2>2 DEF Outcomes, OutOfStep, read
  <2>3. CASE read.inStep /\ read.ok \in BOOLEAN
    BY <2>3 DEF Outcomes, read
  <2> QED
    BY <2>1, <2>2, <2>3
<1>5. RpcTypeOK /\ [RpcNext]_rpcVars => RpcTypeOK'
  <2> SUFFICES ASSUME RpcTypeOK, [RpcNext]_rpcVars
               PROVE  RpcTypeOK'
    OBVIOUS
  <2>1. CASE CallMethod
    BY <1>3, <2>1 DEF CallMethod, RpcTypeOK
  <2>2. CASE ReadArguments
    BY <1>4, <2>2 DEF ReadArguments, FastRead5, RpcTypeOK
  <2>3. CASE Answer
    BY <1>3, <2>3 DEF Answer, Failed, RpcTypeOK
  <2>4. CASE ReadResult
    BY <1>4, <2>4 DEF ReadResult, FastRead5, RpcTypeOK
  <2>5. CASE UNCHANGED rpcVars
    BY <2>5 DEF rpcVars, RpcTypeOK
  <2> QED
    BY <2>1, <2>2, <2>3, <2>4, <2>5 DEF RpcNext
<1> QED
  BY <1>2, <1>5, PTL DEF RpcSpec

\* Reading the arguments or the result of a method gives what its message should.
LEMMA ReadAgrees ==
    ASSUME RpcTypeOK, WireIsWritten, NEW k \in {1, 2}, NEW wrapper,
           \/ k = 1 /\ leg = "arguments" /\ wrapper = ArgsOfMethod(method)
           \/ k = 2 /\ leg = "result" /\ wrapper = ResultOfMethod(method),
           got' \in Outcomes(FastRead5(wrapper, wire)), UNCHANGED <<method, written>>
    PROVE  AgreeOn(MethodInfo(method)[k])'
<1> DEFINE message == MethodInfo(method)[k]
<1>1. IsStruct4(message)
  BY MessageIsStruct DEF RpcTypeOK
<1>2. message' = message
  BY DEF MethodInfo
<1>3. wire = {Envelope(FastWrite4(message, written))}
  BY DEF WireIsWritten
<1>4. PICK name : wrapper = <<OptOf(name, STRUCT, message)>>
  BY DEF ArgsOfMethod, ResultOfMethod
<1> HIDE DEF message
<1>5. ASSUME Understood4(message, written).inStep
      PROVE  got' = IF Understood4(message, written).ok
                    THEN [NoFields EXCEPT !.fields =
                             {<<1, Understood4(message, written).fields>>}]
                    ELSE Failed
  <2>1. FastRead5(wrapper, wire)
           = IF Understood4(message, written).ok
             THEN [NoFields EXCEPT !.fields = {<<1, Understood4(message, written).fields>>}]
             ELSE Failed
    BY <1>1, <1>3, <1>4, <1>5, ReadWrapper
  <2> QED
    BY <2>1 DEF Outcomes, NoFields, Failed
<1>6. AgreeOn(message)'
  BY <1>2, <1>5 DEF AgreeOn
<1> QED
  BY <1>6 DEF message

\* The two ends of a call agree on what of a message both of their versions of the
\* IDL have, whatever fields the versions lack or give other types, and whatever is
\* filled in, except for messages with a list whose elements are not the reader's.
THEOREM CallsAgreeHolds == RpcSpec => []CallsAgree
<1>1. RpcInit => WireIsWritten /\ CallsAgree
  BY DEF RpcInit, WireIsWritten, CallsAgree
<1>2. RpcTypeOK /\ WireIsWritten /\ CallsAgree /\ [RpcNext]_rpcVars
         => WireIsWritten' /\ CallsAgree'
  <2> SUFFICES ASSUME RpcTypeOK, WireIsWritten, CallsAgree, [RpcNext]_rpcVars
               PROVE  WireIsWritten' /\ CallsAgree'
    OBVIOUS
  <2>1. CASE CallMethod
    BY <2>1 DEF CallMethod, Send, WireIsWritten, CallsAgree
  <2>2. CASE ReadArguments
    <3>1. AgreeOn(MethodInfo(method)[1])'
      BY <2>2, ReadAgrees DEF ReadArguments
    <3> QED
      BY <2>2, <3>1 DEF ReadArguments, WireIsWritten, CallsAgree
  <2>3. CASE Answer
    BY <2>3 DEF Answer, Send, WireIsWritten, CallsAgree
  <2>4. CASE ReadResult
    <3>1. AgreeOn(MethodInfo(method)[2])'
      BY <2>4, ReadAgrees DEF ReadResult
    <3> QED
      BY <2>4, <3>1 DEF ReadResult, WireIsWritten, CallsAgree
  <2>5. CASE UNCHANGED rpcVars
    BY <2>5 DEF rpcVars, WireIsWritten, CallsAgree, AgreeOn, MethodInfo
  <2> QED
    BY <2>1, <2>2, <2>3, <2>4, <2>5 DEF RpcNext
<1> QED
  BY <1>1, <1>2, RpcTypeCorrect, PTL DEF RpcSpec

-----------------------------------------------------------------------------
\* The specification of the run services is one of each component: what is proved
\* of them holds of every behaviour TLC explores, and of the same with any other
\* constants.
THEOREM ServicesRefineComponents ==
    MCSpec => /\ GraphSpec /\ FanOutSpec /\ FlowSpec
              /\ CredSpec /\ StoreSpec /\ UploadSpec
              /\ RpcSpec
<1>1. MCInit => /\ GraphInit /\ FanOutInit /\ FlowInit
                /\ CredInit /\ StoreInit /\ UploadInit
                /\ RpcInit
  BY DEF MCInit
<1>2. [MCNext]_mcVars => /\ [GraphNext]_graphVars /\ [FanOutNext]_fanOutVars
                         /\ [FlowNext]_flowVars
                         /\ [CredNext]_credVars /\ [StoreNext]_storeVars
                         /\ [UploadNext]_uploadVars
                         /\ [RpcNext]_rpcVars
  BY DEF MCNext, mcVars, GraphStep, FanOutAlone
<1> QED
  BY <1>1, <1>2, PTL DEF MCSpec, GraphSpec, FanOutSpec, FlowSpec, CredSpec, StoreSpec,
    UploadSpec, RpcSpec

\* Every variable of the seven holds a value of its type in every state.
THEOREM ServicesTypeCorrect == MCSpec => []MCTypeOK
<1>1. (GraphTypeOK /\ GraphInv) /\ FanOutTypeOK /\ FlowTypeOK /\ CredTypeOK
         /\ StoreTypeOK /\ UploadTypeOK /\ RpcTypeOK => MCTypeOK
  BY DEF MCTypeOK
<1> QED
  BY <1>1, ServicesRefineComponents, GraphInvHolds, FanOutTypeCorrect, FlowTypeCorrect,
    CredTypeCorrect, StoreTypeCorrect, UploadTypeCorrect, RpcTypeCorrect, PTL
=============================================================================
