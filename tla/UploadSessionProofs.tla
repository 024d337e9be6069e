------------------------ MODULE UploadSessionProofs ------------------------
(***************************************************************************)
(* Proofs about UploadSession, for every number of requests and parts, every *)
(* set of bodies, every choice of setups and every number of faults.        *)
(***************************************************************************)
EXTENDS UploadSession, FiniteSetTheorems, TLAPS

(* TypeOK by tables: the rows ... *)
RowTypes ==
    /\ clip \in ClipStatus /\ session \in SessionStatus
    /\ expired \in BOOLEAN /\ received \in 0..NumParts
    /\ rows \in Parts

(* ... the object store ... *)
StoreTypes ==
    /\ files \in Parts
    /\ open \in BOOLEAN /\ object \in Content /\ stray \in BOOLEAN

(* ... the requests ... *)
RequestTypes == pc \in [Request -> Step] /\ work \in [Request -> Work]

(* ... and the background work. *)
JobTypes ==
    /\ setup \in Setups
    /\ sweep \in {"idle", "expiring", "storage", "parts", "clip"}
    /\ purge \in {"idle", "session", "clip"}
    /\ job \in {"none", "validate", "validated", "optimize", "activating"}
    /\ account \in {"kept", "storage", "parts", "rows", "clips", "clip", "media", "closed",
                    "purged"}
    /\ faults \in 0..MaxFaults

-----------------------------------------------------------------------------
(* Parts *)

(* The recorded parts are a finite number, at most all. *)
LEMMA RecordedBound == Recorded \in 0..NumParts
<1> DEFINE S == {n \in Part : rows[n] # NoBody}
<1>1. IsFiniteSet(Part) /\ Cardinality(Part) = NumParts
  BY FS_Interval, RequestAssumption DEF Part
<1>2. S \in SUBSET Part
  OBVIOUS
<1>3. Cardinality(S) <= NumParts /\ Cardinality(S) \in Nat
  BY <1>1, <1>2, FS_Subset, FS_CardinalityType
<1> QED BY <1>3, RequestAssumption DEF Recorded

(* Recording a part takes none of the recorded ones away. *)
LEMMA RecordingGrows ==
    ASSUME \A n \in Part : rows[n] # NoBody => rows'[n] # NoBody
    PROVE  Recorded <= Recorded' /\ Recorded \in Nat /\ Recorded' \in Nat
<1> DEFINE S == {n \in Part : rows[n] # NoBody}
           U == {n \in Part : rows'[n] # NoBody}
<1>1. IsFiniteSet(Part)
  BY FS_Interval, RequestAssumption DEF Part
<1>2. S \in SUBSET U /\ U \in SUBSET Part /\ S \in SUBSET Part
  OBVIOUS
<1>3. IsFiniteSet(U) /\ IsFiniteSet(S)
  BY <1>1, <1>2, FS_Subset
<1>4. Cardinality(S) <= Cardinality(U)
  BY <1>2, <1>3, FS_Subset
<1>5. Cardinality(S) \in Nat /\ Cardinality(U) \in Nat
  BY <1>3, FS_CardinalityType
<1>6. Recorded = Cardinality(S) /\ Recorded' = Cardinality(U)
  BY DEF Recorded, Part
<1> QED BY <1>4, <1>5, <1>6

(* No parts are parts, and a request's work is typed however it is set up. *)
LEMMA NoPartsType == NoParts \in Parts
BY DEF NoParts, Parts

(* What a request may hold in memory is typed. *)
LEMMA WorkTypes ==
    /\ NoWork \in Work
    /\ \A n \in Part, b \in Body : [NoWork EXCEPT !.part = n, !.body = b] \in Work
    /\ \A p \in Parts : [NoWork EXCEPT !.parts = p] \in Work
    /\ \A w \in Work, n \in Part : [w EXCEPT !.part = n] \in Work
    /\ \A w \in Work, k \in 0..NumParts : [w EXCEPT !.sum = k] \in Work
<1>1. 1 \in Part /\ 0 \in 0..NumParts
  BY RequestAssumption DEF Part
<1> QED BY <1>1, NoPartsType, BodyAssumption DEF NoWork, Work

-----------------------------------------------------------------------------
(* Types *)

(* The four halves make the whole. *)
LEMMA TypeParts == TypeOK <=> RowTypes /\ StoreTypes /\ RequestTypes /\ JobTypes
BY DEF TypeOK, RowTypes, StoreTypes, RequestTypes, JobTypes

(* A request that moves on keeps its types, whether it keeps its work ... *)
LEMMA GotoTypes ==
    ASSUME RequestTypes, NEW r \in Request, NEW p \in Step, Goto(r, p), UNCHANGED work
    PROVE  RequestTypes'
BY DEF RequestTypes, Goto

(* ... or takes other work, or is over. *)
LEMMA HoldTypes ==
    ASSUME RequestTypes, NEW r \in Request, NEW p \in Step, NEW w \in Work,
           Goto(r, p) \/ UNCHANGED pc, Hold(r, w)
    PROVE  RequestTypes'
BY DEF RequestTypes, Goto, Hold

(* A request that answers leaves typed requests behind. *)
LEMMA RespondTypes ==
    ASSUME RequestTypes, NEW r \in Request, Respond(r)
    PROVE  RequestTypes'
<1>1. "idle" \in Step
  BY DEF Step
<1>2. Hold(r, NoWork) /\ Goto(r, "idle")
  BY DEF Respond, Hold
<1> QED BY <1>1, <1>2, WorkTypes, HoldTypes

(* What a request carries is typed. *)
LEMMA CarriedTypes ==
    ASSUME RequestTypes, NEW r \in Request
    PROVE  /\ pc[r] \in Step /\ work[r] \in Work
           /\ work[r].part \in Part /\ work[r].body \in Body
           /\ work[r].parts \in Parts /\ work[r].sum \in 0..NumParts
BY DEF RequestTypes, Work

(* Setting a part keeps the type of parts. *)
LEMMA SetPartType ==
    ASSUME NEW f \in Parts, NEW n \in Part, NEW b \in Body
    PROVE  [f EXCEPT ![n] = b] \in Parts
BY DEF Parts

(* One fault more is still within the bound. *)
LEMMA FaultBound ==
    /\ 0 \in 0..MaxFaults
    /\ faults \in 0..MaxFaults /\ faults < MaxFaults => faults + 1 \in 0..MaxFaults
BY RequestAssumption

(* What can be assembled is content. *)
LEMMA AssembledType == \A f : Assembled(f) \in Content
BY DEF Assembled, Content

(* Requests arrive. *)
LEMMA ArriveTypes ==
    ASSUME RowTypes, StoreTypes, RequestTypes, JobTypes, NEW r \in Request, Arrive(r)
    PROVE  RowTypes' /\ StoreTypes' /\ RequestTypes' /\ JobTypes'
<1> USE DEF rowVars, storeVars, jobVars
<1>1. ASSUME NEW n \in Part, NEW b \in Body, BeginPart(r, n, b)
       PROVE  RowTypes' /\ StoreTypes' /\ RequestTypes' /\ JobTypes'
  <2>1. RowTypes' /\ StoreTypes' /\ JobTypes'
    BY <1>1 DEF BeginPart, RowTypes, StoreTypes, JobTypes
  <2>2. RequestTypes'
    BY <1>1, WorkTypes, HoldTypes DEF BeginPart, Step
  <2> QED BY <2>1, <2>2
<1>2. ASSUME NEW n \in Part, BeginAck(r, n)
       PROVE  RowTypes' /\ StoreTypes' /\ RequestTypes' /\ JobTypes'
  <2>1. RowTypes' /\ StoreTypes' /\ JobTypes'
    BY <1>2 DEF BeginAck, RowTypes, StoreTypes, JobTypes
  <2>2. RequestTypes'
    BY <1>2, WorkTypes, HoldTypes DEF BeginAck, Step, StoreTypes, Parts
  <2> QED BY <2>1, <2>2
<1>3. CASE BeginContent(r)
  <2>1. RowTypes' /\ StoreTypes' /\ JobTypes'
    BY <1>3 DEF BeginContent, RowTypes, StoreTypes, JobTypes
  <2>2. RequestTypes'
    BY <1>3, GotoTypes DEF BeginContent, Step
  <2> QED BY <2>1, <2>2
<1>4. CASE BeginComplete(r)
  <2>1. RowTypes' /\ StoreTypes' /\ JobTypes'
    BY <1>4 DEF BeginComplete, RowTypes, StoreTypes, JobTypes
  <2>2. RequestTypes'
    BY <1>4, GotoTypes, WorkTypes, HoldTypes DEF BeginComplete, Step, RowTypes
  <2> QED BY <2>1, <2>2
<1>5. CASE BeginAbort(r)
  <2>1. RowTypes' /\ StoreTypes' /\ JobTypes'
    BY <1>5, NoPartsType DEF BeginAbort, ClipStatus, SessionStatus, RowTypes, StoreTypes, JobTypes
  <2>2. RequestTypes'
    BY <1>5, GotoTypes DEF BeginAbort, Step
  <2> QED BY <2>1, <2>2
<1> QED BY <1>1, <1>2, <1>3, <1>4, <1>5 DEF Arrive

(* Parts are stored and recorded. *)
LEMMA PartStepTypes ==
    ASSUME RowTypes, StoreTypes, RequestTypes, JobTypes, NEW r \in Request, \/ StorePart(r) \/ RecordPart(r) \/ SumParts(r) \/ MarkUploading(r)
    PROVE  RowTypes' /\ StoreTypes' /\ RequestTypes' /\ JobTypes'
<1> USE DEF rowVars, storeVars, jobVars
<1>1. CASE StorePart(r)
  <2>1. RowTypes' /\ StoreTypes' /\ JobTypes'
    <3>1. UNCHANGED <<setup, rowVars, jobVars, faults>>
      BY <1>1 DEF StorePart
    <3>2. RowTypes' /\ JobTypes'
      BY <3>1 DEF RowTypes, JobTypes
    <3>3. [files EXCEPT ![work[r].part] = work[r].body] \in Parts
      BY SetPartType, CarriedTypes DEF StoreTypes
    <3>4. StoreTypes'
      BY <1>1, <3>3 DEF StorePart, StoreTypes
    <3> QED BY <3>2, <3>4
  <2>2. RequestTypes'
    BY <1>1, GotoTypes, RespondTypes DEF StorePart, Step
  <2> QED BY <2>1, <2>2
<1>2. CASE RecordPart(r)
  <2>1. RowTypes' /\ StoreTypes' /\ JobTypes'
    <3>1. [rows EXCEPT ![work[r].part] = work[r].body] \in Parts
      BY SetPartType, CarriedTypes DEF RowTypes
    <3>2. RowTypes'
      BY <1>2, <3>1 DEF RecordPart, RowTypes
    <3>3. StoreTypes' /\ JobTypes'
      BY <1>2 DEF RecordPart, StoreTypes, JobTypes
    <3> QED BY <3>2, <3>3
  <2>2. RequestTypes'
    BY <1>2, GotoTypes, RespondTypes DEF RecordPart, Step
  <2> QED BY <2>1, <2>2
<1>3. CASE SumParts(r)
  <2>1. RowTypes' /\ StoreTypes' /\ JobTypes'
    BY <1>3 DEF SumParts, RowTypes, StoreTypes, JobTypes
  <2>2. RequestTypes'
    BY <1>3, WorkTypes, HoldTypes, CarriedTypes, RecordedBound DEF SumParts, Step
  <2> QED BY <2>1, <2>2
<1>4. CASE MarkUploading(r)
  <2>1. RowTypes' /\ StoreTypes' /\ JobTypes'
    BY <1>4, CarriedTypes DEF MarkUploading, SessionStatus, RowTypes, StoreTypes, JobTypes
  <2>2. RequestTypes'
    BY <1>4, RespondTypes DEF MarkUploading, Step
  <2> QED BY <2>1, <2>2
<1> QED BY <1>1, <1>2, <1>3, <1>4

(* Objects are written, assembled and looked at. *)
LEMMA ObjectStepTypes ==
    ASSUME RowTypes, StoreTypes, RequestTypes, JobTypes, NEW r \in Request, \/ PutObject(r) \/ CopyPart(r) \/ RenameObject(r) \/ CleanUpload(r)
           \/ CompleteOnS3(r) \/ HeadObject(r) \/ HashObject(r) \/ DeleteMismatch(r)
    PROVE  RowTypes' /\ StoreTypes' /\ RequestTypes' /\ JobTypes'
<1> USE DEF rowVars, storeVars, jobVars
<1>1. CASE PutObject(r)
  <2>1. RowTypes' /\ StoreTypes' /\ JobTypes'
    BY <1>1 DEF PutObject, Content, RowTypes, StoreTypes, JobTypes
  <2>2. RequestTypes'
    BY <1>1, GotoTypes DEF PutObject, Step
  <2> QED BY <2>1, <2>2
<1>2. CASE CopyPart(r)
  <2>1. RowTypes' /\ StoreTypes' /\ JobTypes'
    <3>1. UNCHANGED <<setup, rowVars, jobVars, faults>>
      BY <1>2 DEF CopyPart
    <3>2. RowTypes' /\ JobTypes'
      BY <3>1 DEF RowTypes, JobTypes
    <3>3. StoreTypes'
      BY <1>2 DEF CopyPart, StoreTypes
    <3> QED BY <3>2, <3>3
  <2>2. RequestTypes'
    <3>1. ASSUME NEW p \in {"heading", "renaming"}, Goto(r, p), UNCHANGED work
           PROVE  RequestTypes'
      BY <3>1, GotoTypes DEF Step
    <3>2. CASE Respond(r)
      BY <3>2, RespondTypes
    <3>3. CASE Hold(r, [work[r] EXCEPT !.part = work[r].part + 1]) /\ UNCHANGED pc
                 /\ work[r].part # NumParts
      <4>1. work[r].part + 1 \in Part
        BY <3>3, CarriedTypes, RequestAssumption DEF Part
      <4>2. [work[r] EXCEPT !.part = work[r].part + 1] \in Work
        BY <4>1, CarriedTypes, WorkTypes
      <4>3. "idle" \in Step
        BY DEF Step
      <4> QED BY <3>3, <4>2, <4>3, HoldTypes
    <3> QED BY <1>2, <3>1, <3>2, <3>3 DEF CopyPart
  <2> QED BY <2>1, <2>2
<1>3. CASE RenameObject(r)
  <2>1. RowTypes' /\ StoreTypes' /\ JobTypes'
    BY <1>3, AssembledType DEF RenameObject, RowTypes, StoreTypes, JobTypes
  <2>2. RequestTypes'
    BY <1>3, GotoTypes DEF RenameObject, Step
  <2> QED BY <2>1, <2>2
<1>4. CASE CleanUpload(r)
  <2>1. RowTypes' /\ StoreTypes' /\ JobTypes'
    <3>1. UNCHANGED <<setup, rowVars, jobVars, faults>>
      BY <1>4 DEF CleanUpload
    <3>2. RowTypes' /\ JobTypes'
      BY <3>1 DEF RowTypes, JobTypes
    <3>3. StoreTypes'
      BY <1>4, NoPartsType DEF CleanUpload, StoreTypes
    <3> QED BY <3>2, <3>3
  <2>2. RequestTypes'
    BY <1>4, GotoTypes DEF CleanUpload, Step
  <2> QED BY <2>1, <2>2
<1>5. CASE CompleteOnS3(r)
  <2>1. RowTypes' /\ StoreTypes' /\ JobTypes'
    <3>1. UNCHANGED <<setup, rowVars, jobVars, faults>>
      BY <1>5 DEF CompleteOnS3
    <3>2. RowTypes' /\ JobTypes'
      BY <3>1 DEF RowTypes, JobTypes
    <3>3. StoreTypes'
      BY <1>5, NoPartsType, AssembledType DEF CompleteOnS3, StoreTypes
    <3> QED BY <3>2, <3>3
  <2>2. RequestTypes'
    BY <1>5, GotoTypes, RespondTypes DEF CompleteOnS3, Step
  <2> QED BY <2>1, <2>2
<1>6. CASE HeadObject(r)
  <2>1. RowTypes' /\ StoreTypes' /\ JobTypes'
    BY <1>6 DEF HeadObject, RowTypes, StoreTypes, JobTypes
  <2>2. RequestTypes'
    BY <1>6, GotoTypes, RespondTypes DEF HeadObject, Step
  <2> QED BY <2>1, <2>2
<1>7. CASE HashObject(r)
  <2>1. RowTypes' /\ StoreTypes' /\ JobTypes'
    BY <1>7 DEF HashObject, RowTypes, StoreTypes, JobTypes
  <2>2. RequestTypes'
    BY <1>7, GotoTypes, RespondTypes DEF HashObject, Step
  <2> QED BY <2>1, <2>2
<1>8. CASE DeleteMismatch(r)
  <2>1. RowTypes' /\ StoreTypes' /\ JobTypes'
    BY <1>8 DEF DeleteMismatch, Content, RowTypes, StoreTypes, JobTypes
  <2>2. RequestTypes'
    BY <1>8, GotoTypes DEF DeleteMismatch, Step
  <2> QED BY <2>1, <2>2
<1> QED BY <1>1, <1>2, <1>3, <1>4, <1>5, <1>6, <1>7, <1>8

(* Requests end. *)
LEMMA EndTypes ==
    ASSUME RowTypes, StoreTypes, RequestTypes, JobTypes, NEW r \in Request, \/ FailSession(r) \/ FailClip(r) \/ Finalize(r) \/ AbortStorage(r) \/ Drop(r)
    PROVE  RowTypes' /\ StoreTypes' /\ RequestTypes' /\ JobTypes'
<1> USE DEF rowVars, storeVars, jobVars
<1>1. CASE FailSession(r)
  <2>1. RowTypes' /\ StoreTypes' /\ JobTypes'
    BY <1>1 DEF FailSession, SessionStatus, RowTypes, StoreTypes, JobTypes
  <2>2. RequestTypes'
    BY <1>1, GotoTypes DEF FailSession, Step
  <2> QED BY <2>1, <2>2
<1>2. CASE FailClip(r)
  <2>1. RowTypes' /\ StoreTypes' /\ JobTypes'
    BY <1>2 DEF FailClip, FailedClip, ClipStatus, RowTypes, StoreTypes, JobTypes
  <2>2. RequestTypes'
    BY <1>2, RespondTypes DEF FailClip, Step
  <2> QED BY <2>1, <2>2
<1>3. CASE Finalize(r)
  <2>1. RowTypes' /\ StoreTypes' /\ JobTypes'
    BY <1>3, RequestAssumption DEF Finalize, ClipStatus, SessionStatus, RowTypes, StoreTypes, JobTypes
  <2>2. RequestTypes'
    BY <1>3, RespondTypes DEF Finalize, Step
  <2> QED BY <2>1, <2>2
<1>4. CASE AbortStorage(r)
  <2>1. RowTypes' /\ StoreTypes' /\ JobTypes'
    <3>1. UNCHANGED <<setup, rowVars, jobVars, faults>>
      BY <1>4 DEF AbortStorage
    <3>2. RowTypes' /\ JobTypes'
      BY <3>1 DEF RowTypes, JobTypes
    <3>3. StoreTypes'
      BY <1>4, NoPartsType DEF AbortStorage, Content, StoreTypes
    <3> QED BY <3>2, <3>3
  <2>2. RequestTypes'
    BY <1>4, RespondTypes DEF AbortStorage, Step
  <2> QED BY <2>1, <2>2
<1>5. CASE Drop(r)
  <2>1. RowTypes' /\ StoreTypes' /\ JobTypes'
    <3>1. stray' \in BOOLEAN
      BY <1>5, Zenon DEF Drop, WritesTemp, StoreTypes
    <3>2. UNCHANGED <<setup, clip, session, expired, received, rows, files, open, object,
                      sweep, purge, job, account>>
      BY <1>5 DEF Drop
    <3>3. faults' \in 0..MaxFaults
      BY <1>5, FaultBound DEF Drop, JobTypes
    <3> QED BY <3>1, <3>2, <3>3 DEF RowTypes, StoreTypes, JobTypes
  <2>2. RequestTypes'
    BY <1>5, RespondTypes DEF Drop, Step
  <2> QED BY <2>1, <2>2
<1> QED BY <1>1, <1>2, <1>3, <1>4, <1>5

(* The sweeps, the jobs and the owner leave the requests alone. *)
LEMMA BackgroundTypes ==
    ASSUME RowTypes, StoreTypes, RequestTypes, JobTypes,
           \/ \E n \in Part, b \in Body : DirectPut(n, b)
           \/ DeleteClip \/ SessionExpires
           \/ SweepStep \/ PurgeStep \/ OrphanObjects \/ OrphanUploads \/ StopSweep
           \/ JobStep
    PROVE  RowTypes' /\ StoreTypes' /\ RequestTypes' /\ JobTypes'
<1> USE DEF rowVars, storeVars, requestVars, jobVars,
            RowTypes, StoreTypes, RequestTypes, JobTypes
<1>1. ASSUME NEW n \in Part, NEW b \in Body, DirectPut(n, b)
       PROVE  RowTypes' /\ StoreTypes' /\ RequestTypes' /\ JobTypes'
  <2>1. files' \in Parts
    BY <1>1, SetPartType DEF DirectPut
  <2>2. UNCHANGED <<setup, clip, session, expired, received, rows, open, object, stray, pc, work,
                    sweep, purge, job, account, faults>>
    BY <1>1 DEF DirectPut
  <2> QED BY <2>1, <2>2
<1>2. CASE DeleteClip
  BY <1>2 DEF DeleteClip, ClipStatus
<1>3. CASE SessionExpires
  BY <1>3 DEF SessionExpires
<1>4. CASE SweepList
  BY <1>4 DEF SweepList
<1>5. CASE SweepAbort
  BY <1>5 DEF SweepAbort, SessionStatus
<1>6. CASE SweepStorage
  <2>1. files' \in Parts /\ open' \in BOOLEAN /\ faults' \in 0..MaxFaults
    BY <1>6, NoPartsType, FaultBound DEF SweepStorage
  <2>2. sweep' = "parts" /\ UNCHANGED <<setup, clip, session, expired, received, rows,
                                        object, stray, pc, work, purge, job, account>>
    BY <1>6 DEF SweepStorage
  <2> QED BY <2>1, <2>2
<1>7. CASE SweepParts
  BY <1>7, NoPartsType DEF SweepParts
<1>8. CASE SweepClip
  BY <1>8 DEF SweepClip, ClipStatus
<1>9. CASE PurgeObject
  BY <1>9 DEF PurgeObject, Content
<1>10. CASE PurgeSession
  BY <1>10, NoPartsType DEF PurgeSession, SessionStatus
<1>11. CASE PurgeClip
  BY <1>11 DEF PurgeClip, ClipStatus
<1>12. CASE OrphanObjects
  BY <1>12 DEF OrphanObjects, Content
<1>13. CASE OrphanUploads
  <2>1. files' \in Parts /\ open' \in BOOLEAN
    BY <1>13, NoPartsType DEF OrphanUploads
  <2>2. UNCHANGED <<setup, clip, session, expired, received, rows, object, stray, pc, work,
                    sweep, purge, job, account, faults>>
    BY <1>13 DEF OrphanUploads
  <2> QED BY <2>1, <2>2
<1>14. CASE StopSweep
  BY <1>14, RequestAssumption DEF StopSweep
<1>15. CASE ValidateObject
  BY <1>15 DEF ValidateObject
<1>16. CASE MarkReady
  BY <1>16 DEF MarkReady, ClipStatus
<1>17. CASE ValidateDies
  BY <1>17 DEF ValidateDies, ClipStatus, SessionStatus, FailedClip
<1>18. CASE BuildCandidate
  BY <1>18 DEF BuildCandidate
<1>19. CASE ActivateCandidate
  BY <1>19 DEF ActivateCandidate, Content
<1> QED BY <1>1, <1>2, <1>3, <1>4, <1>5, <1>6, <1>7, <1>8, <1>9, <1>10,
          <1>11, <1>12, <1>13, <1>14, <1>15, <1>16, <1>17, <1>18, <1>19
       DEF SweepStep, PurgeStep, JobStep

(* So does the purge of the account. *)
LEMMA AccountTypes ==
    ASSUME RowTypes, StoreTypes, RequestTypes, JobTypes, AccountStep
    PROVE  RowTypes' /\ StoreTypes' /\ RequestTypes' /\ JobTypes'
<1> USE DEF rowVars, storeVars, requestVars,
            RowTypes, StoreTypes, RequestTypes, JobTypes
<1>1. CASE CloseAccount
  BY <1>1 DEF CloseAccount
<1>2. CASE AccountStorage
  <2>1. files' \in Parts /\ open' \in BOOLEAN /\ object' \in Content /\ faults' \in 0..MaxFaults
    BY <1>2, NoPartsType, FaultBound DEF AccountStorage, Content
  <2>2. account' = "parts" /\ UNCHANGED <<setup, clip, session, expired, received, rows,
                                          stray, pc, work, sweep, purge, job>>
    BY <1>2 DEF AccountStorage
  <2> QED BY <2>1, <2>2
<1>3. CASE AccountParts
  BY <1>3, NoPartsType DEF AccountParts
<1>4. CASE AccountSessions
  BY <1>4, NoPartsType DEF AccountSessions, SessionStatus
<1>5. CASE AccountJobs
  BY <1>5 DEF AccountJobs
<1>6. CASE AccountClip
  BY <1>6 DEF AccountClip, ClipStatus
<1>7. CASE AccountMedia
  <2>1. object' \in Content /\ faults' \in 0..MaxFaults
    BY <1>7, FaultBound DEF AccountMedia, Content
  <2>2. account' = "purged" /\ UNCHANGED <<setup, clip, session, expired, received, rows, files,
                                           open, stray, pc, work, sweep, purge, job>>
    BY <1>7 DEF AccountMedia
  <2> QED BY <2>1, <2>2
<1>8. CASE StopPurge
  BY <1>8, FaultBound DEF StopPurge
<1> QED BY <1>1, <1>2, <1>3, <1>4, <1>5, <1>6, <1>7, <1>8 DEF AccountStep

(* TypeOK holds in every reachable state. *)
THEOREM TypeCorrect == Spec => []TypeOK
<1>1. Init => TypeOK
  <2>1. SUFFICES ASSUME Init PROVE RowTypes /\ StoreTypes /\ RequestTypes /\ JobTypes
    BY TypeParts
  <2>2. RowTypes /\ StoreTypes /\ JobTypes
    <3>1. 0 \in 0..NumParts /\ 0 \in 0..MaxFaults
      BY RequestAssumption
    <3>2. open \in BOOLEAN
      BY <2>1, SetupAssumption DEF Init, Setup
    <3> QED BY <2>1, <3>1, <3>2, NoPartsType
            DEF Init, RowTypes, StoreTypes, JobTypes, ClipStatus, SessionStatus, Content
  <2>3. RequestTypes
    BY <2>1, WorkTypes DEF Init, RequestTypes, Step
  <2> QED BY <2>2, <2>3
<1>2. TypeOK /\ [Next]_vars => TypeOK'
  <2>1. SUFFICES ASSUME RowTypes, StoreTypes, RequestTypes, JobTypes, [Next]_vars
                 PROVE  RowTypes' /\ StoreTypes' /\ RequestTypes' /\ JobTypes'
    BY TypeParts DEF TypeOK, RowTypes, StoreTypes, RequestTypes, JobTypes
  <2>2. ASSUME NEW r \in Request, Arrive(r) \/ Progress(r) \/ Drop(r)
         PROVE  RowTypes' /\ StoreTypes' /\ RequestTypes' /\ JobTypes'
    BY <2>1, <2>2, ArriveTypes, PartStepTypes, ObjectStepTypes, EndTypes DEF Progress
  <2>3. CASE UNCHANGED vars
    BY <2>1, <2>3 DEF vars, rowVars, storeVars, requestVars, jobVars,
                      RowTypes, StoreTypes, RequestTypes, JobTypes
  <2> QED BY <2>1, <2>2, <2>3, BackgroundTypes, AccountTypes DEF Next
<1> QED BY <1>1, <1>2, PTL DEF Spec

-----------------------------------------------------------------------------
(* What may change the rows *)

(* The steps that write the status of the session ... *)
SessionWriters ==
    \/ \E r \in Request : MarkUploading(r) \/ FailSession(r) \/ Finalize(r) \/ BeginAbort(r)
    \/ SweepAbort \/ PurgeSession \/ AccountSessions \/ ValidateDies

(* ... the status of the clip ... *)
ClipWriters ==
    \/ \E r \in Request : FailClip(r) \/ Finalize(r) \/ BeginAbort(r)
    \/ DeleteClip \/ SweepClip \/ PurgeClip \/ AccountClip \/ MarkReady \/ ValidateDies

(* ... and the part rows. *)
PartWriters ==
    \/ \E r \in Request : RecordPart(r) \/ BeginAbort(r)
    \/ SweepParts \/ PurgeSession \/ AccountParts \/ AccountSessions

(* No other step does: of the requests' steps ... *)
LEMMA RequestFrames ==
    ASSUME NEW r \in Request, Arrive(r) \/ Progress(r) \/ Drop(r)
    PROVE  /\ UNCHANGED session \/ SessionWriters
           /\ UNCHANGED clip \/ ClipWriters
           /\ UNCHANGED rows \/ PartWriters
<1> USE DEF rowVars, SessionWriters, ClipWriters, PartWriters
<1>1. CASE Arrive(r)
  BY <1>1 DEF Arrive, BeginPart, BeginAck, BeginContent, BeginComplete
<1>2. CASE StorePart(r) \/ RecordPart(r) \/ SumParts(r) \/ MarkUploading(r)
  BY <1>2 DEF StorePart, RecordPart, SumParts, MarkUploading
<1>3. CASE PutObject(r) \/ CopyPart(r) \/ RenameObject(r) \/ CleanUpload(r)
  BY <1>3 DEF PutObject, CopyPart, RenameObject, CleanUpload
<1>4. CASE CompleteOnS3(r) \/ HeadObject(r) \/ HashObject(r) \/ DeleteMismatch(r)
  BY <1>4 DEF CompleteOnS3, HeadObject, HashObject, DeleteMismatch
<1>5. CASE FailSession(r) \/ FailClip(r) \/ Finalize(r) \/ AbortStorage(r) \/ Drop(r)
  BY <1>5 DEF FailSession, FailClip, Finalize, AbortStorage, Drop
<1> QED BY <1>1, <1>2, <1>3, <1>4, <1>5 DEF Progress

(* ... and of all the others. *)
LEMMA Frames ==
    ASSUME [Next]_vars
    PROVE  /\ UNCHANGED session \/ SessionWriters
           /\ UNCHANGED clip \/ ClipWriters
           /\ UNCHANGED rows \/ PartWriters
<1> USE DEF rowVars, SessionWriters, ClipWriters, PartWriters
<1>1. CASE SweepStep
  BY <1>1 DEF SweepStep, SweepList, SweepAbort, SweepStorage, SweepParts, SweepClip
<1>2. CASE PurgeStep \/ OrphanObjects \/ OrphanUploads \/ StopSweep
  BY <1>2 DEF PurgeStep, PurgeObject, PurgeSession, PurgeClip, OrphanObjects, OrphanUploads,
              StopSweep
<1>3. CASE JobStep
  BY <1>3 DEF JobStep, ValidateObject, MarkReady, ValidateDies, BuildCandidate, ActivateCandidate
<1>4. CASE DeleteClip \/ SessionExpires \/ \E n \in Part, b \in Body : DirectPut(n, b)
  BY <1>4 DEF DeleteClip, SessionExpires, DirectPut
<1>5. CASE AccountStep
  BY <1>5 DEF AccountStep, CloseAccount, AccountStorage, AccountParts, AccountSessions,
              AccountJobs, AccountClip, AccountMedia, StopPurge
<1>6. CASE UNCHANGED vars
  BY <1>6 DEF vars
<1> QED BY <1>1, <1>2, <1>3, <1>4, <1>5, <1>6, RequestFrames DEF Next

(* A session that no longer takes parts never does again. *)
LEMMA SessionCloses ==
    ASSUME [Next]_vars, Mutable'
    PROVE  Mutable
BY Frames DEF SessionWriters, Mutable, MarkUploading, FailSession, Finalize, BeginAbort,
              SweepAbort, PurgeSession, AccountSessions, ValidateDies, rowVars

(* A deleted clip stays deleted, whichever request, sweep or job held it in   *)
(* memory before: finalize_upload, mark_failed and mark_ready test for it.   *)
THEOREM DeletedClipsStayDeleted == Spec => DeletedStaysDeleted
<1>1. ASSUME Gone, [Next]_vars PROVE Gone'
  BY <1>1, Frames DEF ClipWriters, Gone, FailClip, FailedClip, Finalize, Finalizable, BeginAbort,
                      DeleteClip, SweepClip, PurgeClip, AccountClip, MarkReady, ValidateDies
<1>2. [Next]_vars => [Gone => Gone']_vars
  BY <1>1
<1> QED BY <1>2, PTL DEF Spec, DeletedStaysDeleted

-----------------------------------------------------------------------------
(* Progress *)

(* The sums in flight are no more than what is recorded by now, and the rows  *)
(* of an expired session are removed only once it is closed.                *)
SumsAreNotOverstated ==
    Mutable /\ account = "kept" => \A r \in Request : pc[r] = "marking" => work[r].sum <= Recorded

SweptIsClosed == sweep \in {"storage", "parts", "clip"} => ~Mutable

ProgressInv == ProgressIsNotOverstated /\ SumsAreNotOverstated /\ SweptIsClosed

(* Only the sweep, and what stops it, moves it. *)
LEMMA SweepIsAlone ==
    ASSUME [Next]_vars, sweep' # sweep
    PROVE  SweepStep \/ StopSweep
<1> USE DEF jobVars
<1>1. ASSUME NEW r \in Request, Arrive(r) PROVE FALSE
  BY <1>1 DEF Arrive, BeginPart, BeginAck, BeginContent, BeginComplete, BeginAbort
<1>2. ASSUME NEW r \in Request, Progress(r) PROVE FALSE
  BY <1>2 DEF Progress, StorePart, RecordPart, SumParts, MarkUploading, PutObject, CopyPart,
              RenameObject, CleanUpload, CompleteOnS3, HeadObject, HashObject, DeleteMismatch,
              FailSession, FailClip, Finalize, AbortStorage
<1>3. ASSUME NEW r \in Request, Drop(r) PROVE FALSE
  BY <1>3 DEF Drop
<1>4. CASE PurgeStep \/ OrphanObjects \/ OrphanUploads
  BY <1>4 DEF PurgeStep, PurgeObject, PurgeSession, PurgeClip, OrphanObjects, OrphanUploads
<1>5. CASE JobStep
  BY <1>5 DEF JobStep, ValidateObject, MarkReady, ValidateDies, BuildCandidate, ActivateCandidate
<1>6. CASE DeleteClip \/ SessionExpires \/ \E n \in Part, b \in Body : DirectPut(n, b)
  BY <1>6 DEF DeleteClip, SessionExpires, DirectPut
<1>7. CASE AccountStep
  BY <1>7 DEF AccountStep, CloseAccount, AccountStorage, AccountParts, AccountSessions,
              AccountJobs, AccountClip, AccountMedia, StopPurge
<1>8. CASE UNCHANGED vars
  BY <1>8 DEF vars
<1> QED BY <1>1, <1>2, <1>3, <1>4, <1>5, <1>6, <1>7, <1>8 DEF Next

(* A sweep past abort_if_expired has closed the session. *)
LEMMA SweptStaysClosed ==
    ASSUME SweptIsClosed, [Next]_vars
    PROVE  SweptIsClosed'
<1>1. CASE UNCHANGED sweep
  BY <1>1, SessionCloses DEF SweptIsClosed
<1>2. CASE sweep' # sweep
  <2>1. SweepStep \/ StopSweep
    BY <1>2, SweepIsAlone
  <2> QED BY <2>1, SessionCloses
          DEF SweptIsClosed, SweepStep, SweepList, SweepAbort, SweepStorage, SweepParts, SweepClip,
              StopSweep, Mutable
<1> QED BY <1>1, <1>2

(* Only mark_uploading and finalize_upload write received_size_bytes. *)
LEMMA ReceivedWriters ==
    ASSUME [Next]_vars
    PROVE  UNCHANGED received \/ \E r \in Request : MarkUploading(r) \/ Finalize(r)
<1> USE DEF rowVars
<1>1. ASSUME NEW r \in Request, Arrive(r) PROVE UNCHANGED received
  BY <1>1 DEF Arrive, BeginPart, BeginAck, BeginContent, BeginComplete, BeginAbort
<1>2. ASSUME NEW r \in Request, Progress(r)
      PROVE  UNCHANGED received \/ MarkUploading(r) \/ Finalize(r)
  BY <1>2 DEF Progress, StorePart, RecordPart, SumParts, PutObject, CopyPart, RenameObject,
              CleanUpload, CompleteOnS3, HeadObject, HashObject, DeleteMismatch,
              FailSession, FailClip, AbortStorage
<1>3. ASSUME NEW r \in Request, Drop(r) PROVE UNCHANGED received
  BY <1>3 DEF Drop
<1>4. CASE SweepStep \/ StopSweep
  BY <1>4 DEF SweepStep, SweepList, SweepAbort, SweepStorage, SweepParts, SweepClip, StopSweep
<1>5. CASE PurgeStep \/ OrphanObjects \/ OrphanUploads
  BY <1>5 DEF PurgeStep, PurgeObject, PurgeSession, PurgeClip, OrphanObjects, OrphanUploads
<1>6. CASE JobStep
  BY <1>6 DEF JobStep, ValidateObject, MarkReady, ValidateDies, BuildCandidate, ActivateCandidate
<1>7. CASE DeleteClip \/ SessionExpires \/ \E n \in Part, b \in Body : DirectPut(n, b)
  BY <1>7 DEF DeleteClip, SessionExpires, DirectPut
<1>8. CASE AccountStep
  BY <1>8 DEF AccountStep, CloseAccount, AccountStorage, AccountParts, AccountSessions,
              AccountJobs, AccountClip, AccountMedia, StopPurge
<1>9. CASE UNCHANGED vars
  BY <1>9 DEF vars
<1> QED BY <1>1, <1>2, <1>3, <1>4, <1>5, <1>6, <1>7, <1>8, <1>9 DEF Next

(* A purge that has begun is never undone. *)
LEMMA OnlyCloses ==
    ASSUME [Next]_vars, account' = "kept"
    PROVE  account = "kept"
<1> USE DEF jobVars
<1>1. ASSUME NEW r \in Request, Arrive(r) \/ Progress(r) \/ Drop(r) PROVE UNCHANGED account
  <2>1. CASE Arrive(r)
    BY <2>1 DEF Arrive, BeginPart, BeginAck, BeginContent, BeginComplete, BeginAbort
  <2>2. CASE Progress(r)
    BY <2>2 DEF Progress, StorePart, RecordPart, SumParts, MarkUploading, PutObject, CopyPart,
                RenameObject, CleanUpload, CompleteOnS3, HeadObject, HashObject, DeleteMismatch,
                FailSession, FailClip, Finalize, AbortStorage
  <2>3. CASE Drop(r)
    BY <2>3 DEF Drop
  <2> QED BY <1>1, <2>1, <2>2, <2>3
<1>2. CASE SweepStep \/ StopSweep
  BY <1>2 DEF SweepStep, SweepList, SweepAbort, SweepStorage, SweepParts, SweepClip, StopSweep
<1>3. CASE PurgeStep \/ OrphanObjects \/ OrphanUploads
  BY <1>3 DEF PurgeStep, PurgeObject, PurgeSession, PurgeClip, OrphanObjects, OrphanUploads
<1>4. CASE JobStep
  BY <1>4 DEF JobStep, ValidateObject, MarkReady, ValidateDies, BuildCandidate, ActivateCandidate
<1>5. CASE DeleteClip \/ SessionExpires \/ \E n \in Part, b \in Body : DirectPut(n, b)
  BY <1>5 DEF DeleteClip, SessionExpires, DirectPut
<1>6. CASE AccountStep
  BY <1>6 DEF AccountStep, CloseAccount, AccountStorage, AccountParts, AccountSessions,
              AccountJobs, AccountClip, AccountMedia, StopPurge
<1>7. CASE UNCHANGED vars
  BY <1>7 DEF vars
<1> QED BY <1>1, <1>2, <1>3, <1>4, <1>5, <1>6, <1>7 DEF Next

(* The sweeps, the jobs and the owner leave the requests where they are. *)
LEMMA OthersKeepRequests ==
    ASSUME [Next]_vars, \A r \in Request : ~(Arrive(r) \/ Progress(r) \/ Drop(r))
    PROVE  UNCHANGED requestVars
<1>1. CASE SweepStep \/ StopSweep
  BY <1>1 DEF SweepStep, SweepList, SweepAbort, SweepStorage, SweepParts, SweepClip, StopSweep
<1>2. CASE PurgeStep \/ OrphanObjects \/ OrphanUploads
  BY <1>2 DEF PurgeStep, PurgeObject, PurgeSession, PurgeClip, OrphanObjects, OrphanUploads
<1>3. CASE JobStep
  BY <1>3 DEF JobStep, ValidateObject, MarkReady, ValidateDies, BuildCandidate, ActivateCandidate
<1>4. CASE DeleteClip \/ SessionExpires \/ \E n \in Part, b \in Body : DirectPut(n, b)
  BY <1>4 DEF DeleteClip, SessionExpires, DirectPut
<1>5. CASE AccountStep
  BY <1>5 DEF AccountStep, CloseAccount, AccountStorage, AccountParts, AccountSessions,
              AccountJobs, AccountClip, AccountMedia, StopPurge
<1>6. CASE UNCHANGED vars
  BY <1>6 DEF vars
<1> QED BY <1>1, <1>2, <1>3, <1>4, <1>5, <1>6 DEF Next

(* While the session takes parts and its account is kept, none of those      *)
(* recorded is removed.                                                    *)
LEMMA RowsGrow ==
    ASSUME RowTypes, RequestTypes, SweptIsClosed, [Next]_vars, Mutable, Mutable',
           account = "kept"
    PROVE  \A n \in Part : rows[n] # NoBody => rows'[n] # NoBody
<1>1. CASE UNCHANGED rows
  BY <1>1
<1>2. ASSUME NEW r \in Request, RecordPart(r)
      PROVE  \A n \in Part : rows[n] # NoBody => rows'[n] # NoBody
  BY <1>2, CarriedTypes, BodyAssumption DEF RecordPart, RowTypes, Parts
<1>3. ASSUME NEW r \in Request, BeginAbort(r) PROVE FALSE
  BY <1>3 DEF BeginAbort, Mutable
<1>4. CASE SweepParts
  BY <1>4 DEF SweepParts, SweptIsClosed
<1>5. CASE PurgeSession
  BY <1>5 DEF PurgeSession, Mutable
<1>6. CASE AccountParts \/ AccountSessions
  BY <1>6 DEF AccountParts, AccountSessions
<1> QED BY <1>1, <1>2, <1>3, <1>4, <1>5, <1>6, Frames DEF PartWriters

(* A request with a sum in hand has just taken it, or keeps the one it had. *)
LEMMA SumInHand ==
    ASSUME RequestTypes, [Next]_vars, NEW q \in Request, pc'[q] = "marking"
    PROVE  SumParts(q) \/ (pc[q] = "marking" /\ work'[q] = work[q])
<1> USE DEF RequestTypes, requestVars
<1>1. ASSUME NEW r \in Request, Arrive(r) PROVE pc[q] = "marking" /\ work'[q] = work[q]
  BY <1>1 DEF Arrive, BeginPart, BeginAck, BeginContent, BeginComplete, BeginAbort, Goto, Hold
<1>2. ASSUME NEW r \in Request, StorePart(r) \/ RecordPart(r) \/ MarkUploading(r)
      PROVE  pc[q] = "marking" /\ work'[q] = work[q]
  BY <1>2 DEF StorePart, RecordPart, MarkUploading, Goto, Respond
<1>3. ASSUME NEW r \in Request, r # q, SumParts(r) PROVE pc[q] = "marking" /\ work'[q] = work[q]
  BY <1>3 DEF SumParts, Goto, Hold
<1>4. ASSUME NEW r \in Request,
             PutObject(r) \/ CopyPart(r) \/ RenameObject(r) \/ CleanUpload(r) \/ CompleteOnS3(r)
      PROVE  pc[q] = "marking" /\ work'[q] = work[q]
  BY <1>4 DEF PutObject, CopyPart, RenameObject, CleanUpload, CompleteOnS3, Goto, Hold, Respond
<1>5. ASSUME NEW r \in Request, HeadObject(r) \/ HashObject(r) \/ DeleteMismatch(r)
      PROVE  pc[q] = "marking" /\ work'[q] = work[q]
  BY <1>5 DEF HeadObject, HashObject, DeleteMismatch, Goto, Respond
<1>6. ASSUME NEW r \in Request,
             FailSession(r) \/ FailClip(r) \/ Finalize(r) \/ AbortStorage(r) \/ Drop(r)
      PROVE  pc[q] = "marking" /\ work'[q] = work[q]
  BY <1>6 DEF FailSession, FailClip, Finalize, AbortStorage, Drop, Goto, Respond
<1>7. CASE UNCHANGED requestVars
  BY <1>7
<1>8. ASSUME NEW r \in Request, Progress(r)
      PROVE  SumParts(q) \/ (pc[q] = "marking" /\ work'[q] = work[q])
  BY <1>8, <1>2, <1>3, <1>4, <1>5, <1>6 DEF Progress
<1>9. CASE \A r \in Request : ~(Arrive(r) \/ Progress(r) \/ Drop(r))
  BY <1>9, <1>7, OthersKeepRequests
<1> QED BY <1>1, <1>6, <1>8, <1>9

(* received_size_bytes never reports parts that are not recorded, for any     *)
(* number of concurrent part uploads: each sum is of rows that only grow     *)
(* while the session takes parts, and the session that lost its rows is      *)
(* closed before them, or its account is.                                  *)
THEOREM ProgressNeverOverstated == Spec => []ProgressIsNotOverstated
<1>1. Init => ProgressInv
  BY RecordedBound DEF Init, ProgressInv, ProgressIsNotOverstated, SumsAreNotOverstated,
                       SweptIsClosed
<1>2. ASSUME TypeOK, ProgressInv, [Next]_vars PROVE ProgressInv'
  <2>1. SweptIsClosed'
    BY <1>2, SweptStaysClosed DEF ProgressInv
  <2>2. SUFFICES ASSUME Mutable', account' = "kept"
                 PROVE  /\ received' <= Recorded'
                        /\ \A q \in Request : pc'[q] = "marking" => work'[q].sum <= Recorded'
    BY <2>1 DEF ProgressInv, ProgressIsNotOverstated, SumsAreNotOverstated
  <2>3. Mutable /\ account = "kept"
    BY <1>2, <2>2, SessionCloses, OnlyCloses
  <2>4. /\ received \in Nat /\ received <= Recorded
        /\ \A q \in Request : work[q].sum \in Nat
        /\ \A q \in Request : pc[q] = "marking" => work[q].sum <= Recorded
    BY <1>2, <2>3, TypeParts, CarriedTypes, RequestAssumption
    DEF ProgressInv, ProgressIsNotOverstated, SumsAreNotOverstated, RowTypes
  <2>5. \A n \in Part : rows[n] # NoBody => rows'[n] # NoBody
    BY <1>2, <2>2, <2>3, RowsGrow, TypeParts DEF ProgressInv
  <2>6. Recorded <= Recorded' /\ Recorded \in Nat /\ Recorded' \in Nat
    BY <2>5, RecordingGrows
  <2>7. received' <= Recorded'
    <3>1. CASE UNCHANGED received
      BY <3>1, <2>4, <2>6
    <3>2. ASSUME NEW r \in Request, MarkUploading(r) PROVE received' <= Recorded'
      BY <3>2, <2>3, <2>4, <2>6 DEF MarkUploading
    <3>3. ASSUME NEW r \in Request, Finalize(r) PROVE UNCHANGED received
      BY <3>3, <2>2 DEF Finalize, Mutable
    <3> QED BY <1>2, <3>1, <3>2, <3>3, ReceivedWriters
  <2>8. ASSUME NEW q \in Request, pc'[q] = "marking" PROVE work'[q].sum <= Recorded'
    <3>1. CASE SumParts(q)
      BY <3>1, <1>2, <2>6, TypeParts DEF SumParts, Hold, RequestTypes, Work
    <3>2. CASE pc[q] = "marking" /\ work'[q] = work[q]
      BY <3>2, <2>4, <2>6
    <3> QED BY <1>2, <2>8, <3>1, <3>2, SumInHand, TypeParts
  <2> QED BY <2>7, <2>8
<1>3. ProgressInv => ProgressIsNotOverstated
  BY DEF ProgressInv
<1> QED BY <1>1, <1>2, <1>3, TypeCorrect, PTL DEF Spec

-----------------------------------------------------------------------------
(* What becomes of the bytes: acknowledged parts are kept, a completed upload *)
(* has the object it announced, and completion is final.                    *)

(* What a request does in a step of its own. *)
Moves(r) == Arrive(r) \/ Progress(r) \/ Drop(r)

-----------------------------------------------------------------------------
(* What may change the store and the jobs *)

(* The steps that write the object ... *)
ObjectWriters ==
    \/ \E r \in Request : PutObject(r) \/ RenameObject(r) \/ CompleteOnS3(r) \/ DeleteMismatch(r)
                            \/ AbortStorage(r)
    \/ PurgeObject \/ OrphanObjects \/ AccountStorage \/ AccountMedia \/ ActivateCandidate

(* ... the stored parts ... *)
FileWriters ==
    \/ \E r \in Request : StorePart(r) \/ CleanUpload(r) \/ CompleteOnS3(r) \/ AbortStorage(r)
    \/ \E n \in Part, b \in Body : DirectPut(n, b)
    \/ SweepStorage \/ OrphanUploads \/ AccountStorage

(* ... and the job of the clip. *)
JobWriters == (\E r \in Request : Finalize(r)) \/ JobStep \/ AccountJobs

(* No other step does: of the requests' steps ... *)
LEMMA RequestStoreFrames ==
    ASSUME NEW r \in Request, Moves(r)
    PROVE  /\ UNCHANGED object \/ ObjectWriters
           /\ UNCHANGED files \/ FileWriters
           /\ UNCHANGED job \/ JobWriters
           /\ UNCHANGED <<setup, sweep, purge, account>>
<1> USE DEF storeVars, jobVars, ObjectWriters, FileWriters, JobWriters
<1>1. CASE Arrive(r)
  BY <1>1 DEF Arrive, BeginPart, BeginAck, BeginContent, BeginComplete, BeginAbort
<1>2. CASE StorePart(r) \/ RecordPart(r) \/ SumParts(r) \/ MarkUploading(r)
  BY <1>2 DEF StorePart, RecordPart, SumParts, MarkUploading
<1>3. CASE PutObject(r) \/ CopyPart(r) \/ RenameObject(r) \/ CleanUpload(r)
  BY <1>3 DEF PutObject, CopyPart, RenameObject, CleanUpload
<1>4. CASE CompleteOnS3(r) \/ HeadObject(r) \/ HashObject(r) \/ DeleteMismatch(r)
  BY <1>4 DEF CompleteOnS3, HeadObject, HashObject, DeleteMismatch
<1>5. CASE FailSession(r) \/ FailClip(r) \/ Finalize(r) \/ AbortStorage(r) \/ Drop(r)
  BY <1>5 DEF FailSession, FailClip, Finalize, AbortStorage, Drop
<1> QED BY <1>1, <1>2, <1>3, <1>4, <1>5 DEF Moves, Progress

(* ... and of all the others. *)
LEMMA StoreFrames ==
    ASSUME [Next]_vars
    PROVE  /\ UNCHANGED object \/ ObjectWriters
           /\ UNCHANGED files \/ FileWriters
           /\ UNCHANGED job \/ JobWriters
           /\ UNCHANGED purge \/ PurgeStep \/ StopSweep
           /\ UNCHANGED account \/ AccountStep
           /\ UNCHANGED setup
<1> USE DEF storeVars, jobVars, ObjectWriters, FileWriters, JobWriters
<1>1. CASE SweepStep
  BY <1>1 DEF SweepStep, SweepList, SweepAbort, SweepStorage, SweepParts, SweepClip
<1>2. CASE PurgeStep \/ OrphanObjects \/ OrphanUploads \/ StopSweep
  BY <1>2 DEF PurgeStep, PurgeObject, PurgeSession, PurgeClip, OrphanObjects, OrphanUploads,
              StopSweep
<1>3. CASE JobStep
  BY <1>3 DEF JobStep, ValidateObject, MarkReady, ValidateDies, BuildCandidate, ActivateCandidate
<1>4. CASE DeleteClip \/ SessionExpires \/ \E n \in Part, b \in Body : DirectPut(n, b)
  BY <1>4 DEF DeleteClip, SessionExpires, DirectPut
<1>5. CASE AccountStep
  BY <1>5 DEF AccountStep, CloseAccount, AccountStorage, AccountParts, AccountSessions,
              AccountJobs, AccountClip, AccountMedia, StopPurge
<1>6. CASE UNCHANGED vars
  BY <1>6 DEF vars
<1>7. ASSUME NEW r \in Request, Moves(r)
      PROVE  /\ UNCHANGED object \/ ObjectWriters
             /\ UNCHANGED files \/ FileWriters
             /\ UNCHANGED job \/ JobWriters
             /\ UNCHANGED <<setup, purge, account>>
  BY <1>7, RequestStoreFrames
<1> QED BY <1>1, <1>2, <1>3, <1>4, <1>5, <1>6, <1>7 DEF Next, Moves

(* A request's step leaves the others where they are. *)
LEMMA OthersStay ==
    ASSUME RequestTypes, NEW q \in Request, NEW r \in Request, r # q, Moves(r)
    PROVE  pc'[q] = pc[q] /\ work'[q] = work[q]
<1> USE DEF RequestTypes
<1>1. CASE Arrive(r)
  BY <1>1 DEF Arrive, BeginPart, BeginAck, BeginContent, BeginComplete, BeginAbort, Goto, Hold
<1>2. CASE StorePart(r) \/ RecordPart(r) \/ SumParts(r) \/ MarkUploading(r)
  BY <1>2 DEF StorePart, RecordPart, SumParts, MarkUploading, Goto, Hold, Respond
<1>3. CASE PutObject(r) \/ CopyPart(r) \/ RenameObject(r) \/ CleanUpload(r) \/ CompleteOnS3(r)
  BY <1>3 DEF PutObject, CopyPart, RenameObject, CleanUpload, CompleteOnS3, Goto, Hold, Respond
<1>4. CASE HeadObject(r) \/ HashObject(r) \/ DeleteMismatch(r)
  BY <1>4 DEF HeadObject, HashObject, DeleteMismatch, Goto, Respond
<1>5. CASE FailSession(r) \/ FailClip(r) \/ Finalize(r) \/ AbortStorage(r) \/ Drop(r)
  BY <1>5 DEF FailSession, FailClip, Finalize, AbortStorage, Drop, Goto, Respond
<1> QED BY <1>1, <1>2, <1>3, <1>4, <1>5 DEF Moves, Progress

(* A request moves only by a step of its own. *)
LEMMA OnlyItself ==
    ASSUME RequestTypes, [Next]_vars, NEW q \in Request
    PROVE  (pc'[q] = pc[q] /\ work'[q] = work[q]) \/ Moves(q)
BY OthersStay, OthersKeepRequests DEF requestVars, Moves

-----------------------------------------------------------------------------
(* How a request gets where it is *)

Sending(r) == pc[r] \in {"storing", "recording"}
Holding(r) == pc[r] \in {"assembling", "renaming"}

(* The step behind each place a request can have moved to. *)
CameTo(q) ==
    /\ pc'[q] = "storing" => \E n \in Part, b \in Body :
         BeginPart(q, n, b) /\ work'[q].part = n /\ work'[q].body = b
    /\ pc'[q] = "recording" =>
         \/ StorePart(q) /\ work'[q] = work[q]
         \/ \E n \in Part : BeginAck(q, n) /\ work'[q].part = n /\ work'[q].body = files[n]
    /\ pc'[q] = "putting" => BeginContent(q)
    /\ pc'[q] \in {"assembling", "renaming"} =>
         \/ CopyPart(q) /\ work'[q].parts = work[q].parts
         \/ BeginComplete(q) /\ setup.chunked /\ Accepts /\ AllRecorded /\ work'[q].parts = rows
              /\ pc'[q] = "assembling"
    /\ pc'[q] = "cleaning" => RenameObject(q)
    /\ pc'[q] = "heading" => CopyPart(q) \/ CleanUpload(q) \/ CompleteOnS3(q)
    /\ pc'[q] = "hashing" => CleanUpload(q) \/ (HeadObject(q) /\ ~setup.s3)
    /\ pc'[q] = "deleting" => HashObject(q) /\ object \in {"corrupt", "optimized"}
    /\ pc'[q] = "finalizing" =>
         \/ PutObject(q)
         \/ HeadObject(q) /\ setup.s3 /\ object \in {"original", "corrupt"}
         \/ HashObject(q) /\ object = "original"
         \/ BeginComplete(q) /\ session = "completed"
    /\ pc'[q] = "failing_session" =>
         \/ (HeadObject(q) \/ CleanUpload(q)) /\ object = "optimized"
         \/ DeleteMismatch(q)
    /\ pc'[q] = "failing_clip" => FailSession(q)
    /\ pc'[q] = "aborting" => BeginAbort(q)

LEMMA Path ==
    ASSUME RequestTypes, NEW q \in Request, Moves(q)
    PROVE  CameTo(q)
<1>0. /\ pc \in [Request -> Step] /\ work[q] \in Work
      /\ work \in [Request -> Work] /\ NoWork \in Work
  BY WorkTypes DEF RequestTypes
<1>1. ASSUME NEW n \in Part, NEW b \in Body, BeginPart(q, n, b) PROVE CameTo(q)
  <2>1. pc'[q] = "storing" /\ work'[q] = [NoWork EXCEPT !.part = n, !.body = b]
    BY <1>0, <1>1 DEF BeginPart, Goto, Hold
  <2>2. work'[q].part = n /\ work'[q].body = b
    BY <2>1 DEF NoWork
  <2> QED BY <1>1, <2>1, <2>2 DEF CameTo
<1>2. ASSUME NEW n \in Part, BeginAck(q, n) PROVE CameTo(q)
  <2>1. pc'[q] = "recording" /\ work'[q] = [NoWork EXCEPT !.part = n, !.body = files[n]]
    BY <1>0, <1>2 DEF BeginAck, Goto, Hold
  <2>2. work'[q].part = n /\ work'[q].body = files[n]
    BY <2>1 DEF NoWork
  <2> QED BY <1>2, <2>1, <2>2 DEF CameTo
<1>3. ASSUME BeginContent(q) \/ BeginAbort(q) PROVE CameTo(q)
  BY <1>0, <1>3 DEF BeginContent, BeginAbort, Goto, CameTo
<1>4. ASSUME BeginComplete(q) PROVE CameTo(q)
  <2>1. CASE session = "completed" /\ Goto(q, "finalizing")
    BY <1>0, <1>4, <2>1 DEF Goto, CameTo
  <2>2. CASE /\ setup.chunked /\ Accepts /\ AllRecorded
             /\ Goto(q, "assembling") /\ Hold(q, [NoWork EXCEPT !.parts = rows])
    <3>1. pc'[q] = "assembling" /\ work'[q].parts = rows
      BY <1>0, <2>2 DEF Goto, Hold, NoWork
    <3> QED BY <1>4, <2>2, <3>1 DEF CameTo
  <2> QED BY <1>4, <2>1, <2>2 DEF BeginComplete
<1>5. ASSUME StorePart(q) \/ RecordPart(q) \/ SumParts(q) \/ MarkUploading(q) PROVE CameTo(q)
  BY <1>0, <1>5 DEF StorePart, RecordPart, SumParts, MarkUploading, Goto, Respond, CameTo
<1>6. ASSUME PutObject(q) \/ RenameObject(q) \/ CleanUpload(q) \/ CompleteOnS3(q) PROVE CameTo(q)
  BY <1>0, <1>6 DEF PutObject, RenameObject, CleanUpload, CompleteOnS3, Goto, Respond, CameTo
<1>7. ASSUME CopyPart(q) PROVE CameTo(q)
  <2>1. work'[q].parts = work[q].parts \/ pc'[q] = "idle"
    <3>1. CASE UNCHANGED work
      BY <3>1
    <3>2. CASE Respond(q)
      BY <1>0, <3>2 DEF Respond, Goto
    <3>3. CASE Hold(q, [work[q] EXCEPT !.part = work[q].part + 1])
      BY <1>0, <3>3 DEF Hold, Work
    <3> QED BY <1>7, <3>1, <3>2, <3>3 DEF CopyPart
  <2>2. pc'[q] \in {"idle", "heading", "renaming", "assembling"}
    BY <1>0, <1>7 DEF CopyPart, Goto, Respond
  <2> QED BY <1>7, <2>1, <2>2 DEF CameTo
<1>8. ASSUME HeadObject(q) \/ HashObject(q) \/ DeleteMismatch(q) PROVE CameTo(q)
  BY <1>0, <1>8 DEF HeadObject, HashObject, DeleteMismatch, Goto, Respond, CameTo
<1>9. ASSUME FailSession(q) \/ FailClip(q) \/ Finalize(q) \/ AbortStorage(q) \/ Drop(q)
      PROVE CameTo(q)
  BY <1>0, <1>9 DEF FailSession, FailClip, Finalize, AbortStorage, Drop, Goto, Respond, CameTo
<1> QED BY <1>1, <1>2, <1>3, <1>4, <1>5, <1>6, <1>7, <1>8, <1>9 DEF Moves, Arrive, Progress

(* A request is where it was, or came there by that step. *)
LEMMA Whence ==
    ASSUME RequestTypes, [Next]_vars, NEW q \in Request
    PROVE  (pc'[q] = pc[q] /\ work'[q] = work[q]) \/ CameTo(q)
BY OnlyItself, Path

-----------------------------------------------------------------------------
(* What only ever ends *)

(* The session takes parts and its account is kept. *)
Takes == Mutable /\ account = "kept"

(* The clip is there, its account is kept, and its upload may or did complete. *)
Live == ~Gone /\ account = "kept" /\ (Mutable \/ session = "completed")

(* None of them comes back. *)
LEMMA Endings ==
    ASSUME [Next]_vars
    PROVE  /\ Mutable' => Mutable
           /\ Gone => Gone'
           /\ account' = "kept" => account = "kept"
           /\ Takes' => Takes
           /\ Live' => Live
           /\ session = "absent" => session' = "absent"
           /\ session' = "completed" =>
                session = "completed" \/ (Mutable /\ \E r \in Request : Finalize(r))
<1>1. Mutable' => Mutable
  BY SessionCloses
<1>2. Gone => Gone'
  BY Frames DEF ClipWriters, Gone, FailClip, FailedClip, Finalize, Finalizable, BeginAbort,
                DeleteClip, SweepClip, PurgeClip, AccountClip, MarkReady, ValidateDies
<1>3. account' = "kept" => account = "kept"
  BY OnlyCloses
<1>4. session = "absent" => session' = "absent"
  BY Frames DEF SessionWriters, Mutable, MarkUploading, FailSession, Finalize, Finalizable,
                BeginAbort, AbortableStatus, SweepAbort, AbortIfExpired, PurgeSession,
                AccountSessions, ValidateDies
<1>5. session' = "completed" =>
        session = "completed" \/ (Mutable /\ \E r \in Request : Finalize(r))
  BY Frames DEF SessionWriters, Mutable, MarkUploading, FailSession, Finalize, Finalizable,
                BeginAbort, SweepAbort, PurgeSession, AccountSessions, ValidateDies, rowVars
<1> QED BY <1>1, <1>2, <1>3, <1>4, <1>5 DEF Takes, Live

-----------------------------------------------------------------------------
(* The parts in flight *)

(* Requests that are sending the same part send the same body, which is the  *)
(* one recorded if one is.                                                 *)
Rivals ==
    \A r \in Request : Sending(r) =>
        /\ rows[work[r].part] \in {NoBody, work[r].body}
        /\ \A q \in Request : Sending(q) /\ work[q].part = work[r].part => work[q].body = work[r].body

(* A request sends what it sent, or has just been let in. *)
LEMMA SendingFrom ==
    ASSUME RequestTypes, [Next]_vars, NEW q \in Request, Sending(q)'
    PROVE  \/ Sending(q) /\ work'[q] = work[q]
           \/ /\ Moves(q) /\ UNCHANGED rows
              /\ rows[work'[q].part] = NoBody
              /\ Unrivalled(work'[q].part, work'[q].body)
<1>1. CASE pc'[q] = pc[q] /\ work'[q] = work[q]
  BY <1>1 DEF Sending
<1>2. CASE CameTo(q)
  <2>1. CASE StorePart(q) /\ work'[q] = work[q]
    BY <2>1 DEF StorePart, Sending
  <2>2. ASSUME NEW n \in Part, NEW b \in Body,
               BeginPart(q, n, b), work'[q].part = n, work'[q].body = b
        PROVE  /\ Moves(q) /\ UNCHANGED rows
               /\ rows[work'[q].part] = NoBody
               /\ Unrivalled(work'[q].part, work'[q].body)
    BY <2>2 DEF BeginPart, Moves, Arrive, rowVars
  <2>3. ASSUME NEW n \in Part,
               BeginAck(q, n), work'[q].part = n, work'[q].body = files[n]
        PROVE  /\ Moves(q) /\ UNCHANGED rows
               /\ rows[work'[q].part] = NoBody
               /\ Unrivalled(work'[q].part, work'[q].body)
    BY <2>3 DEF BeginAck, Moves, Arrive, rowVars
  <2> QED BY <1>2, <2>1, <2>2, <2>3 DEF CameTo, Sending
<1> QED BY <1>1, <1>2, Whence

LEMMA RivalsStep ==
    ASSUME RowTypes, RequestTypes, RequestTypes', Rivals, [Next]_vars
    PROVE  Rivals'
<1> SUFFICES ASSUME NEW r \in Request, Sending(r)'
             PROVE  /\ rows'[work'[r].part] \in {NoBody, work'[r].body}
                    /\ \A q \in Request : Sending(q)' /\ work'[q].part = work'[r].part =>
                         work'[q].body = work'[r].body
  BY DEF Rivals
<1> DEFINE Old(q) == Sending(q) /\ work'[q] = work[q]
           New(q) == /\ Moves(q) /\ UNCHANGED rows
                     /\ rows[work'[q].part] = NoBody
                     /\ Unrivalled(work'[q].part, work'[q].body)
<1>1. \A q \in Request : Sending(q)' => Old(q) \/ New(q)
  BY SendingFrom
<1>2. \A p, q \in Request : p # q /\ Moves(p) => pc'[q] = pc[q] /\ work'[q] = work[q]
  BY OthersStay
<1>3. ASSUME NEW q \in Request, Sending(q)', work'[q].part = work'[r].part
      PROVE  work'[q].body = work'[r].body
  <2>1. CASE Old(q) /\ Old(r)
    BY <1>3, <2>1 DEF Rivals
  <2>2. CASE New(r) /\ q # r
    BY <1>2, <1>3, <2>2 DEF Unrivalled, Sending
  <2>3. CASE New(q) /\ q # r
    BY <1>2, <1>3, <2>3 DEF Unrivalled, Sending
  <2> QED BY <1>1, <1>3, <2>1, <2>2, <2>3
<1>4. rows'[work'[r].part] \in {NoBody, work'[r].body}
  <2>1. CASE UNCHANGED rows
    BY <1>1, <2>1 DEF Rivals
  <2>2. CASE rows' = NoParts
    BY <2>2, CarriedTypes DEF NoParts, RequestTypes, Work
  <2>3. ASSUME NEW q \in Request, RecordPart(q), rows' = [rows EXCEPT ![work[q].part] = work[q].body],
               Goto(q, "summing")
        PROVE  rows'[work'[r].part] \in {NoBody, work'[r].body}
    <3>1. Sending(q) /\ Moves(q)
      BY <2>3 DEF RecordPart, Sending, Moves, Progress
    <3>2. q # r
      BY <2>3 DEF Goto, Sending, RequestTypes
    <3>3. Sending(r) /\ work'[r] = work[r]
      BY <1>2, <3>1, <3>2 DEF Sending
    <3>4. work[r].part \in Part /\ work[q].part \in Part /\ rows \in [Part -> Body \cup {NoBody}]
      BY CarriedTypes DEF RowTypes, Parts
    <3> QED BY <2>3, <3>1, <3>3, <3>4 DEF Rivals
  <2>4. UNCHANGED rows \/ rows' = NoParts
          \/ \E q \in Request : /\ RecordPart(q) /\ Goto(q, "summing")
                                /\ rows' = [rows EXCEPT ![work[q].part] = work[q].body]
    BY Frames DEF PartWriters, RecordPart, BeginAbort, SweepParts, PurgeSession, AccountParts,
                  AccountSessions
  <2> QED BY <2>1, <2>2, <2>3, <2>4
<1> QED BY <1>3, <1>4

(* What is recorded stays as it was recorded, while the session takes parts   *)
(* and its account is kept.                                                *)
LEMMA RowsStay ==
    ASSUME RowTypes, RequestTypes, SweptIsClosed, Rivals, [Next]_vars, Takes'
    PROVE  /\ UNCHANGED rows \/ \E q \in Request :
                 /\ RecordPart(q) /\ Sending(q)
                 /\ rows' = [rows EXCEPT ![work[q].part] = work[q].body]
                 /\ rows[work[q].part] \in {NoBody, work[q].body}
           /\ \A n \in Part : rows[n] # NoBody => rows'[n] = rows[n]
           /\ AllRecorded => rows' = rows
<1>1. Takes
  BY Endings
<1>2. UNCHANGED rows \/ \E q \in Request :
        RecordPart(q) /\ rows' = [rows EXCEPT ![work[q].part] = work[q].body]
  BY <1>1, Frames DEF PartWriters, RecordPart, BeginAbort, SweepParts, PurgeSession, AccountParts,
                AccountSessions, Takes, Mutable, SweptIsClosed
<1>3. ASSUME NEW q \in Request, RecordPart(q),
             rows' = [rows EXCEPT ![work[q].part] = work[q].body]
      PROVE  /\ Sending(q)
             /\ rows[work[q].part] \in {NoBody, work[q].body}
             /\ \A n \in Part : rows[n] # NoBody => rows'[n] = rows[n]
             /\ AllRecorded => rows' = rows
  <2>1. Sending(q)
    BY <1>3 DEF RecordPart, Sending
  <2>2. rows[work[q].part] \in {NoBody, work[q].body}
    BY <2>1 DEF Rivals
  <2>3. work[q].part \in Part /\ rows \in [Part -> Body \cup {NoBody}]
    BY CarriedTypes DEF RowTypes, Parts
  <2>4. \A n \in Part : rows[n] # NoBody => rows'[n] = rows[n]
    BY <1>3, <2>2, <2>3
  <2>5. AllRecorded => rows' = rows
    <3> SUFFICES ASSUME AllRecorded PROVE rows' = rows
      OBVIOUS
    <3>1. \A n \in Part : rows'[n] = rows[n]
      BY <2>4 DEF AllRecorded
    <3> QED BY <1>3, <2>3, <3>1
  <2> QED BY <2>1, <2>2, <2>4, <2>5
<1> QED BY <1>2, <1>3

(* The requests that assemble the object hold the same parts, all of them,    *)
(* which are those recorded while the session takes parts.                  *)
HeldParts ==
    \A r \in Request : Holding(r) =>
        /\ \A n \in Part : work[r].parts[n] # NoBody
        /\ Takes => rows = work[r].parts
        /\ \A q \in Request : Holding(q) => work[q].parts = work[r].parts

(* A request holds what it held, or has just read the rows. *)
LEMMA HoldingFrom ==
    ASSUME RequestTypes, [Next]_vars, NEW q \in Request, Holding(q)'
    PROVE  \/ Holding(q) /\ work'[q].parts = work[q].parts
           \/ Takes /\ AllRecorded /\ setup.chunked /\ UNCHANGED rows /\ work'[q].parts = rows
<1>1. CASE pc'[q] = pc[q] /\ work'[q] = work[q]
  BY <1>1 DEF Holding
<1>2. CASE CameTo(q)
  BY <1>2 DEF CameTo, Holding, CopyPart, BeginComplete, Accepts, Owned, Takes, rowVars
<1> QED BY <1>1, <1>2, Whence

LEMMA HeldPartsStep ==
    ASSUME RowTypes, RequestTypes, SweptIsClosed, Rivals, HeldParts, [Next]_vars
    PROVE  HeldParts'
<1> DEFINE Old(q) == Holding(q) /\ work'[q].parts = work[q].parts
           New(q) == Takes /\ AllRecorded /\ UNCHANGED rows /\ work'[q].parts = rows
<1>1. \A q \in Request : Holding(q)' => Old(q) \/ New(q)
  BY HoldingFrom
<1> SUFFICES ASSUME NEW r \in Request, Holding(r)'
             PROVE  /\ \A n \in Part : work'[r].parts[n] # NoBody
                    /\ Takes' => rows' = work'[r].parts
                    /\ \A q \in Request : Holding(q)' => work'[q].parts = work'[r].parts
  BY DEF HeldParts
<1>2. \A n \in Part : work'[r].parts[n] # NoBody
  BY <1>1 DEF HeldParts, AllRecorded
<1>3. ASSUME Takes' PROVE rows' = work'[r].parts
  <2>1. Takes
    BY <1>3, Endings
  <2>2. AllRecorded /\ rows = work'[r].parts
    BY <1>1, <2>1 DEF HeldParts, AllRecorded
  <2> QED BY <1>3, <2>2, RowsStay
<1>4. ASSUME NEW q \in Request, Holding(q)' PROVE work'[q].parts = work'[r].parts
  BY <1>1, <1>4 DEF HeldParts
<1> QED BY <1>2, <1>3, <1>4

-----------------------------------------------------------------------------
(* What has been made of them *)

(* Which requests there are in a chunked upload, on which store. *)
Modes ==
    \A r \in Request :
        /\ pc[r] \in {"assembling", "renaming", "cleaning", "heading", "hashing", "deleting",
                      "failing_session", "failing_clip"} => setup.chunked
        /\ pc[r] \in {"renaming", "cleaning", "hashing", "deleting"} => ~setup.s3
        /\ pc[r] = "putting" => ~setup.chunked

LEMMA ModesStep ==
    ASSUME RequestTypes, Modes, [Next]_vars
    PROVE  Modes'
<1> SUFFICES ASSUME NEW q \in Request
             PROVE  /\ pc'[q] \in {"assembling", "renaming", "cleaning", "heading", "hashing",
                                   "deleting", "failing_session", "failing_clip"} => setup.chunked
                    /\ pc'[q] \in {"renaming", "cleaning", "hashing", "deleting"} => ~setup.s3
                    /\ pc'[q] = "putting" => ~setup.chunked
  BY StoreFrames DEF Modes
<1>1. CASE pc'[q] = pc[q]
  BY <1>1 DEF Modes
<1>2. CASE CameTo(q)
  <2>1. pc'[q] \in {"assembling", "renaming", "cleaning", "heading", "hashing",
                    "deleting", "failing_session", "failing_clip"} => setup.chunked
    BY <1>2 DEF CameTo, Modes, CopyPart, RenameObject, CleanUpload, CompleteOnS3, HeadObject,
                HashObject, DeleteMismatch, FailSession
  <2>2. pc'[q] \in {"assembling", "renaming"} => pc'[q] = "assembling" \/ ~setup.s3
    BY <1>2 DEF CameTo, CopyPart
  <2>3. pc'[q] \in {"renaming", "cleaning", "hashing", "deleting"} => ~setup.s3
    BY <1>2, <2>2 DEF CameTo, Modes, RenameObject, CleanUpload, HashObject
  <2>4. pc'[q] = "putting" => ~setup.chunked
    BY <1>2 DEF CameTo, BeginContent
  <2> QED BY <2>1, <2>3, <2>4
<1> QED BY <1>1, <1>2, Whence

(* Whoever is to assemble the object, now or later, assembles c. *)
Agreed(c) ==
    /\ \A r \in Request : Holding(r) => Assembled(work[r].parts) = c
    /\ Takes => AllRecorded /\ Assembled(rows) = c

LEMMA AgreedStays ==
    ASSUME RowTypes, RequestTypes, SweptIsClosed, Rivals, [Next]_vars, NEW c, Agreed(c)
    PROVE  Agreed(c)'
<1>1. ASSUME NEW r \in Request, Holding(r)' PROVE Assembled(work'[r].parts) = c
  BY <1>1, HoldingFrom DEF Agreed
<1>2. ASSUME Takes' PROVE AllRecorded' /\ Assembled(rows)' = c
  <2>1. Takes
    BY <1>2, Endings
  <2>2. rows' = rows
    BY <1>2, <2>1, RowsStay DEF Agreed
  <2> QED BY <2>1, <2>2 DEF Agreed, AllRecorded, Assembled
<1> QED BY <1>1, <1>2 DEF Agreed, Assembled

(* One that assembles speaks for all. *)
LEMMA HolderAgrees ==
    ASSUME HeldParts, NEW r \in Request, Holding(r)
    PROVE  Agreed(Assembled(work[r].parts))
BY DEF HeldParts, Agreed, AllRecorded

(* An assembled object is what anyone would assemble. *)
Verdicts ==
    /\ setup.chunked /\ object \in {"original", "corrupt"} => Agreed(object)
    /\ ~setup.chunked => object # "corrupt"

(* What a step makes of the object. *)
LEMMA ObjectFrom ==
    ASSUME RequestTypes, Modes, [Next]_vars
    PROVE  \/ UNCHANGED object
           \/ \E r \in Request :
                PutObject(r) /\ object' = "original" /\ ~setup.chunked
           \/ \E r \in Request :
                /\ RenameObject(r) \/ CompleteOnS3(r)
                /\ Holding(r) /\ setup.chunked /\ object' = Assembled(work[r].parts)
           \/ \E r \in Request : DeleteMismatch(r) /\ object' = "none"
           \/ \E r \in Request : AbortStorage(r) /\ object' = "none"
           \/ (PurgeObject \/ OrphanObjects) /\ object' = "none" /\ Gone
           \/ (AccountStorage \/ AccountMedia) /\ object' = "none" /\ account # "kept"
           \/ ActivateCandidate /\ object' = "optimized"
<1>1. ASSUME NEW r \in Request, PutObject(r) PROVE object' = "original" /\ ~setup.chunked
  BY <1>1 DEF PutObject, Modes
<1>2. ASSUME NEW r \in Request, RenameObject(r)
      PROVE  Holding(r) /\ setup.chunked /\ object' = Assembled(work[r].parts)
  BY <1>2 DEF RenameObject, Modes, Holding
<1>3. ASSUME NEW r \in Request, CompleteOnS3(r)
      PROVE  \/ UNCHANGED object
             \/ Holding(r) /\ setup.chunked /\ object' = Assembled(work[r].parts)
  BY <1>3 DEF CompleteOnS3, Modes, Holding, storeVars
<1>4. ASSUME NEW r \in Request, DeleteMismatch(r) PROVE object' = "none"
  BY <1>4 DEF DeleteMismatch
<1>5. ASSUME NEW r \in Request, AbortStorage(r) PROVE UNCHANGED object \/ object' = "none"
  BY <1>5 DEF AbortStorage
<1>6. PurgeObject \/ OrphanObjects => object' = "none" /\ Gone
  BY DEF PurgeObject, OrphanObjects, Unreferenced, Gone
<1>7. AccountStorage \/ AccountMedia => account # "kept" /\ (UNCHANGED object \/ object' = "none")
  BY DEF AccountStorage, AccountMedia
<1>8. ActivateCandidate => object' = "optimized"
  BY DEF ActivateCandidate
<1> QED BY <1>1, <1>2, <1>3, <1>4, <1>5, <1>6, <1>7, <1>8, StoreFrames DEF ObjectWriters

LEMMA VerdictsStep ==
    ASSUME RowTypes, RequestTypes, SweptIsClosed, Rivals, HeldParts, Modes, Verdicts, [Next]_vars
    PROVE  Verdicts'
<1>1. UNCHANGED setup
  BY StoreFrames
<1>2. ASSUME setup.chunked, object' \in {"original", "corrupt"} PROVE Agreed(object)'
  <2>1. PICK c : Agreed(c) /\ object' = c
    BY <1>2, HolderAgrees, ObjectFrom DEF Verdicts
  <2>2. Agreed(c)'
    BY <2>1, AgreedStays
  <2> QED BY <2>1, <2>2 DEF Agreed
<1>3. ASSUME ~setup.chunked PROVE object' # "corrupt"
  BY <1>3, ObjectFrom DEF Verdicts
<1> QED BY <1>1, <1>2, <1>3 DEF Verdicts

(* How far the rows, the clip's job and the purge of its account have come    *)
(* when the session is over, deleted or completed.                          *)
Closed ==
    /\ job # "none" \/ clip \in {"processing", "ready"} \/ object = "optimized" => ~Mutable
    /\ object = "optimized" \/ job \in {"optimize", "activating"} => setup.optimize
    /\ \A r \in Request : /\ pc[r] = "aborting" => session \in {"aborted", "failed", "absent"}
                          /\ pc[r] = "failing_clip" => session \in {"failed", "absent"}
    /\ clip = "absent" \/ purge = "clip" \/ account \in {"clips", "clip", "media", "purged"}
         => session = "absent"
    /\ session = "completed" => clip \notin {"created", "failed"}

LEMMA ClosedStep ==
    ASSUME RequestTypes, Modes, Closed, [Next]_vars
    PROVE  Closed'
<1>1. UNCHANGED setup
  BY StoreFrames
<1>2. ASSUME job' # "none" \/ clip' \in {"processing", "ready"} \/ object' = "optimized", Mutable'
      PROVE  FALSE
  <2>1. Mutable /\ job = "none" /\ clip \notin {"processing", "ready"} /\ object # "optimized"
    BY <1>2, Endings DEF Closed
  <2>2. ~\E r \in Request : Finalize(r) /\ Finalizable
    BY <1>2 DEF Finalize, Mutable
  <2>3. job' = "none"
    BY <2>1, <2>2, StoreFrames
    DEF JobWriters, Finalize, JobStep, ValidateObject, MarkReady, ValidateDies, BuildCandidate,
        ActivateCandidate, AccountJobs
  <2>4. clip' \notin {"processing", "ready"}
    BY <2>1, <2>2, Frames
    DEF ClipWriters, FailClip, FailedClip, Finalize, BeginAbort, DeleteClip, SweepClip, PurgeClip,
        AccountClip, MarkReady, ValidateDies
  <2>5. object' # "optimized"
    BY <2>1, ObjectFrom DEF ActivateCandidate, Assembled
  <2> QED BY <1>2, <2>3, <2>4, <2>5
<1>3. object' = "optimized" \/ job' \in {"optimize", "activating"} => setup.optimize
  <2>1. job' \in {"optimize", "activating"} => setup.optimize
    BY StoreFrames
    DEF Closed, JobWriters, Finalize, JobStep, ValidateObject, MarkReady, ValidateDies,
        BuildCandidate, ActivateCandidate, AccountJobs
  <2>2. object' = "optimized" => setup.optimize
    BY ObjectFrom DEF Closed, ActivateCandidate, Assembled
  <2> QED BY <2>1, <2>2
<1>4. ASSUME NEW q \in Request
      PROVE  /\ pc'[q] = "aborting" => session' \in {"aborted", "failed", "absent"}
             /\ pc'[q] = "failing_clip" => session' \in {"failed", "absent"}
  <2>1. session \in {"failed", "absent"} => session' \in {"failed", "absent"}
    BY Frames DEF SessionWriters, Mutable, MarkUploading, FailSession, Finalize, Finalizable,
                BeginAbort, AbortableStatus, SweepAbort, AbortIfExpired, PurgeSession,
                AccountSessions, ValidateDies
  <2>2. session = "aborted" => session' \in {"aborted", "failed", "absent"}
    BY Frames DEF SessionWriters, Mutable, MarkUploading, FailSession, Finalize, Finalizable,
                BeginAbort, AbortableStatus, SweepAbort, AbortIfExpired, PurgeSession,
                AccountSessions, ValidateDies
  <2>3. CASE pc'[q] = pc[q]
    BY <2>1, <2>2, <2>3 DEF Closed
  <2>4. CASE CameTo(q)
    BY <2>4 DEF CameTo, BeginAbort, FailSession
  <2> QED BY <2>3, <2>4, Whence
<1>5. ASSUME clip' = "absent" \/ purge' = "clip"
               \/ account' \in {"clips", "clip", "media", "purged"}
      PROVE  session' = "absent"
  <2>1. CASE session = "absent"
    BY <2>1, Endings
  <2>2. CASE session # "absent"
    <3>1. clip # "absent" /\ purge # "clip" /\ account \notin {"clips", "clip", "media", "purged"}
      BY <2>2 DEF Closed
    <3>2. CASE clip' = "absent"
      BY <3>1, <3>2, Frames
      DEF ClipWriters, FailClip, FailedClip, Gone, Finalize, BeginAbort, DeleteClip, SweepClip,
          PurgeClip, AccountClip, MarkReady, ValidateDies
    <3>3. CASE purge' = "clip"
      BY <3>1, <3>3, StoreFrames DEF PurgeStep, PurgeObject, PurgeSession, PurgeClip, StopSweep
    <3>4. CASE account' \in {"clips", "clip", "media", "purged"}
      BY <2>2, <3>1, <3>4, StoreFrames
      DEF AccountStep, CloseAccount, AccountStorage, AccountParts, AccountSessions, AccountJobs,
          AccountClip, AccountMedia, StopPurge
    <3> QED BY <1>5, <3>2, <3>3, <3>4
  <2> QED BY <2>1, <2>2
<1>6. ASSUME session' = "completed" PROVE clip' \notin {"created", "failed"}
  <2>1. ASSUME NEW r \in Request, Finalize(r), Mutable PROVE clip' \in {"processing", "ready"}
    BY <1>6, <2>1 DEF Finalize, Mutable
  <2>2. ASSUME session = "completed" PROVE clip' \notin {"created", "failed"}
    BY <1>6, <2>2, Frames
    DEF Closed, ClipWriters, FailClip, FailedClip, Finalize, BeginAbort, DeleteClip, SweepClip,
        PurgeClip, AccountClip, MarkReady, ValidateDies
  <2> QED BY <1>6, <2>1, <2>2, Endings
<1> QED BY <1>1, <1>2, <1>3, <1>4, <1>5, <1>6 DEF Closed

(* An upload is failed for its bytes only when those are what anyone would    *)
(* assemble of the parts it was sent, unless its object was optimized.       *)
Condemned ==
    \A r \in Request : pc[r] \in {"deleting", "failing_session"} /\ (~setup.optimize \/ Mutable) =>
        Agreed("corrupt") /\ object # "original"

LEMMA CondemnedStep ==
    ASSUME RowTypes, RequestTypes, SweptIsClosed, Rivals, HeldParts, Modes, Verdicts, Closed,
           Condemned, [Next]_vars
    PROVE  Condemned'
<1> SUFFICES ASSUME NEW q \in Request, pc'[q] \in {"deleting", "failing_session"},
                    ~setup.optimize \/ Mutable
             PROVE  Agreed("corrupt")' /\ object' # "original"
  BY StoreFrames, Endings DEF Condemned
<1>1. setup.chunked
  BY ModesStep, StoreFrames DEF Modes
<1>2. object # "optimized"
  BY DEF Closed
<1>3. Agreed("corrupt") /\ (object # "original" \/ DeleteMismatch(q))
  <2>1. CASE pc'[q] = pc[q]
    BY <2>1 DEF Condemned
  <2>2. CASE CameTo(q) /\ DeleteMismatch(q)
    BY <2>2 DEF DeleteMismatch, Condemned
  <2>3. CASE CameTo(q) /\ ~DeleteMismatch(q)
    BY <1>1, <1>2, <2>3 DEF CameTo, Verdicts
  <2> QED BY <2>1, <2>2, <2>3, Whence
<1>4. Agreed("corrupt")'
  BY <1>3, AgreedStays
<1>5. object' # "original"
  <2>1. CASE DeleteMismatch(q)
    BY <2>1 DEF DeleteMismatch
  <2>2. CASE object # "original"
    BY <1>1, <1>3, <2>2, ObjectFrom DEF Agreed
  <2> QED BY <1>3, <2>1, <2>2
<1> QED BY <1>4, <1>5

-----------------------------------------------------------------------------
(* What becomes of the stored parts *)

(* While the session takes parts, what the store holds of them is replaced by *)
(* what is being sent, or goes into an object that is as agreed.             *)
LEMMA FilesFrom ==
    ASSUME StoreTypes, RequestTypes, SweptIsClosed, HeldParts, Modes, Verdicts, Closed,
           [Next]_vars, Takes
    PROVE  \/ UNCHANGED files
           \/ \E q \in Request : /\ StorePart(q) /\ Sending(q)
                                 /\ files' = [files EXCEPT ![work[q].part] = work[q].body]
           \/ \E n \in Part, b \in Body : /\ DirectPut(n, b) /\ rows[n] = NoBody /\ Unrivalled(n, b)
                                          /\ files' = [files EXCEPT ![n] = b]
           \/ \E c \in {"original", "corrupt"} : object' = c /\ Agreed(c) /\ UNCHANGED rows
<1>1. ASSUME NEW q \in Request, StorePart(q)
      PROVE  \/ UNCHANGED files
             \/ Sending(q) /\ files' = [files EXCEPT ![work[q].part] = work[q].body]
  BY <1>1 DEF StorePart, Sending, storeVars
<1>2. ASSUME NEW q \in Request, CleanUpload(q)
      PROVE  \/ UNCHANGED files
             \/ \E c \in {"original", "corrupt"} : object' = c /\ Agreed(c) /\ UNCHANGED rows
  <2>1. UNCHANGED files \/ (object # "none" /\ object' = object)
    BY <1>2 DEF CleanUpload, storeVars
  <2>2. UNCHANGED rows /\ setup.chunked
    BY <1>2 DEF CleanUpload, rowVars, Modes
  <2>3. object # "optimized"
    BY DEF Closed, Takes
  <2>4. object # "none" => object \in {"original", "corrupt"}
    BY <2>3 DEF StoreTypes, Content
  <2> QED BY <2>1, <2>2, <2>4 DEF Verdicts
<1>3. ASSUME NEW q \in Request, CompleteOnS3(q)
      PROVE  \/ UNCHANGED files
             \/ \E c \in {"original", "corrupt"} : object' = c /\ Agreed(c) /\ UNCHANGED rows
  <2>1. UNCHANGED files \/ object' = Assembled(work[q].parts)
    BY <1>3 DEF CompleteOnS3, storeVars
  <2>2. UNCHANGED rows /\ Holding(q)
    BY <1>3 DEF CompleteOnS3, rowVars, Holding
  <2>3. Assembled(work[q].parts) \in {"original", "corrupt"} /\ Agreed(Assembled(work[q].parts))
    BY <2>2, HolderAgrees DEF Assembled
  <2> QED BY <2>1, <2>2, <2>3
<1>4. ASSUME NEW q \in Request, AbortStorage(q) PROVE FALSE
  BY <1>4 DEF AbortStorage, Closed, Takes, Mutable
<1>5. ~SweepStorage /\ ~OrphanUploads /\ ~AccountStorage
  BY DEF SweepStorage, SweptIsClosed, OrphanUploads, ActiveUpload, AccountStorage, Takes
<1>6. ASSUME NEW n \in Part, NEW b \in Body, DirectPut(n, b)
      PROVE  rows[n] = NoBody /\ Unrivalled(n, b) /\ files' = [files EXCEPT ![n] = b]
  BY <1>6 DEF DirectPut
<1> QED BY <1>1, <1>2, <1>3, <1>4, <1>5, <1>6, StoreFrames DEF FileWriters

(* A part about to be recorded is in the store, or is recorded already. *)
StoredOrRecorded ==
    \A r \in Request : pc[r] = "recording" /\ Takes =>
        work[r].body \in {files[work[r].part], rows[work[r].part]}

LEMMA StoredOrRecordedStep ==
    ASSUME RowTypes, StoreTypes, RequestTypes, SweptIsClosed, Rivals, HeldParts, Modes, Verdicts,
           Closed, StoredOrRecorded, [Next]_vars
    PROVE  StoredOrRecorded'
<1> SUFFICES ASSUME NEW r \in Request, pc'[r] = "recording", Takes'
             PROVE  work'[r].body \in {files'[work'[r].part], rows'[work'[r].part]}
  BY DEF StoredOrRecorded
<1>1. Takes
  BY Endings
<1>2. work[r].part \in Part /\ work[r].body \in Body /\ files \in [Part -> Body \cup {NoBody}]
  BY CarriedTypes DEF StoreTypes, Parts
<1>3. CASE CameTo(r)
  <2>1. CASE StorePart(r) /\ work'[r] = work[r]
    BY <1>2, <1>1, <2>1 DEF StorePart, Goto, Respond, RequestTypes
  <2>2. ASSUME NEW n \in Part, BeginAck(r, n), work'[r].part = n, work'[r].body = files[n]
        PROVE  work'[r].body \in {files'[work'[r].part], rows'[work'[r].part]}
    BY <2>2 DEF BeginAck, storeVars
  <2> QED BY <1>3, <2>1, <2>2 DEF CameTo
<1>4. CASE pc'[r] = pc[r] /\ work'[r] = work[r]
  <2> DEFINE n == work[r].part
             b == work[r].body
  <2>1. b \in {files[n], rows[n]} /\ rows[n] \in {NoBody, b} /\ Sending(r)
    BY <1>1, <1>4 DEF StoredOrRecorded, Rivals, Sending
  <2>2. rows[n] = b => rows'[n] = b
    BY <1>2, RowsStay, BodyAssumption
  <2>3. CASE UNCHANGED files
    BY <1>4, <2>1, <2>2, <2>3
  <2>4. ASSUME NEW q \in Request, Sending(q), files' = [files EXCEPT ![work[q].part] = work[q].body]
        PROVE  b \in {files'[n], rows'[n]}
    <3>1. work[q].part = n => work[q].body = b
      BY <2>1, <2>4 DEF Rivals
    <3>2. work[q].part \in Part
      BY CarriedTypes
    <3> QED BY <1>2, <2>1, <2>2, <2>4, <3>1, <3>2
  <2>5. ASSUME NEW m \in Part, NEW d \in Body, Unrivalled(m, d), files' = [files EXCEPT ![m] = d]
        PROVE  b \in {files'[n], rows'[n]}
    <3>1. m = n => d = b
      BY <2>1, <2>5 DEF Unrivalled, Sending
    <3> QED BY <1>2, <2>1, <2>2, <2>5, <3>1
  <2>6. ASSUME NEW c, Agreed(c) PROVE b \in {files'[n], rows'[n]}
    BY <1>1, <1>2, <2>1, <2>2, <2>6 DEF Agreed, AllRecorded
  <2> QED BY <1>1, <1>4, <2>3, <2>4, <2>5, <2>6, FilesFrom
<1> QED BY <1>3, <1>4, Whence

(* Recorded parts that are right are in the store, or in the right object. *)
LEMMA AcknowledgedStep ==
    ASSUME RowTypes, StoreTypes, RequestTypes, SweptIsClosed, Rivals, HeldParts, Modes, Verdicts,
           Condemned, Closed, StoredOrRecorded, AcknowledgedPartsAreKept, [Next]_vars
    PROVE  AcknowledgedPartsAreKept'
<1> SUFFICES ASSUME Mutable', ~Gone', account' = "kept",
                    \A n \in Part : rows'[n] \in {Good, NoBody},
                    NEW n \in Part, rows'[n] = Good
             PROVE  files'[n] = Good \/ object' = "original"
  BY DEF AcknowledgedPartsAreKept
<1>1. Takes' /\ Takes /\ ~Gone
  BY Endings DEF Takes
<1>2. rows \in [Part -> Body \cup {NoBody}] /\ files \in [Part -> Body \cup {NoBody}]
  BY DEF RowTypes, StoreTypes, Parts
<1>3. \A m \in Part : rows[m] \in {Good, NoBody}
  BY <1>1, RowsStay
<1>4. \A m \in Part : rows[m] = Good => files[m] = Good \/ object = "original"
  BY <1>1, <1>3 DEF AcknowledgedPartsAreKept, Takes
<1>5. ASSUME NEW c, Agreed(c) PROVE c = "original"
  BY <1>1, <1>3, <1>5 DEF Agreed, AllRecorded, Assembled
<1>6. object = "original" => object' = "original"
  <2> SUFFICES ASSUME object = "original" PROVE object' = "original"
    OBVIOUS
  <2>1. ASSUME NEW q \in Request, Holding(q), object' = Assembled(work[q].parts)
        PROVE  object' = "original"
    BY <1>5, <2>1, HolderAgrees
  <2>2. ASSUME NEW q \in Request, DeleteMismatch(q) PROVE FALSE
    BY <1>1, <2>2 DEF DeleteMismatch, Condemned, Takes
  <2>3. ASSUME NEW q \in Request, AbortStorage(q) PROVE FALSE
    BY <1>1, <2>3 DEF AbortStorage, Closed, Takes, Mutable
  <2>4. ~ActivateCandidate
    BY <1>1 DEF ActivateCandidate, Closed, Takes
  <2> QED BY <1>1, <2>1, <2>2, <2>3, <2>4, ObjectFrom DEF Takes
<1>7. files[n] = Good \/ object' = "original"
  <2>1. CASE UNCHANGED rows
    BY <1>4, <1>6, <2>1
  <2>2. ASSUME NEW q \in Request, RecordPart(q), Sending(q),
               rows' = [rows EXCEPT ![work[q].part] = work[q].body]
        PROVE  files[n] = Good \/ object' = "original"
    <3>1. work[q].part \in Part
      BY CarriedTypes
    <3>2. work[q].part = n => files[n] = Good \/ rows[n] = Good
      BY <1>1, <1>2, <2>2 DEF StoredOrRecorded, RecordPart
    <3> QED BY <1>2, <1>4, <1>6, <2>2, <3>1, <3>2
  <2> QED BY <1>1, <2>1, <2>2, RowsStay
<1>8. CASE UNCHANGED files
  BY <1>7, <1>8
<1>9. ASSUME NEW q \in Request, StorePart(q), Sending(q),
             files' = [files EXCEPT ![work[q].part] = work[q].body]
      PROVE  files'[n] = Good \/ object' = "original"
  <2>1. rows[n] = Good
    BY <1>9 DEF StorePart, rowVars
  <2>2. work[q].part = n => work[q].body = Good
    BY <1>9, <2>1, BodyAssumption DEF Rivals
  <2>3. work[q].part \in Part
    BY CarriedTypes
  <2> QED BY <1>2, <1>7, <1>9, <2>2, <2>3
<1>10. ASSUME NEW m \in Part, NEW b \in Body, DirectPut(m, b), rows[m] = NoBody,
              files' = [files EXCEPT ![m] = b]
       PROVE  files'[n] = Good \/ object' = "original"
  <2>1. m # n
    BY <1>10, BodyAssumption DEF DirectPut, rowVars
  <2> QED BY <1>2, <1>7, <1>10, <2>1
<1>11. ASSUME NEW c, Agreed(c), object' = c
       PROVE  object' = "original"
  BY <1>5, <1>11
<1> QED BY <1>1, <1>8, <1>9, <1>10, <1>11, FilesFrom

-----------------------------------------------------------------------------
(* The object of a completed upload *)

(* Where nothing is optimized, a live upload that is completed, or is about to *)
(* be, has an object (on S3, whose bytes are not hashed, perhaps another's),  *)
(* and a clip that is validated has the bytes announced.                     *)
FinalObject ==
    ~setup.optimize /\ Live =>
      /\ session = "completed" \/ (\E r \in Request : pc[r] = "finalizing") =>
           object = "original" \/ (setup.s3 /\ object = "corrupt")
      /\ clip = "ready" \/ job = "validated" => object = "original"

(* The object that a live upload needs is not replaced by another, nor deleted. *)
LEMMA ObjectIsFinal ==
    ASSUME RequestTypes, HeldParts, Modes, Verdicts, Condemned, Closed, [Next]_vars,
           ~setup.optimize, Live,
           object = "original" \/ (setup.s3 /\ object = "corrupt")
    PROVE  object' \in {object, "original"}
<1>1. ASSUME NEW r \in Request, RenameObject(r) \/ CompleteOnS3(r), Holding(r), setup.chunked,
             object' = Assembled(work[r].parts)
      PROVE  object' = object
  BY <1>1 DEF Verdicts, Agreed
<1>2. ASSUME NEW r \in Request, DeleteMismatch(r) PROVE FALSE
  BY <1>2 DEF DeleteMismatch, Condemned, Modes
<1>3. ASSUME NEW r \in Request, AbortStorage(r) PROVE FALSE
  BY <1>3 DEF AbortStorage, Closed, Live, Mutable
<1>4. ~ActivateCandidate
  BY DEF ActivateCandidate, Closed
<1> QED BY <1>1, <1>2, <1>3, <1>4, ObjectFrom DEF Live

LEMMA FinalObjectStep ==
    ASSUME RequestTypes, HeldParts, Modes, Verdicts, Condemned, Closed, FinalObject, [Next]_vars
    PROVE  FinalObject'
<1> SUFFICES ASSUME ~setup.optimize, Live, Live'
             PROVE  /\ session' = "completed" \/ (\E r \in Request : pc'[r] = "finalizing") =>
                         object' = "original" \/ (setup.s3 /\ object' = "corrupt")
                    /\ clip' = "ready" \/ job' = "validated" => object' = "original"
  BY StoreFrames, Endings DEF FinalObject
<1> DEFINE Ended == session = "completed" \/ (\E r \in Request : pc[r] = "finalizing")
           Shown == clip = "ready" \/ job = "validated"
           Sound(o) == o = "original" \/ (setup.s3 /\ o = "corrupt")
<1>1. Ended => Sound(object) /\ Sound(object')
  BY ObjectIsFinal DEF FinalObject
<1>2. Shown => object = "original" /\ object' = "original"
  BY ObjectIsFinal DEF FinalObject
<1>3. ASSUME session' = "completed" PROVE Sound(object')
  <2>1. ASSUME NEW r \in Request, Finalize(r) PROVE pc[r] = "finalizing"
    BY <2>1 DEF Finalize
  <2> QED BY <1>1, <1>3, <2>1, Endings
<1>4. ASSUME NEW r \in Request, pc'[r] = "finalizing" PROVE Sound(object')
  <2>1. CASE pc'[r] = pc[r]
    BY <1>1, <1>4, <2>1
  <2>2. CASE PutObject(r)
    BY <2>2 DEF PutObject
  <2>3. CASE \/ HeadObject(r) /\ setup.s3 /\ object \in {"original", "corrupt"}
             \/ HashObject(r) /\ object = "original"
    BY <2>3 DEF HeadObject, HashObject, storeVars
  <2>4. CASE BeginComplete(r) /\ session = "completed"
    BY <1>1, <2>4
  <2> QED BY <1>4, <2>1, <2>2, <2>3, <2>4, Whence DEF CameTo
<1>5. ASSUME clip' = "ready" PROVE object' = "original"
  <2>1. clip = "ready" \/ MarkReady
    BY <1>5, Frames
    DEF ClipWriters, FailClip, FailedClip, Finalize, BeginAbort, DeleteClip, SweepClip, PurgeClip,
        AccountClip, ValidateDies
  <2> QED BY <1>2, <2>1 DEF MarkReady
<1>6. ASSUME job' = "validated" PROVE object' = "original"
  <2>1. job = "validated" \/ ValidateObject
    BY <1>6, StoreFrames
    DEF JobWriters, Finalize, JobStep, MarkReady, ValidateDies, BuildCandidate, ActivateCandidate,
        AccountJobs
  <2>2. CASE ValidateObject
    <3>1. /\ clip \in {"processing", "ready"} /\ object' = object
          /\ object = "original" \/ (~setup.s3 /\ object = "corrupt")
      BY <1>6, <2>2 DEF ValidateObject, storeVars
    <3>2. session = "completed"
      BY <3>1 DEF Closed, Live
    <3> QED BY <1>1, <3>1, <3>2
  <2> QED BY <1>2, <2>1, <2>2
<1> QED BY <1>3, <1>4, <1>5, <1>6

-----------------------------------------------------------------------------
(* The invariant and what follows *)

UploadInv ==
    /\ SweptIsClosed /\ Rivals /\ HeldParts /\ Modes
    /\ Verdicts /\ Condemned /\ Closed
    /\ StoredOrRecorded /\ FinalObject /\ AcknowledgedPartsAreKept

LEMMA UploadInvInit == Init => UploadInv
<1> SUFFICES ASSUME Init PROVE UploadInv
  OBVIOUS
<1>1. \A r \in Request : pc[r] = "idle"
  BY DEF Init
<1>2. /\ SweptIsClosed /\ Rivals /\ HeldParts /\ Modes /\ Condemned /\ StoredOrRecorded
  BY <1>1 DEF Init, SweptIsClosed, Rivals, Sending, HeldParts, Holding, Modes, Condemned,
              StoredOrRecorded
<1>3. Verdicts /\ Closed /\ FinalObject
  BY <1>1 DEF Init, Verdicts, Closed, FinalObject
<1>4. AcknowledgedPartsAreKept
  BY BodyAssumption DEF Init, AcknowledgedPartsAreKept, NoParts
<1> QED BY <1>2, <1>3, <1>4 DEF UploadInv

LEMMA UploadInvStep ==
    ASSUME TypeOK, TypeOK', UploadInv, [Next]_vars
    PROVE  UploadInv'
<1>1. RowTypes /\ StoreTypes /\ RequestTypes /\ RequestTypes'
  BY TypeParts DEF TypeOK, RequestTypes
<1> USE DEF UploadInv
<1>2. SweptIsClosed' /\ Rivals' /\ HeldParts' /\ Modes'
  BY <1>1, SweptStaysClosed, RivalsStep, HeldPartsStep, ModesStep
<1>3. Verdicts' /\ Condemned' /\ Closed'
  BY <1>1, VerdictsStep, CondemnedStep, ClosedStep
<1>4. StoredOrRecorded' /\ FinalObject' /\ AcknowledgedPartsAreKept'
  BY <1>1, StoredOrRecordedStep, FinalObjectStep, AcknowledgedStep
<1> QED BY <1>2, <1>3, <1>4

(* Whatever the requests, sweeps and jobs of an upload do, and whenever they   *)
(* stop, its parts, its object and its rows agree as UploadInv says.         *)
THEOREM UploadInvariant == Spec => []UploadInv
<1>1. UploadInv /\ TypeOK /\ TypeOK' /\ [Next]_vars => UploadInv'
  BY UploadInvStep
<1> QED BY <1>1, UploadInvInit, TypeCorrect, PTL DEF Spec

(* A part a client was told it need not send again is in the store or in the  *)
(* object while its upload can be completed, on either store, in every mode, *)
(* for any number of rival completions: whoever removes the parts has made    *)
(* the object of the recorded ones.                                        *)
THEOREM AcknowledgedPartsAlwaysKept == Spec => []AcknowledgedPartsAreKept
<1>1. UploadInv => AcknowledgedPartsAreKept
  BY DEF UploadInv
<1> QED BY <1>1, UploadInvariant, PTL

(* A completed upload whose clip is on its way has an object, and a ready clip *)
(* the bytes announced, where nothing is optimized.                         *)
THEOREM CompletedUploadsHaveObjects == Spec => [](~setup.optimize => CompletedHasObject)
<1>1. UploadInv => (~setup.optimize => CompletedHasObject)
  BY DEF UploadInv, CompletedHasObject, FinalObject, Live, Gone
<1> QED BY <1>1, UploadInvariant, PTL

(* A completed session stays completed until its row is removed, or fails for *)
(* an object that is not the upload as announced, where nothing is optimized. *)
THEOREM CompletionIsFinal ==
    ASSUME \A s \in Setups : ~s.optimize
    PROVE  Spec => CompletedIsFinal
<1>1. ASSUME TypeOK, UploadInv, Next, session = "completed", session' \notin {"completed", "absent"}
      PROVE  session' = "failed" /\ object # "original"
  <2>1. ~setup.optimize
    BY <1>1 DEF TypeOK
  <2>2. ASSUME NEW r \in Request, FailSession(r) PROVE session' = "failed" /\ object # "original"
    BY <1>1, <2>1, <2>2 DEF UploadInv, Condemned, FailSession
  <2>3. ASSUME ValidateDies PROVE session' = "failed" /\ object # "original"
    BY <1>1, <2>3 DEF TypeOK, ClipStatus, UploadInv, Closed, ValidateDies
  <2> QED BY <1>1, <2>2, <2>3, Frames
          DEF SessionWriters, Mutable, MarkUploading, Finalize, Finalizable, BeginAbort,
              AbortableStatus, SweepAbort, AbortIfExpired, PurgeSession, AccountSessions
<1>2. TypeOK /\ UploadInv /\ [Next]_vars =>
        [session = "completed" => \/ session' \in {"completed", "absent"}
                                  \/ session' = "failed" /\ object # "original"]_vars
  BY <1>1
<1> QED BY <1>2, TypeCorrect, UploadInvariant, PTL DEF Spec, CompletedIsFinal
=============================================================================
