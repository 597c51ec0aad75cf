------------------------ MODULE PaperWorkflowProofs ------------------------
(* Proofs about PaperWorkflow, for every value of its constants. *)
EXTENDS PaperWorkflow, TLAPS

WorkerPCs == {"idle", "started", "entered", "published", "checked", "deleting",
              "returning", "retryable", "fatal"}
PCsOf(p) == IF p = Intake THEN {"idle", "uploading", "uploaded"}
            ELSE IF p = Cleaner THEN {"idle", "deleting"} ELSE WorkerPCs

\* What a process is doing fits the kind of process it is: only workers have a
\* task, and a process that may write back the column it has read has read it.
WellFormed(p, e) ==
    /\ e.pc \in PCsOf(p)
    /\ p \in Workers /\ e.pc # "idle" => e.task \in Messages
    /\ e.pc \in {"entered", "published", "checked", "deleting"} => e.copy \in Evidence
    /\ e.pc = "deleting" => e.copy.cleanup_started

ProcOK == /\ proc \in [Processes -> Execution]
          /\ \A p \in Processes : WellFormed(p, proc[p])

\* A process that holds the lock is at work.
OwnerOK == owner # None => proc[owner].pc # "idle"

TypeInv == TypeOK /\ ProcOK /\ OwnerOK

-----------------------------------------------------------------------------
(* The helpers of the model return what they should. *)

LEMMA PendingType == \A st, sg : PendingOf(st, sg) \in Stages \cup {None}
BY DEF PendingOf, Stages

LEMMA PendingStageType == PendingStage # None => PendingStage \in Stages
BY PendingType DEF PendingStage

LEMMA ChainType == \A m \in Messages : ChainAfter(m) \subseteq Messages
BY DEF ChainAfter, Messages, Following, Stages

LEMMA AcknowledgeType ==
    ASSUME queue \subseteq Messages, NEW m, Acknowledge(m)
    PROVE  queue' \subseteq Messages
BY DEF Acknowledge

LEMMA PublishType ==
    ASSUME queue \subseteq Messages, NEW m, NEW more \in SUBSET Messages,
           AcknowledgeAndPublish(m, more)
    PROVE  queue' \subseteq Messages
BY DEF AcknowledgeAndPublish

LEMMA PrepareType ==
    \A e \in Evidence, a \in Attempts : PrepareDispatch(e, a) \in Evidence
<1> SUFFICES ASSUME NEW e \in Evidence, NEW a \in Attempts
             PROVE  PrepareDispatch(e, a) \in Evidence
    OBVIOUS
<1>1. [s \in Stages |-> 0] \in [Stages -> 0 .. MaxStageStarts]
    BY BoundAssumption
<1> QED  BY <1>1 DEF PrepareDispatch, Evidence

LEMMA RetainedType ==
    ASSUME TypeOK
    PROVE  Retained(evidence) \in SUBSET RecordIds
BY DEF TypeOK, Retained

LEMMA SummaryIdsType ==
    ASSUME TypeOK
    PROVE  SummaryIds \in SUBSET RecordIds
BY DEF TypeOK, SummaryIds

LEMMA IdleOK ==
    \A p \in Processes : Idle \in Execution /\ WellFormed(p, Idle)
BY DEF Idle, Execution, PCs, WellFormed, PCsOf, WorkerPCs

\* One process moves.
LEMMA Moves ==
    ASSUME ProcOK, NEW p \in Processes, NEW e \in Execution, WellFormed(p, e),
           proc' = [proc EXCEPT ![p] = e]
    PROVE  ProcOK'
BY DEF ProcOK

LEMMA StaysPut == ASSUME ProcOK, UNCHANGED proc PROVE ProcOK'
BY DEF ProcOK

LEMMA Releases ==
    ASSUME ProcOK, NEW p \in Processes, Release(p)
    PROVE  ProcOK' /\ owner' = None
BY Moves, IdleOK DEF Release

-----------------------------------------------------------------------------
(* Type correctness: the initial states, then one lemma per part of Next. *)

LEMMA InitType == Init => TypeInv
<1> SUFFICES ASSUME Init PROVE TypeInv
    OBVIOUS
<1>1. evidence \in Evidence
    <2>1. [s \in Stages |-> 0] \in [Stages -> 0 .. MaxStageStarts]
        BY BoundAssumption
    <2> QED  BY <2>1 DEF Init, Evidence
<1>2. \A p \in Processes : /\ proc[p] = IF p = Intake THEN [Idle EXCEPT !.pc = "uploading"] ELSE Idle
                           /\ proc[p] \in Execution
                           /\ WellFormed(p, proc[p])
    BY ProcessAssumption DEF Init, Idle, Execution, PCs, WellFormed, PCsOf, WorkerPCs, Processes
<1>3. ProcOK
    BY <1>2 DEF ProcOK, Init
<1>4. OwnerOK
    BY <1>2 DEF OwnerOK, Init, Processes, Idle
<1>5. /\ results \in [Refs -> Sources \cup {None}] /\ summary \in (SUBSET RecordIds) \cup {None}
      /\ records \subseteq RecordIds /\ reports \in Seq(Reports) /\ queue \subseteq Messages
      /\ upload \in [Refs -> {"idle", "refused", "waiting", "prepared"}]
      /\ issued \in 0 .. MaxAttempts
    BY BoundAssumption DEF Init
<1> QED  BY <1>1, <1>3, <1>4, <1>5 DEF TypeInv, TypeOK, Init, Active, Terminal, JobStages, ProcOK, Processes

\* Steps of the environment, and refreshes: no process moves.
LEMMA EnvironmentType ==
    ASSUME TypeInv,
           \/ LeaseEnds \/ ClaimDispatch \/ ExpireInput
           \/ \E m \in Messages : LoseMessage(m)
           \/ \E w \in Workers, m \in Messages :
                 IgnoreBusy(w, m) \/ IgnoreStale(w, m) \/ SkipStage(w, m)
    PROVE  TypeInv'
<1> USE DEF TypeInv, TypeOK
<1>1. CASE LeaseEnds
    <2>1. evidence' \in Evidence
        BY <1>1 DEF LeaseEnds, Evidence
    <2> QED  BY <2>1, <1>1 DEF LeaseEnds, ProcOK, OwnerOK, store
<1>2. CASE ClaimDispatch
    <2>1. evidence' \in Evidence /\ evidence.attempt_id \in Attempts
        BY <1>2 DEF ClaimDispatch, Evidence
    <2>2. queue' \subseteq Messages
        BY <2>1, <1>2, PendingStageType DEF ClaimDispatch, Messages
    <2> QED  BY <2>1, <2>2, <1>2 DEF ClaimDispatch, ProcOK, OwnerOK, store
<1>3. CASE ExpireInput
    BY <1>3 DEF ExpireInput, ProcOK, OwnerOK, store
<1>4. ASSUME NEW m \in Messages, LoseMessage(m) PROVE TypeInv'
    BY <1>4 DEF LoseMessage, ProcOK, OwnerOK, row, store
<1>5. ASSUME NEW w \in Workers, NEW m \in Messages,
             IgnoreBusy(w, m) \/ IgnoreStale(w, m) \/ SkipStage(w, m)
      PROVE  TypeInv'
    <2>1. queue' \subseteq Messages
        BY <1>5, AcknowledgeType, PublishType, ChainType DEF IgnoreBusy, IgnoreStale, SkipStage
    <2> QED  BY <2>1, <1>5 DEF IgnoreBusy, IgnoreStale, SkipStage, ProcOK, OwnerOK, row, store
<1> QED  BY <1>1, <1>2, <1>3, <1>4, <1>5

LEMMA BeginRefreshType ==
    ASSUME TypeInv, NEW refs \in SUBSET Refs,
           NEW newResults \in [Refs -> Sources \cup {None}],
           NEW newStage \in JobStages,
           BeginRefresh(refs, newResults, newStage),
           upload' \in [Refs -> {"idle", "refused", "waiting", "prepared"}]
    PROVE  TypeInv'
<1> USE DEF TypeInv, TypeOK
<1> DEFINE refresh == [reference_ids |-> refs, source_results |-> results,
                       verification_summary |-> SummaryIds]
<1>1. issued' \in Attempts
    BY BoundAssumption DEF BeginRefresh, Attempts
<1>2. [evidence EXCEPT !.targeted = refresh] \in Evidence
    BY SummaryIdsType DEF Evidence, Refresh
<1>3. evidence' \in Evidence
    BY <1>1, <1>2, PrepareType DEF BeginRefresh
<1> QED  BY <1>1, <1>3 DEF BeginRefresh, ProcOK, OwnerOK, store, Active, Attempts

LEMMA RefreshType ==
    ASSUME TypeInv,
           \/ \E refs \in SUBSET Refs : SearchAgain(refs)
           \/ \E r \in Refs : Uploads(r)
    PROVE  TypeInv'
<1>1. ASSUME NEW refs \in SUBSET Refs, SearchAgain(refs) PROVE TypeInv'
    <2>1. [r \in Refs |-> IF r \in refs THEN None ELSE results[r]] \in [Refs -> Sources \cup {None}]
        BY DEF TypeInv, TypeOK
    <2> QED  BY <1>1, <2>1, BeginRefreshType DEF SearchAgain, JobStages, TypeInv, TypeOK
<1>2. ASSUME NEW r \in Refs, AdoptUpload(r),
             upload' \in [Refs -> {"idle", "refused", "waiting", "prepared"}]
      PROVE  TypeInv'
    <2>1. issued' \in Attempts
        BY <1>2, BoundAssumption DEF AdoptUpload, BeginRefresh, Attempts, TypeInv, TypeOK
    <2>2. [results EXCEPT ![r] = [kind |-> "durable", attempt |-> issued']]
             \in [Refs -> Sources \cup {None}]
        BY <2>1 DEF TypeInv, TypeOK, Sources, SourceKinds
    <2> QED  BY <1>2, <2>2, BeginRefreshType DEF AdoptUpload, JobStages
<1>3. ASSUME NEW r \in Refs, NEW refs \in SUBSET Refs, Queued(refs),
             upload' \in [Refs -> {"idle", "refused", "waiting", "prepared"}]
      PROVE  TypeInv'
    <2>1. evidence' \in Evidence
        BY <1>3 DEF Queued, TypeInv, TypeOK, Evidence
    <2> QED  BY <1>3, <2>1 DEF Queued, TypeInv, TypeOK, ProcOK, OwnerOK, store
<1>4. ASSUME NEW r \in Refs, Uploads(r) PROVE TypeInv'
    <2>1. upload' \in [Refs -> {"idle", "refused", "waiting", "prepared"}]
        BY <1>4 DEF Uploads, UploadSource, QueueUpload, RetryUpload, DequeueUpload, TypeInv, TypeOK
    <2>2. evidence.queued \in SUBSET Refs
        BY DEF TypeInv, TypeOK, Evidence
    <2>3. CASE UploadSource(r) /\ AdoptUpload(r)
        BY <2>1, <2>3, <1>2
    <2>4. CASE UploadSource(r) /\ ~AdoptUpload(r)
        BY <2>1, <2>4 DEF UploadSource, TypeInv, TypeOK, ProcOK, OwnerOK, row, store
    <2>5. CASE QueueUpload(r)
        BY <2>1, <2>2, <2>5, <1>3 DEF QueueUpload
    <2>6. CASE RetryUpload(r)
        BY <2>1, <2>6, <1>2 DEF RetryUpload
    <2>7. CASE DequeueUpload(r)
        BY <2>1, <2>2, <2>7, <1>3 DEF DequeueUpload
    <2> QED  BY <1>4, <2>3, <2>4, <2>5, <2>6, <2>7 DEF Uploads
<1> QED  BY <1>1, <1>4

\* Steps that give a process something to do, or that free it.
LEMMA DeliveryType ==
    ASSUME TypeInv, NEW w \in Workers, NEW m \in Messages,
           StartStage(w, m) \/ ExhaustStage(w, m)
    PROVE  TypeInv'
<1> USE DEF TypeInv, TypeOK
<1>1. w \in Processes /\ w # Intake /\ w # Cleaner
    BY ProcessAssumption DEF Processes
<1>2. CASE StartStage(w, m)
    <2>1. evidence' \in Evidence
        <3>1. evidence.stage_starts \in [Stages -> 0 .. MaxStageStarts] /\ m.stage \in Stages
            BY DEF Evidence, Messages
        <3>2. evidence.stage_starts[m.stage] + 1 \in 0 .. MaxStageStarts
            BY <1>2, <3>1, BoundAssumption DEF StartStage, StartsLeft
        <3>3. [evidence.stage_starts EXCEPT ![m.stage] = evidence.stage_starts[m.stage] + 1]
                 \in [Stages -> 0 .. MaxStageStarts]
            BY <3>1, <3>2
        <3> QED  BY <1>2, <3>3 DEF StartStage, Evidence
    <2>2. ProcOK' /\ proc'[w].pc = "started"
        <3> DEFINE e == [Idle EXCEPT !.pc = "started", !.task = m]
        <3>1. e \in Execution /\ WellFormed(w, e)
            BY <1>1 DEF Idle, Execution, PCs, WellFormed, PCsOf, WorkerPCs
        <3>2. proc' = [proc EXCEPT ![w] = e]
            BY <1>2 DEF StartStage
        <3>3. e.pc = "started"
            BY DEF Idle
        <3> HIDE DEF e
        <3> QED  BY <1>1, <3>1, <3>2, <3>3, Moves
    <2> QED  BY <1>1, <1>2, <2>1, <2>2 DEF StartStage, OwnerOK, ProcOK, store, Active
<1>3. CASE ExhaustStage(w, m)
    <2>1. ProcOK' /\ proc'[w].pc = "fatal"
        <3> DEFINE e == [Idle EXCEPT !.pc = "fatal", !.task = m]
        <3>1. e \in Execution /\ WellFormed(w, e)
            BY <1>1 DEF Idle, Execution, PCs, WellFormed, PCsOf, WorkerPCs
        <3>2. proc' = [proc EXCEPT ![w] = e]
            BY <1>3 DEF ExhaustStage
        <3>3. e.pc = "fatal"
            BY DEF Idle
        <3> HIDE DEF e
        <3> QED  BY <1>1, <3>1, <3>2, <3>3, Moves
    <2> QED  BY <1>1, <1>3, <2>1 DEF ExhaustStage, OwnerOK, ProcOK, row, store
<1> QED  BY <1>2, <1>3

\* A worker that goes on to another program position, reading nothing new.
LEMMA GoesOn ==
    ASSUME TypeInv, NEW w \in Workers, owner = w, NEW pc \in WorkerPCs \ {"idle"},
           Goto(w, pc),
           proc[w].pc # "idle",
           pc \in {"entered", "published", "checked", "deleting"} => proc[w].copy \in Evidence,
           pc = "deleting" => proc[w].copy.cleanup_started
    PROVE  ProcOK' /\ OwnerOK' /\ owner' \in Processes
<1> DEFINE e == [proc[w] EXCEPT !.pc = pc]
<1>1. w \in Processes /\ w # Intake /\ w # Cleaner
    BY ProcessAssumption DEF Processes
<1>2. proc[w] \in Execution /\ WellFormed(w, proc[w])
    BY <1>1 DEF TypeInv, ProcOK
<1>3. e \in Execution /\ WellFormed(w, e) /\ e.pc # "idle"
    BY <1>1, <1>2 DEF Execution, PCs, WellFormed, PCsOf, WorkerPCs
<1>4. proc' = [proc EXCEPT ![w] = e] /\ owner' = owner
    BY DEF Goto
<1> HIDE DEF e
<1>5. ProcOK'
    BY <1>1, <1>3, <1>4, Moves DEF TypeInv
<1> QED  BY <1>1, <1>3, <1>4, <1>5 DEF OwnerOK, ProcOK, TypeInv

\* What is known of a worker that is past the start of its stage.
LEMMA EnteredFacts ==
    ASSUME TypeInv, NEW w \in Workers, owner = w,
           NEW pc \in {"entered", "published", "checked", "deleting"}, proc[w].pc = pc
    PROVE  /\ proc[w] \in Execution
           /\ proc[w].copy \in Evidence
           /\ proc[w].task \in Messages
           /\ proc[w].built \in SUBSET RecordIds
           /\ w \in Processes /\ w # Intake /\ w # Cleaner
BY ProcessAssumption DEF TypeInv, ProcOK, WellFormed, Execution, Processes

-----------------------------------------------------------------------------
\* The stage operations.
LEMMA EnterStageType ==
    ASSUME TypeInv, NEW w \in Workers, EnterStage(w)
    PROVE  TypeInv'
<1> USE DEF TypeInv, TypeOK
<1> DEFINE e == [proc[w] EXCEPT !.pc = "entered", !.copy = evidence,
                     !.built = IF proc[w].task.stage = "verify" THEN Retained(evidence) ELSE {}]
<1>1. w \in Processes /\ w # Intake /\ w # Cleaner
    BY ProcessAssumption DEF Processes
<1>2. owner = w /\ proc[w].task \in Messages /\ proc[w] \in Execution
    BY <1>1 DEF EnterStage, At, ProcOK, WellFormed
<1>3. e \in Execution /\ WellFormed(w, e) /\ e.pc = "entered"
    BY <1>1, <1>2, RetainedType DEF Execution, PCs, WellFormed, PCsOf, WorkerPCs
<1>4. proc' = [proc EXCEPT ![w] = e]
    BY DEF EnterStage
<1> HIDE DEF e
<1>5. ProcOK' /\ proc'[w].pc = "entered"
    BY <1>1, <1>3, <1>4, Moves
<1>6. stage' \in JobStages
    BY <1>2 DEF EnterStage, EnteredAs, Messages, Stages, JobStages
<1> QED  BY <1>1, <1>2, <1>5, <1>6 DEF EnterStage, OwnerOK, ProcOK, store, Active, Terminal

LEMMA StageRaisesType ==
    ASSUME TypeInv, NEW w \in Workers, StageRaises(w)
    PROVE  TypeInv'
<1> USE DEF TypeInv, TypeOK
<1>1. w \in Processes /\ w # Intake /\ w # Cleaner
    BY ProcessAssumption DEF Processes
<1>2. PICK kind \in {"retryable", "fatal"} :
          proc' = [proc EXCEPT ![w] = [Idle EXCEPT !.pc = kind, !.task = proc[w].task]]
    BY DEF StageRaises
<1> DEFINE e == [Idle EXCEPT !.pc = kind, !.task = proc[w].task]
<1>3. owner = w /\ proc[w].task \in Messages
    BY <1>1 DEF StageRaises, At, ProcOK, WellFormed
<1>4. e \in Execution /\ WellFormed(w, e) /\ e.pc # "idle"
    BY <1>1, <1>3 DEF Idle, Execution, PCs, WellFormed, PCsOf, WorkerPCs
<1> HIDE DEF e
<1>5. ProcOK' /\ proc'[w].pc # "idle"
    BY <1>1, <1>2, <1>4, Moves DEF e
<1> QED  BY <1>1, <1>3, <1>5 DEF StageRaises, OwnerOK, ProcOK, row, store

LEMMA ExtractRetrieveType ==
    ASSUME TypeInv, NEW w \in Workers,
           ExtractPaper(w) \/ RetrievalDone(w) \/ \E r \in Refs : RetrieveSource(w, r)
    PROVE  TypeInv'
<1> USE DEF TypeInv, TypeOK
<1>1. /\ owner = w /\ proc[w].pc = "entered"
      /\ proc[w].copy \in Evidence /\ proc[w].task \in Messages
    BY EnteredFacts DEF ExtractPaper, RetrievalDone, RetrieveSource, Working, At
<1>2. CASE ExtractPaper(w)
    <2>1. ProcOK' /\ OwnerOK' /\ owner' \in Processes
        BY <1>1, <1>2, GoesOn DEF ExtractPaper, WorkerPCs
    <2> QED  BY <1>2, <2>1 DEF ExtractPaper, ProcOK, store, JobStages
<1>3. CASE RetrievalDone(w)
    <2>1. ProcOK' /\ OwnerOK' /\ owner' \in Processes
        BY <1>1, <1>3, GoesOn DEF RetrievalDone, WorkerPCs
    <2> QED  BY <1>3, <2>1 DEF RetrievalDone, ProcOK, store, JobStages
<1>4. ASSUME NEW r \in Refs, RetrieveSource(w, r) PROVE TypeInv'
    <2>1. PICK k \in Kinds, lapsed \in SUBSET {q \in Refs : Transient(q)} :
              results' = [q \in Refs |->
                CASE q = r          -> [kind |-> k, attempt |-> proc[w].task.attempt]
                  [] q \in lapsed  -> [results[q] EXCEPT !.kind = "unavailable"]
                  [] OTHER         -> results[q]]
        BY <1>4 DEF RetrieveSource
    <2>2. [kind |-> k, attempt |-> proc[w].task.attempt] \in Sources
        BY <1>1, PolicyAssumption DEF Sources, Messages
    <2>3. ASSUME NEW q \in lapsed PROVE [results[q] EXCEPT !.kind = "unavailable"] \in Sources
        <3>1. results[q] \in Sources
            BY DEF Transient
        <3> QED  BY <3>1 DEF Sources, SourceKinds
    <2>4. results' \in [Refs -> Sources \cup {None}]
        BY <2>1, <2>2, <2>3
    <2> QED  BY <1>4, <2>4 DEF RetrieveSource, ProcOK, OwnerOK, store
<1> QED  BY <1>2, <1>3, <1>4

LEMMA ReportIdType ==
    ASSUME TypeInv, NEW w \in Workers, owner = w, proc[w].pc = "entered",
           NEW r \in ToVerify(w)
    PROVE  ReportId(w, r) \in RecordIds
<1>1. results[r] \in Sources /\ r \in Refs
    BY DEF ToVerify, TypeInv, TypeOK
<1>2. proc[w].task \in Messages /\ proc[w].copy \in Evidence
    BY EnteredFacts
<1>3. proc[w].copy.stage_starts["verify"] \in 0 .. MaxStageStarts
    BY <1>2 DEF Evidence, Stages
<1>4. 0 \in 0 .. MaxStageStarts
    BY BoundAssumption
<1> QED  BY <1>1, <1>2, <1>3, <1>4 DEF ReportId, RunReport, RecordIds, Sources, Messages

LEMMA VerifyType ==
    ASSUME TypeInv, NEW w \in Workers,
           VerificationDone(w) \/ \E r \in Refs : VerifySource(w, r)
    PROVE  TypeInv'
<1> USE DEF TypeInv, TypeOK
<1>1. /\ owner = w /\ proc[w].pc = "entered" /\ w \in Processes /\ w # Intake /\ w # Cleaner
      /\ proc[w].copy \in Evidence /\ proc[w].task \in Messages
      /\ proc[w].built \in SUBSET RecordIds /\ proc[w] \in Execution
    BY EnteredFacts DEF VerificationDone, VerifySource, Working, At
<1>2. CASE VerificationDone(w)
    <2>1. ProcOK' /\ OwnerOK' /\ owner' \in Processes
        BY <1>1, <1>2, GoesOn DEF VerificationDone, WorkerPCs
    <2> QED  BY <1>1, <1>2, <2>1 DEF VerificationDone, ProcOK, store, JobStages
<1>3. ASSUME NEW r \in Refs, VerifySource(w, r) PROVE TypeInv'
    <2> DEFINE e == [proc[w] EXCEPT !.built = proc[w].built \cup {ReportId(w, r)}]
    <2>1. ReportId(w, r) \in RecordIds
        BY <1>1, <1>3, ReportIdType DEF VerifySource
    <2>2. WellFormed(w, proc[w])
        BY <1>1 DEF ProcOK
    <2>3. e \in Execution /\ WellFormed(w, e) /\ e.pc = "entered"
        BY <1>1, <2>1, <2>2 DEF Execution, WellFormed
    <2>4. proc' = [proc EXCEPT ![w] = e]
        BY <1>3 DEF VerifySource
    <2> HIDE DEF e
    <2>5. ProcOK' /\ proc'[w].pc = "entered"
        BY <1>1, <2>3, <2>4, Moves
    <2> QED  BY <1>1, <1>3, <2>1, <2>5 DEF VerifySource, OwnerOK, ProcOK, row
<1> QED  BY <1>2, <1>3

LEMMA FinalizeType ==
    ASSUME TypeInv, NEW w \in Workers, FinalizePaper(w) \/ CheckReport(w)
    PROVE  TypeInv'
<1> USE DEF TypeInv, TypeOK
<1>1. CASE FinalizePaper(w)
    <2> DEFINE copy == proc[w].copy
               kept == IF KeepFile(w) THEN [copy EXCEPT !.kept = TRUE] ELSE copy
               done == IF RefreshRefs(copy) = {} THEN kept ELSE [kept EXCEPT !.targeted = None]
               e == [proc[w] EXCEPT !.pc = "published", !.copy = done]
               report == [attempt |-> proc[w].task.attempt,
                          report_ids |-> IF StoreOnly THEN {} ELSE summary,
                          results |-> results]
    <2>1. /\ owner = w /\ w \in Processes /\ w # Intake /\ w # Cleaner
          /\ copy \in Evidence /\ proc[w].task \in Messages /\ proc[w] \in Execution
          /\ WellFormed(w, proc[w])
        BY <1>1, EnteredFacts DEF FinalizePaper, Working, At, ProcOK
    <2>2. kept \in Evidence
        BY <2>1 DEF Evidence
    <2>3. done \in Evidence
        BY <2>2 DEF Evidence
    <2>4. report \in Reports
        BY <1>1, <2>1 DEF FinalizePaper, Reports, Messages
    <2>5. e \in Execution /\ WellFormed(w, e) /\ e.pc = "published"
        BY <2>1, <2>3 DEF Execution, PCs, WellFormed, PCsOf, WorkerPCs
    <2>6. /\ proc' = [proc EXCEPT ![w] = e]
          /\ evidence' \in {evidence, done}
          /\ expired' \in {FALSE, expired}
          /\ reports' = Append(reports, report)
          /\ owner' = owner
          /\ status' = "completed" /\ stage' = "completed"
          /\ UNCHANGED <<results, summary, input, records, queue, upload, issued>>
        BY <1>1 DEF FinalizePaper
    <2> HIDE DEF copy, kept, done, e, report
    <2>7. ProcOK' /\ proc'[w].pc = "published"
        BY <2>1, <2>5, <2>6, Moves
    <2>8. reports' \in Seq(Reports)
        BY <2>4, <2>6
    <2> QED  BY <2>1, <2>3, <2>6, <2>7, <2>8 DEF OwnerOK, ProcOK, Terminal, JobStages
<1>2. CASE CheckReport(w)
    <2> DEFINE next == IF KeepFile(w) THEN "returning" ELSE "checked"
               e == [proc[w] EXCEPT !.copy = evidence, !.pc = next]
    <2>1. /\ owner = w /\ w \in Processes /\ w # Intake /\ w # Cleaner
          /\ proc[w].task \in Messages /\ proc[w] \in Execution
        BY <1>2, EnteredFacts DEF CheckReport, Working, At
    <2>2. e \in Execution /\ WellFormed(w, e) /\ e.pc # "idle"
        BY <2>1 DEF Execution, PCs, WellFormed, PCsOf, WorkerPCs
    <2>3. proc' = [proc EXCEPT ![w] = e]
        BY <1>2 DEF CheckReport
    <2> HIDE DEF e
    <2>4. ProcOK' /\ proc'[w].pc # "idle"
        BY <2>1, <2>2, <2>3, Moves
    <2> QED  BY <1>2, <2>1, <2>4 DEF CheckReport, OwnerOK, ProcOK, row, store
<1> QED  BY <1>1, <1>2

-----------------------------------------------------------------------------
\* The clean-up of the input.
LEMMA AfterCleanupType ==
    ASSUME TypeInv, NEW p \in Processes, owner = p,
           p \in Workers => /\ proc[p].pc # "idle"
                            /\ proc[p].task \in Messages
                            /\ proc[p].copy \in Evidence,
           p \in Workers \/ p = Cleaner,
           AfterCleanup(p), AcknowledgeIf(p)
    PROVE  ProcOK' /\ OwnerOK' /\ owner' \in Processes \cup {None} /\ queue' \subseteq Messages
<1>1. queue' \subseteq Messages
    BY AcknowledgeType DEF AcknowledgeIf, TypeInv, TypeOK, Failing
<1>2. CASE p = Cleaner \/ Failing(p)
    <2>1. Release(p)
        BY <1>2 DEF AfterCleanup
    <2> QED  BY <2>1, <1>1, Releases DEF TypeInv, OwnerOK
<1>3. CASE ~(p = Cleaner \/ Failing(p))
    BY <1>3, <1>1, GoesOn DEF AfterCleanup, WorkerPCs
<1> QED  BY <1>2, <1>3

LEMMA CleanupType ==
    ASSUME TypeInv,
           \/ \E w \in Workers : StartCleanup(w)
           \/ \E p \in Processes : DeleteInput(p)
    PROVE  TypeInv'
<1> USE DEF TypeInv, TypeOK
<1>1. ASSUME NEW w \in Workers, StartCleanup(w) PROVE TypeInv'
    <2>1. /\ owner = w /\ w \in Processes /\ w # Intake /\ w # Cleaner /\ proc[w].pc = "checked"
          /\ proc[w].copy \in Evidence /\ proc[w].task \in Messages /\ proc[w] \in Execution
        BY <1>1, EnteredFacts DEF StartCleanup, At
    <2>2. CASE input = "deleted"
        <3>1. ProcOK' /\ OwnerOK' /\ owner' \in Processes \cup {None} /\ queue' \subseteq Messages
            BY <1>1, <2>1, <2>2, AfterCleanupType DEF StartCleanup
        <3> QED  BY <1>1, <2>2, <3>1 DEF StartCleanup, ProcOK, store
    <2>3. CASE input # "deleted"
        <3> DEFINE marked == [proc[w].copy EXCEPT !.cleanup_started = TRUE]
                   e == [proc[w] EXCEPT !.pc = "deleting", !.copy = marked]
        <3>1. marked \in Evidence /\ marked.cleanup_started
            BY <2>1 DEF Evidence
        <3>2. evidence' = marked /\ proc' = [proc EXCEPT ![w] = e]
            BY <1>1, <2>3 DEF StartCleanup
        <3>3. e \in Execution /\ WellFormed(w, e) /\ e.pc # "idle"
            BY <2>1, <3>1 DEF Execution, PCs, WellFormed, PCsOf, WorkerPCs
        <3> HIDE DEF marked, e
        <3>4. ProcOK' /\ proc'[w].pc # "idle"
            BY <2>1, <3>2, <3>3, Moves
        <3> QED  BY <1>1, <2>1, <2>3, <3>1, <3>2, <3>4 DEF StartCleanup, OwnerOK, ProcOK, store
    <2> QED  BY <2>2, <2>3
<1>2. ASSUME NEW p \in Processes, DeleteInput(p) PROVE TypeInv'
    <2>1. owner = p /\ proc[p].pc = "deleting" /\ proc[p] \in Execution /\ WellFormed(p, proc[p])
        BY <1>2 DEF DeleteInput, At, ProcOK
    <2>2. p \in Workers \/ p = Cleaner
        BY <2>1 DEF Processes, WellFormed, PCsOf
    <2>3. proc[p].copy \in Evidence
        BY <2>1 DEF WellFormed
    <2>4. ProcOK' /\ OwnerOK' /\ owner' \in Processes \cup {None} /\ queue' \subseteq Messages
        BY <1>2, <2>1, <2>2, <2>3, AfterCleanupType DEF DeleteInput, WellFormed
    <2>5. evidence' \in Evidence /\ expired' \in BOOLEAN /\ input' \in {"stored", "deleted"}
        BY <1>2, <2>3 DEF DeleteInput, ExpiresNow, Failing
    <2> QED  BY <1>2, <2>4, <2>5 DEF DeleteInput, ProcOK, store
<1> QED  BY <1>1, <1>2

LEMMA CleanStaleInputType ==
    ASSUME TypeInv, CleanStaleInput
    PROVE  TypeInv'
<1> USE DEF TypeInv, TypeOK
<1> DEFINE marked == [evidence EXCEPT !.cleanup_started = TRUE]
           e == [proc[Cleaner] EXCEPT !.pc = "deleting", !.copy = marked]
<1>1. Cleaner \in Processes /\ Cleaner # Intake /\ Cleaner \notin Workers
    BY ProcessAssumption DEF Processes
<1>2. marked \in Evidence /\ marked.cleanup_started
    BY DEF Evidence
<1>3. evidence' = marked /\ proc' = [proc EXCEPT ![Cleaner] = e]
    BY DEF CleanStaleInput
<1>4. e \in Execution /\ WellFormed(Cleaner, e) /\ e.pc # "idle"
    BY <1>1, <1>2 DEF ProcOK, Execution, PCs, WellFormed, PCsOf
<1> HIDE DEF marked, e
<1>5. ProcOK' /\ proc'[Cleaner].pc # "idle"
    BY <1>1, <1>3, <1>4, Moves
<1> QED  BY <1>1, <1>2, <1>3, <1>5
         DEF CleanStaleInput, OwnerOK, ProcOK, store, Terminal, JobStages

-----------------------------------------------------------------------------
\* How an execution ends, and the faults.
LEMMA EndingType ==
    ASSUME TypeInv, NEW w \in Workers,
           \/ ReturnStage(w) \/ IgnoreOutdatedFailure(w) \/ RetryStage(w)
           \/ FailureNotSaved(w) \/ RollBackRefresh(w) \/ CleanupRaises(w)
    PROVE  TypeInv'
<1> USE DEF TypeInv, TypeOK
<1>1. w \in Processes
    BY DEF Processes
<1>2. proc[w].pc # "idle" /\ proc[w].task \in Messages
    BY <1>1, ProcessAssumption
       DEF ReturnStage, IgnoreOutdatedFailure, RetryStage, FailureNotSaved, RollBackRefresh,
           CleanupRaises, Raised, At, ProcOK, WellFormed
<1>3. Release(w)
    BY DEF ReturnStage, IgnoreOutdatedFailure, RetryStage, FailureNotSaved, RollBackRefresh, CleanupRaises
<1>4. ProcOK' /\ OwnerOK' /\ owner' \in Processes \cup {None}
    BY <1>1, <1>3, Releases DEF OwnerOK
<1>5. queue' \subseteq Messages
    BY <1>2, AcknowledgeType, PublishType, ChainType
       DEF ReturnStage, IgnoreOutdatedFailure, RetryStage, FailureNotSaved, RollBackRefresh, CleanupRaises
<1>6. CASE RetryStage(w)
    <2>1. evidence' \in Evidence
        BY <1>2, <1>6 DEF RetryStage, Evidence, Messages
    <2> QED  BY <1>4, <1>5, <1>6, <2>1 DEF RetryStage, ProcOK, store
<1>7. CASE RollBackRefresh(w)
    <2>1. evidence' \in Evidence
        BY <1>7 DEF RollBackRefresh, Evidence
    <2>2. evidence.targeted \in Refresh
        BY <1>7 DEF RollBackRefresh, Evidence
    <2>3. results' \in [Refs -> Sources \cup {None}] /\ summary' \in SUBSET RecordIds
        BY <1>7, <2>2 DEF RollBackRefresh, Refresh
    <2> QED  BY <1>4, <1>5, <1>7, <2>1, <2>3 DEF RollBackRefresh, ProcOK, Terminal, JobStages
<1> QED  BY <1>4, <1>5, <1>6, <1>7
         DEF ReturnStage, IgnoreOutdatedFailure, FailureNotSaved, CleanupRaises, ProcOK, row, store

LEMMA FailJobType ==
    ASSUME TypeInv, NEW w \in Workers, FailJob(w)
    PROVE  TypeInv'
<1> USE DEF TypeInv, TypeOK
<1> DEFINE e == [proc[w] EXCEPT !.pc = "checked", !.copy = evidence]
<1>1. w \in Processes /\ w # Intake /\ w # Cleaner
    BY ProcessAssumption DEF Processes
<1>2. owner = w /\ proc[w].task \in Messages /\ proc[w] \in Execution
    BY <1>1 DEF FailJob, Raised, At, ProcOK, WellFormed
<1>3. e \in Execution /\ WellFormed(w, e) /\ e.pc # "idle"
    BY <1>1, <1>2 DEF Execution, PCs, WellFormed, PCsOf, WorkerPCs
<1>4. proc' = [proc EXCEPT ![w] = e]
    BY DEF FailJob
<1> HIDE DEF e
<1>5. ProcOK' /\ proc'[w].pc # "idle"
    BY <1>1, <1>3, <1>4, Moves
<1> QED  BY <1>1, <1>2, <1>5 DEF FailJob, OwnerOK, ProcOK, store, Terminal, JobStages

LEMMA FaultsType ==
    ASSUME TypeInv, NEW p \in Processes, Faults(p)
    PROVE  TypeInv'
<1> USE DEF TypeInv, TypeOK
<1>1. CASE LoseConnection(p)
    BY <1>1, StaysPut DEF LoseConnection, OwnerOK, ProcOK, row, store
<1>2. CASE LoseOwnership(p)
    <2>1. p \in Workers => proc[p].task \in Messages
        BY <1>2 DEF LoseOwnership, ProcOK, WellFormed
    <2>2. queue' \subseteq Messages
        BY <1>2, <2>1, AcknowledgeType DEF LoseOwnership
    <2>3. ProcOK'
        BY <1>2, Moves, IdleOK DEF LoseOwnership
    <2>4. OwnerOK'
        BY <1>2 DEF LoseOwnership, OwnerOK, ProcOK
    <2> QED  BY <1>2, <2>2, <2>3, <2>4 DEF LoseOwnership, ProcOK, row, store
<1>3. CASE Crash(p)
    <2>1. ProcOK' /\ OwnerOK' /\ owner' \in Processes \cup {None}
        BY <1>3, Releases DEF Crash, OwnerOK
    <2> QED  BY <1>3, <2>1 DEF Crash, ProcOK, row, store
<1> QED  BY <1>1, <1>2, <1>3 DEF Faults

LEMMA IntakeType ==
    ASSUME TypeInv, UploadInput \/ QueueJob
    PROVE  TypeInv'
<1> USE DEF TypeInv, TypeOK
<1>1. Intake \in Processes /\ proc[Intake] \in Execution
    BY DEF Processes, ProcOK
<1>2. CASE UploadInput
    <2>1. CASE Release(Intake) /\ UNCHANGED evidence
        <3>1. ProcOK' /\ OwnerOK' /\ owner' \in Processes \cup {None}
            BY <1>1, <2>1, Releases DEF OwnerOK
        <3> QED  BY <1>2, <2>1, <3>1 DEF UploadInput, ProcOK, Terminal, JobStages, store
    <2>2. ASSUME NEW c \in Confirmations, Goto(Intake, "uploaded"),
                 evidence' = [evidence EXCEPT !.confirmed = c], UNCHANGED <<status, stage>>
          PROVE  TypeInv'
        <3> DEFINE e == [proc[Intake] EXCEPT !.pc = "uploaded"]
        <3>1. evidence' \in Evidence
            BY <2>2, PolicyAssumption DEF Evidence
        <3>2. e \in Execution /\ WellFormed(Intake, e) /\ e.pc = "uploaded"
            BY <1>1, ProcessAssumption DEF Execution, PCs, WellFormed, PCsOf
        <3>3. proc' = [proc EXCEPT ![Intake] = e] /\ owner' = owner
            BY <2>2 DEF Goto
        <3> HIDE DEF e
        <3>4. ProcOK' /\ proc'[Intake].pc = "uploaded"
            BY <1>1, <3>2, <3>3, Moves
        <3>5. owner = Intake
            BY <1>2 DEF UploadInput, At
        <3> QED  BY <1>2, <2>2, <3>1, <3>3, <3>4, <3>5 DEF UploadInput, OwnerOK, ProcOK, store
    <2> QED  BY <1>2, <2>1, <2>2 DEF UploadInput
<1>3. CASE QueueJob
    <2>1. issued' \in Attempts
        BY <1>3, BoundAssumption DEF QueueJob, Attempts
    <2>2. [evidence EXCEPT !.ready = TRUE] \in Evidence
        BY DEF Evidence
    <2>3. evidence' \in Evidence
        BY <1>3, <2>1, <2>2, PrepareType DEF QueueJob
    <2>4. ProcOK' /\ OwnerOK' /\ owner' \in Processes \cup {None}
        BY <1>1, <1>3, Releases DEF QueueJob, OwnerOK
    <2> QED  BY <1>3, <2>1, <2>3, <2>4 DEF QueueJob, ProcOK, store, Attempts
<1> QED  BY <1>2, <1>3

LEMMA StepType == TypeInv /\ [Next]_vars => TypeInv'
<1> SUFFICES ASSUME TypeInv, [Next]_vars PROVE TypeInv'
    OBVIOUS
<1>1. CASE UNCHANGED vars
    BY <1>1 DEF vars, row, store, TypeInv, TypeOK, ProcOK, OwnerOK
<1>2. CASE Next
    <2>1. ASSUME NEW w \in Workers, WorkerStep(w) PROVE TypeInv'
        BY <2>1, EnterStageType, ExtractRetrieveType, VerifyType, FinalizeType, CleanupType,
           EndingType, FailJobType DEF WorkerStep
    <2>2. ASSUME NEW w \in Workers, WorkerFaults(w) PROVE TypeInv'
        BY <2>2, StageRaisesType, EndingType DEF WorkerFaults
    <2>3. ASSUME NEW w \in Workers, NEW m \in Messages, Delivery(w, m) PROVE TypeInv'
        BY <2>3, EnvironmentType, DeliveryType DEF Delivery
    <2> QED  BY <1>2, <2>1, <2>2, <2>3, IntakeType, EnvironmentType, CleanStaleInputType,
               CleanupType, FaultsType, RefreshType DEF Next
<1> QED  BY <1>1, <1>2

\* Every variable keeps its type: in particular, a column that is written back
\* from an earlier read is only ever written by a process that has read it, and
\* the counters stay within their bounds.
THEOREM TypeCorrect == Spec => []TypeOK
<1>1. TypeInv => TypeOK
    BY DEF TypeInv
<1> QED  BY InitType, StepType, <1>1, PTL DEF Spec

-----------------------------------------------------------------------------
(* One owner: what _start_stage checked stays true while the lock is held. *)

\* The row is at stage s of attempt a, and in use.
RowAt(a, s) == status \in Active /\ evidence.attempt_id = a /\ PendingOf(status, stage) = s

LEMMA StageOwnsJobIs ==
    StageOwnsJob <=>
      \A w \in Workers : owner = w /\ proc[w].pc \in {"started", "entered"} =>
                            RowAt(proc[w].task.attempt, proc[w].task.stage)
BY DEF StageOwnsJob, RowAt, Matches, PendingStage

\* The row stays at a stage while nothing but its other columns change.
LEMMA RowStays ==
    ASSUME NEW a, NEW s, RowAt(a, s), UNCHANGED <<status, stage>>,
           evidence'.attempt_id = evidence.attempt_id
    PROVE  RowAt(a, s)'
BY DEF RowAt

LEMMA EnteringKeepsStage ==
    ASSUME NEW a, NEW s \in Stages, RowAt(a, s)
    PROVE  /\ PendingOf("running", EnteredAs[s]) = s
           /\ PendingOf(status, EnteredAs[s]) = s
<1>1. status \in Active /\ "running" \in Active /\ PendingOf(status, stage) = s /\ s # None
    BY NoneAssumption DEF RowAt, Active
<1>2. CASE s = "retrieve"
    <2>1. ~StoreOnly
        BY <1>1, <1>2, PolicyAssumption DEF PendingOf
    <2> QED  BY <1>1, <1>2, <2>1 DEF PendingOf, EnteredAs
<1>3. CASE s \in {"extract", "verify", "finalize"}
    BY <1>1, <1>3 DEF PendingOf, EnteredAs
<1> QED  BY <1>2, <1>3 DEF Stages

LEMMA StageOwnsJobStep == TypeInv /\ StageOwnsJob /\ [Next]_vars => StageOwnsJob'
<1> SUFFICES ASSUME TypeInv, StageOwnsJob, [Next]_vars PROVE StageOwnsJob'
    OBVIOUS
<1> SUFFICES ASSUME NEW w \in Workers, owner' = w, proc'[w].pc \in {"started", "entered"}
             PROVE  RowAt(proc[w].task.attempt, proc[w].task.stage)'
    BY DEF StageOwnsJob, RowAt, Matches, PendingStage
<1> DEFINE Held == /\ owner = w /\ proc[w].pc \in {"started", "entered"}
                   /\ RowAt(proc[w].task.attempt, proc[w].task.stage)
<1>1. w \in Processes /\ w # Intake /\ w # Cleaner /\ w # None
    BY ProcessAssumption DEF Processes
<1>2. owner = w /\ proc[w].pc \in {"started", "entered"} => Held
    BY StageOwnsJobIs
<1>3. proc \in [Processes -> Execution] /\ evidence \in Evidence
    BY DEF TypeInv, TypeOK
<1>4. ASSUME UNCHANGED <<owner, proc, status, stage>>, evidence'.attempt_id = evidence.attempt_id
      PROVE  RowAt(proc[w].task.attempt, proc[w].task.stage)'
    BY <1>2, <1>4, RowStays
<1>5. CASE UNCHANGED vars
    BY <1>4, <1>5 DEF vars, row
<1>6. CASE \/ LeaseEnds \/ ClaimDispatch \/ ExpireInput
           \/ \E m \in Messages : LoseMessage(m)
           \/ \E x \in Workers, m \in Messages : IgnoreBusy(x, m) \/ IgnoreStale(x, m) \/ SkipStage(x, m)
           \/ \E r \in Refs : QueueUpload(r) \/ DequeueUpload(r)
    BY <1>3, <1>4, <1>6 DEF LeaseEnds, ClaimDispatch, ExpireInput, LoseMessage, IgnoreBusy, IgnoreStale,
       SkipStage, QueueUpload, DequeueUpload, Queued, row, Evidence
<1>7. CASE \/ \E refs \in SUBSET Refs : SearchAgain(refs)
           \/ \E r \in Refs : UploadSource(r) \/ RetryUpload(r)
    <2>1. ASSUME NEW refs, NEW newResults, NEW newStage, BeginRefresh(refs, newResults, newStage)
          PROVE  FALSE
        BY <1>2, <2>1 DEF BeginRefresh, RowAt, Active
    <2>2. ASSUME NEW r \in Refs, UploadSource(r) \/ RetryUpload(r), ~AdoptUpload(r)
          PROVE  RowAt(proc[w].task.attempt, proc[w].task.stage)'
        BY <2>2, <1>4 DEF UploadSource, RetryUpload, row
    <2> QED  BY <1>7, <2>1, <2>2 DEF SearchAgain, AdoptUpload
<1>8. ASSUME NEW x \in Workers, NEW m \in Messages, StartStage(x, m) \/ ExhaustStage(x, m)
      PROVE  RowAt(proc[w].task.attempt, proc[w].task.stage)'
    <2>1. x = w /\ StartStage(w, m) /\ proc'[w].task = m
        BY <1>1, <1>3, <1>8 DEF StartStage, ExhaustStage, Idle
    <2>2. PendingOf("running", stage) = PendingOf(status, stage)
        BY <2>1 DEF StartStage, Matches, PendingOf, Active
    <2> QED  BY <1>3, <2>1, <2>2
             DEF StartStage, RowAt, Matches, Due, PendingStage, Active, Evidence
<1>9. ASSUME NEW x \in Workers, EnterStage(x)
      PROVE  RowAt(proc[w].task.attempt, proc[w].task.stage)'
    <2>1. x = w /\ Held /\ proc'[w].task = proc[w].task
        BY <1>1, <1>2, <1>3, <1>9 DEF EnterStage, At, Execution
    <2>2. proc[w].task.stage \in Stages
        BY <1>1, <2>1 DEF TypeInv, ProcOK, WellFormed, Messages
    <2> QED  BY <1>9, <2>1, <2>2, EnteringKeepsStage DEF EnterStage, RowAt, Active
<1>10. ASSUME NEW x \in Workers, NEW r \in Refs, RetrieveSource(x, r) \/ VerifySource(x, r)
       PROVE  RowAt(proc[w].task.attempt, proc[w].task.stage)'
    <2>1. x = w /\ Held /\ proc'[w].task = proc[w].task
        BY <1>1, <1>2, <1>3, <1>10 DEF RetrieveSource, VerifySource, Working, At, Execution
    <2> QED  BY <1>10, <2>1, RowStays DEF RetrieveSource, VerifySource, row
<1>11. ASSUME NEW x \in Workers,
              \/ ExtractPaper(x) \/ RetrievalDone(x) \/ VerificationDone(x)
              \/ FinalizePaper(x) \/ CheckReport(x) \/ StartCleanup(x) \/ DeleteInput(x)
              \/ FailJob(x) \/ StageRaises(x)
       PROVE  FALSE
    <2>1. owner = x
        BY <1>11 DEF ExtractPaper, RetrievalDone, VerificationDone, FinalizePaper, CheckReport,
                     StartCleanup, DeleteInput, FailJob, StageRaises, Working, At, Raised
    <2>2. owner' \in {x, None}
        BY <1>11, <2>1 DEF ExtractPaper, RetrievalDone, VerificationDone, FinalizePaper, CheckReport,
                     StartCleanup, DeleteInput, FailJob, StageRaises, AfterCleanup, Goto, Release
    <2>3. x = w
        BY <1>1, <2>2
    <2>4. proc[w] \in Execution /\ proc'[w].pc \in {"started", "entered"}
        BY <1>1, <1>3
    <2>5. ASSUME NEW pc \in {"checked", "returning"}, Goto(w, pc) PROVE FALSE
        BY <1>1, <1>3, <2>4, <2>5 DEF Goto, Execution
    <2>6. ASSUME AfterCleanup(w) PROVE FALSE
        BY <1>1, <2>5, <2>6 DEF AfterCleanup, Release
    <2>7. CASE ExtractPaper(w) \/ RetrievalDone(w) \/ VerificationDone(w) \/ DeleteInput(w)
        BY <2>5, <2>6, <2>7 DEF ExtractPaper, RetrievalDone, VerificationDone, DeleteInput
    <2>8. CASE FinalizePaper(w)
        BY <1>1, <1>3, <2>4, <2>8 DEF FinalizePaper, Execution
    <2>9. CASE CheckReport(w)
        BY <1>1, <1>3, <2>4, <2>9 DEF CheckReport, Execution
    <2>10. CASE StartCleanup(w)
        BY <1>1, <1>3, <2>4, <2>6, <2>10 DEF StartCleanup, Execution
    <2>11. CASE FailJob(w)
        BY <1>1, <1>3, <2>4, <2>11 DEF FailJob, Execution
    <2>12. CASE StageRaises(w)
        BY <1>1, <1>3, <2>4, <2>12 DEF StageRaises, Idle
    <2> QED  BY <1>11, <2>3, <2>7, <2>8, <2>9, <2>10, <2>11, <2>12
<1>12. ASSUME NEW x \in Workers,
              \/ ReturnStage(x) \/ IgnoreOutdatedFailure(x) \/ RetryStage(x) \/ RollBackRefresh(x)
              \/ FailureNotSaved(x) \/ CleanupRaises(x)
       PROVE  FALSE
    BY <1>1, <1>12 DEF ReturnStage, IgnoreOutdatedFailure, RetryStage, RollBackRefresh, FailureNotSaved,
       CleanupRaises, Release
<1>13. CASE UploadInput \/ QueueJob \/ CleanStaleInput
    BY <1>1, <1>13 DEF UploadInput, QueueJob, CleanStaleInput, At, Goto, Release
<1>14. ASSUME NEW p \in Processes, Faults(p) \/ (p \notin Workers /\ DeleteInput(p))
       PROVE  RowAt(proc[w].task.attempt, proc[w].task.stage)'
    <2>1. CASE LoseConnection(p) \/ Crash(p) \/ (p \notin Workers /\ DeleteInput(p))
        BY <1>1, <2>1 DEF LoseConnection, Crash, DeleteInput, AfterCleanup, At, Goto, Release
    <2>2. CASE LoseOwnership(p)
        <3>1. p # w /\ Held /\ proc'[w] = proc[w]
            BY <1>1, <1>2, <1>3, <2>2 DEF LoseOwnership
        <3> QED  BY <2>2, <3>1, RowStays DEF LoseOwnership, row
    <2> QED  BY <1>14, <2>1, <2>2 DEF Faults
<1> QED  BY <1>5, <1>6, <1>7, <1>8, <1>9, <1>10, <1>11, <1>12, <1>13, <1>14
         DEF Next, WorkerStep, WorkerFaults, Delivery, Uploads

\* While a worker runs a stage, the row is at that stage of its attempt: no
\* redelivered message, refresh, recovery or clean-up moves the job under it.
THEOREM OneOwner == Spec => []StageOwnsJob
<1>1. Init => StageOwnsJob
    BY ProcessAssumption DEF Init, StageOwnsJob
<1> QED  BY <1>1, InitType, StepType, StageOwnsJobStep, PTL DEF Spec

-----------------------------------------------------------------------------
(* A paper that has a report is used under a refresh marker only. *)

\* While the job is being created it has no report.
MarkInv == MarkedUntilCleanup /\ (owner = Intake => reports = <<>>)

LEMMA MarkIs ==
    MarkedUntilCleanup <=>
      (~evidence.cleanup_started /\ reports # <<>> =>
          /\ status \in Active => evidence.targeted # None
          /\ status # "failed")
BY DEF MarkedUntilCleanup, RunningRefreshIsMarked

\* A step that keeps what the invariant is about, one that ends a run well, and
\* one that marks the clean-up.
LEMMA MarkKept ==
    ASSUME MarkInv, UNCHANGED <<status, reports>>, owner' = Intake => owner = Intake,
           evidence'.targeted = evidence.targeted,
           evidence'.cleanup_started = evidence.cleanup_started
    PROVE  MarkInv'
BY DEF MarkInv, MarkedUntilCleanup, RunningRefreshIsMarked

LEMMA MarkDone ==
    ASSUME status' = "completed", owner' # Intake
    PROVE  MarkInv'
BY DEF MarkInv, MarkedUntilCleanup, RunningRefreshIsMarked, Active

LEMMA MarkCleaning ==
    ASSUME evidence'.cleanup_started, owner' # Intake
    PROVE  MarkInv'
BY DEF MarkInv, MarkedUntilCleanup, RunningRefreshIsMarked

LEMMA MarkStep == TypeInv /\ StageOwnsJob /\ MarkInv /\ [Next]_vars => MarkInv'
<1> SUFFICES ASSUME TypeInv, StageOwnsJob, MarkInv, [Next]_vars PROVE MarkInv'
    OBVIOUS
<1>1. /\ evidence \in Evidence /\ proc \in [Processes -> Execution]
      /\ Intake # None /\ Intake \in Processes
      /\ \A w \in Workers : w \in Processes /\ w # Intake /\ w # Cleaner
    BY ProcessAssumption DEF TypeInv, TypeOK, Processes
<1>2. CASE UNCHANGED vars
    BY <1>2, MarkKept DEF vars, row, store
<1>3. CASE \/ LeaseEnds \/ ClaimDispatch \/ ExpireInput
           \/ \E m \in Messages : LoseMessage(m)
           \/ \E x \in Workers, m \in Messages : IgnoreBusy(x, m) \/ IgnoreStale(x, m) \/ SkipStage(x, m)
           \/ \E r \in Refs : QueueUpload(r) \/ DequeueUpload(r)
    BY <1>1, <1>3, MarkKept DEF LeaseEnds, ClaimDispatch, ExpireInput, LoseMessage, IgnoreBusy, IgnoreStale,
       SkipStage, QueueUpload, DequeueUpload, Queued, row, store, Evidence
<1>4. CASE \/ \E refs \in SUBSET Refs : SearchAgain(refs)
           \/ \E r \in Refs : UploadSource(r) \/ RetryUpload(r)
    <2>1. ASSUME NEW refs \in SUBSET Refs, NEW newResults, NEW newStage,
                 BeginRefresh(refs, newResults, newStage)
          PROVE  MarkInv'
        <3> DEFINE refresh == [reference_ids |-> refs, source_results |-> results,
                               verification_summary |-> SummaryIds]
        <3>1. refresh \in Refresh /\ refresh # None
            BY SummaryIdsType, NoneAssumption DEF Refresh, TypeInv, TypeOK
        <3>2. evidence'.targeted = refresh
            BY <1>1, <2>1 DEF BeginRefresh, PrepareDispatch, Evidence
        <3>3. owner' # Intake /\ status' = "running"
            BY <2>1 DEF BeginRefresh, MarkInv
        <3> QED  BY <3>1, <3>2, <3>3 DEF MarkInv, MarkedUntilCleanup, RunningRefreshIsMarked
    <2>2. ASSUME NEW r \in Refs, UploadSource(r), ~AdoptUpload(r) PROVE MarkInv'
        BY <2>2, MarkKept DEF UploadSource, row, store
    <2> QED  BY <1>4, <2>1, <2>2 DEF SearchAgain, AdoptUpload, RetryUpload
<1>5. ASSUME NEW w \in Workers, NEW m \in Messages, StartStage(w, m) \/ ExhaustStage(w, m)
      PROVE  MarkInv'
    <2>1. CASE StartStage(w, m)
        <3>1. /\ evidence'.targeted = evidence.targeted
              /\ evidence'.cleanup_started = evidence.cleanup_started
              /\ status \in Active /\ status' = "running" /\ reports' = reports /\ owner' # Intake
            BY <1>1, <2>1 DEF StartStage, Evidence, Matches, store
        <3> QED  BY <3>1 DEF MarkInv, MarkedUntilCleanup, RunningRefreshIsMarked
    <2>2. CASE ExhaustStage(w, m)
        BY <1>1, <2>2, MarkKept DEF ExhaustStage, row, store
    <2> QED  BY <1>5, <2>1, <2>2
<1>6. ASSUME NEW w \in Workers, EnterStage(w) PROVE MarkInv'
    <2>1. status \in Active /\ owner = w /\ owner' = owner /\ UNCHANGED <<reports, evidence>>
        BY <1>6 DEF EnterStage, At, StageOwnsJob, Matches, store
    <2>2. status' \in {status, "running"}
        BY <1>6 DEF EnterStage
    <2> QED  BY <1>1, <2>1, <2>2 DEF MarkInv, MarkedUntilCleanup, RunningRefreshIsMarked
<1>7. ASSUME NEW w \in Workers,
             \/ ExtractPaper(w) \/ RetrievalDone(w) \/ VerificationDone(w) \/ CheckReport(w)
             \/ StageRaises(w)
             \/ \E r \in Refs : RetrieveSource(w, r) \/ VerifySource(w, r)
      PROVE  MarkInv'
    BY <1>1, <1>7, MarkKept DEF ExtractPaper, RetrievalDone, VerificationDone, CheckReport, StageRaises,
       RetrieveSource, VerifySource, Goto, row, store
<1>8. ASSUME NEW w \in Workers, FinalizePaper(w) PROVE MarkInv'
    BY <1>1, <1>8, MarkDone DEF FinalizePaper, Working, At
<1>9. ASSUME NEW w \in Workers, RollBackRefresh(w) PROVE MarkInv'
    BY <1>1, <1>9, MarkDone DEF RollBackRefresh, Release
<1>10. ASSUME NEW w \in Workers,
              \/ ReturnStage(w) \/ IgnoreOutdatedFailure(w) \/ RetryStage(w)
              \/ FailureNotSaved(w) \/ CleanupRaises(w)
       PROVE  MarkInv'
    BY <1>1, <1>10, MarkKept DEF ReturnStage, IgnoreOutdatedFailure, RetryStage, FailureNotSaved,
       CleanupRaises, Release, row, store, Evidence
<1>11. ASSUME NEW w \in Workers, FailJob(w) PROVE MarkInv'
    <2>1. status \in Active /\ evidence.targeted = None /\ UNCHANGED <<evidence, reports>>
        BY <1>11 DEF FailJob, Matches, store
    <2>2. owner' # Intake
        BY <1>1, <1>11 DEF FailJob, Raised, At
    <2> QED  BY <2>1, <2>2 DEF MarkInv, MarkedUntilCleanup, RunningRefreshIsMarked
<1>12. ASSUME NEW p \in Processes, AfterCleanup(p), owner = p, p # Intake PROVE owner' # Intake
    BY <1>1, <1>12 DEF AfterCleanup, Release, Goto
<1>13. ASSUME NEW w \in Workers, StartCleanup(w) PROVE MarkInv'
    <2>1. owner = w /\ owner' # Intake
        BY <1>1, <1>12, <1>13 DEF StartCleanup, At
    <2>2. CASE input = "deleted"
        BY <1>13, <2>1, <2>2, MarkKept DEF StartCleanup, store
    <2>3. CASE input # "deleted"
        <3>1. proc[w].copy \in Evidence
            BY <1>13, EnteredFacts DEF StartCleanup, At
        <3>2. evidence'.cleanup_started
            BY <1>13, <2>3, <3>1 DEF StartCleanup, Evidence
        <3> QED  BY <2>1, <3>2, MarkCleaning
    <2> QED  BY <2>2, <2>3
<1>14. ASSUME NEW p \in Processes, DeleteInput(p) PROVE MarkInv'
    <2>1. owner = p /\ p # Intake /\ proc[p].copy.cleanup_started
        BY <1>14 DEF DeleteInput, At, TypeInv, ProcOK, WellFormed, PCsOf
    <2>2. owner' # Intake
        BY <1>12, <1>14, <2>1 DEF DeleteInput
    <2>3. CASE evidence' = evidence
        BY <1>14, <2>1, <2>2, <2>3, MarkKept DEF DeleteInput, store
    <2>4. CASE evidence' = proc[p].copy
        BY <2>1, <2>2, <2>4, MarkCleaning
    <2> QED  BY <1>14, <2>3, <2>4 DEF DeleteInput
<1>15. CASE CleanStaleInput
    <2>1. evidence'.cleanup_started /\ owner' # Intake
        BY <1>1, <1>15, ProcessAssumption DEF CleanStaleInput, Evidence
    <2> QED  BY <2>1, MarkCleaning
<1>16. CASE UploadInput \/ QueueJob
    <2>1. owner = Intake /\ reports = <<>> /\ reports' = reports
        BY <1>16 DEF UploadInput, QueueJob, At, MarkInv, store
    <2> QED  BY <2>1 DEF MarkInv, MarkedUntilCleanup, RunningRefreshIsMarked
<1>17. ASSUME NEW p \in Processes, Faults(p) PROVE MarkInv'
    BY <1>1, <1>17, MarkKept DEF Faults, LoseConnection, LoseOwnership, Crash, Release, row, store
<1> QED  BY <1>2, <1>3, <1>4, <1>5, <1>6, <1>7, <1>8, <1>9, <1>10, <1>11, <1>13, <1>14, <1>15, <1>16, <1>17
         DEF Next, WorkerStep, WorkerFaults, Delivery, Uploads

\* A paper that has a report is in use under a refresh marker and never fails,
\* so that rollback_targeted_source_refresh can restore it, as long as the
\* clean-up of its input has not begun.
THEOREM RefreshStaysMarked == Spec => []MarkedUntilCleanup
<1>1. Init => StageOwnsJob /\ MarkInv
    BY ProcessAssumption DEF Init, StageOwnsJob, MarkInv, MarkedUntilCleanup, RunningRefreshIsMarked
<1>2. MarkInv => MarkedUntilCleanup
    BY DEF MarkInv
<1> QED  BY <1>1, <1>2, InitType, StepType, StageOwnsJobStep, MarkStep, PTL DEF Spec

-----------------------------------------------------------------------------
(* Every attempt publishes at most once. *)

\* The copy of upload_evidence that an execution works with is of the row's
\* attempt, and has the row's marks.
Marks(e) == <<e.cleanup_started, e.kept, e.targeted>>
CopyInv ==
    \A w \in Workers : owner = w /\ proc[w].pc = "entered" =>
        /\ proc[w].copy.attempt_id = evidence.attempt_id
        /\ Marks(proc[w].copy) = Marks(evidence)

LEMMA CopyStep == TypeInv /\ StageOwnsJob /\ CopyInv /\ [Next]_vars => CopyInv'
<1> SUFFICES ASSUME TypeInv, StageOwnsJob, CopyInv, [Next]_vars,
                    NEW w \in Workers, owner' = w, proc'[w].pc = "entered"
             PROVE  /\ proc'[w].copy.attempt_id = evidence'.attempt_id
                    /\ Marks(proc'[w].copy) = Marks(evidence')
    BY DEF CopyInv
<1> DEFINE Same == /\ proc'[w].copy.attempt_id = evidence'.attempt_id
                   /\ Marks(proc'[w].copy) = Marks(evidence')
<1>1. w \in Processes /\ w # Intake /\ w # Cleaner /\ w # None
    BY ProcessAssumption DEF Processes
<1>2. proc \in [Processes -> Execution] /\ evidence \in Evidence
    BY DEF TypeInv, TypeOK
<1>3. ASSUME owner = w, proc'[w].pc = proc[w].pc, proc'[w].copy = proc[w].copy,
             evidence'.attempt_id = evidence.attempt_id,
             Marks(evidence') = Marks(evidence)
      PROVE  Same
    BY <1>3 DEF CopyInv
<1>4. owner = w /\ proc[w].pc = "entered" => status \in Active
    BY DEF StageOwnsJob, Matches
<1>5. CASE UNCHANGED vars
    BY <1>3, <1>5 DEF vars, row
<1>6. CASE \/ LeaseEnds \/ ClaimDispatch \/ ExpireInput
           \/ \E m \in Messages : LoseMessage(m)
           \/ \E x \in Workers, m \in Messages : IgnoreBusy(x, m) \/ IgnoreStale(x, m) \/ SkipStage(x, m)
           \/ \E r \in Refs : QueueUpload(r) \/ DequeueUpload(r)
    BY <1>2, <1>3, <1>6 DEF LeaseEnds, ClaimDispatch, ExpireInput, LoseMessage, IgnoreBusy, IgnoreStale,
       SkipStage, QueueUpload, DequeueUpload, Queued, row, Evidence, Marks
<1>7. CASE \/ \E refs \in SUBSET Refs : SearchAgain(refs)
           \/ \E r \in Refs : UploadSource(r) \/ RetryUpload(r)
    <2>1. ASSUME NEW refs, NEW newResults, NEW newStage, BeginRefresh(refs, newResults, newStage)
          PROVE  FALSE
        BY <1>4, <2>1 DEF BeginRefresh, Active
    <2>2. ASSUME NEW r \in Refs, UploadSource(r) \/ RetryUpload(r), ~AdoptUpload(r) PROVE Same
        BY <2>2, <1>3 DEF UploadSource, RetryUpload, row
    <2> QED  BY <1>7, <2>1, <2>2 DEF SearchAgain, AdoptUpload
<1>8. ASSUME NEW x \in Workers, NEW m \in Messages, StartStage(x, m) \/ ExhaustStage(x, m)
      PROVE  FALSE
    BY <1>1, <1>2, <1>8 DEF StartStage, ExhaustStage, Idle
<1>9. ASSUME NEW x \in Workers, EnterStage(x) PROVE Same
    <2>1. x = w /\ UNCHANGED evidence
        BY <1>1, <1>9 DEF EnterStage, At
    <2>2. proc'[w].copy = evidence
        BY <1>1, <1>2, <1>9, <2>1 DEF EnterStage, Execution
    <2> QED  BY <2>1, <2>2
<1>10. ASSUME NEW x \in Workers, NEW r \in Refs, RetrieveSource(x, r) \/ VerifySource(x, r)
       PROVE  Same
    <2>1. owner = w /\ UNCHANGED evidence
        BY <1>10 DEF RetrieveSource, VerifySource, Working, At, row
    <2>2. proc'[w].pc = proc[w].pc /\ proc'[w].copy = proc[w].copy
        BY <1>1, <1>2, <1>10 DEF RetrieveSource, VerifySource, Execution
    <2> QED  BY <1>3, <2>1, <2>2
<1>11. ASSUME NEW x \in Workers,
              \/ ExtractPaper(x) \/ RetrievalDone(x) \/ VerificationDone(x)
              \/ FinalizePaper(x) \/ CheckReport(x) \/ StartCleanup(x) \/ DeleteInput(x)
              \/ FailJob(x) \/ StageRaises(x)
       PROVE  FALSE
    <2>1. owner = x
        BY <1>11 DEF ExtractPaper, RetrievalDone, VerificationDone, FinalizePaper, CheckReport,
                     StartCleanup, DeleteInput, FailJob, StageRaises, Working, At, Raised
    <2>2. owner' \in {x, None}
        BY <1>11, <2>1 DEF ExtractPaper, RetrievalDone, VerificationDone, FinalizePaper, CheckReport,
                     StartCleanup, DeleteInput, FailJob, StageRaises, AfterCleanup, Goto, Release
    <2>3. x = w
        BY <1>1, <2>2
    <2>4. proc[w] \in Execution
        BY <1>1, <1>2
    <2>5. ASSUME NEW pc \in {"checked", "returning"}, Goto(w, pc) PROVE FALSE
        BY <1>1, <1>2, <2>4, <2>5 DEF Goto, Execution
    <2>6. ASSUME AfterCleanup(w) PROVE FALSE
        BY <1>1, <2>5, <2>6 DEF AfterCleanup, Release
    <2>7. CASE ExtractPaper(w) \/ RetrievalDone(w) \/ VerificationDone(w) \/ DeleteInput(w)
        BY <2>5, <2>6, <2>7 DEF ExtractPaper, RetrievalDone, VerificationDone, DeleteInput
    <2>8. CASE FinalizePaper(w) \/ CheckReport(w)
        BY <1>1, <1>2, <2>4, <2>8 DEF FinalizePaper, CheckReport, Execution
    <2>9. CASE StartCleanup(w)
        BY <1>1, <1>2, <2>4, <2>6, <2>9 DEF StartCleanup, Execution
    <2>10. CASE FailJob(w) \/ StageRaises(w)
        BY <1>1, <1>2, <2>4, <2>10 DEF FailJob, StageRaises, Execution, Idle
    <2> QED  BY <1>11, <2>3, <2>7, <2>8, <2>9, <2>10
<1>12. ASSUME NEW x \in Workers,
              \/ ReturnStage(x) \/ IgnoreOutdatedFailure(x) \/ RetryStage(x) \/ RollBackRefresh(x)
              \/ FailureNotSaved(x) \/ CleanupRaises(x)
       PROVE  FALSE
    BY <1>1, <1>12 DEF ReturnStage, IgnoreOutdatedFailure, RetryStage, RollBackRefresh, FailureNotSaved,
       CleanupRaises, Release
<1>13. CASE UploadInput \/ QueueJob \/ CleanStaleInput
    BY <1>1, <1>13 DEF UploadInput, QueueJob, CleanStaleInput, At, Goto, Release
<1>14. ASSUME NEW p \in Processes, Faults(p) \/ (p \notin Workers /\ DeleteInput(p)) PROVE Same
    <2>1. CASE LoseConnection(p) \/ Crash(p) \/ (p \notin Workers /\ DeleteInput(p))
        BY <1>1, <2>1 DEF LoseConnection, Crash, DeleteInput, AfterCleanup, At, Goto, Release
    <2>2. CASE LoseOwnership(p)
        <3>1. p # w /\ owner = w /\ proc'[w] = proc[w] /\ UNCHANGED evidence
            BY <1>1, <1>2, <2>2 DEF LoseOwnership, row
        <3> QED  BY <1>3, <3>1
    <2> QED  BY <1>14, <2>1, <2>2 DEF Faults
<1> QED  BY <1>5, <1>6, <1>7, <1>8, <1>9, <1>10, <1>11, <1>12, <1>13, <1>14
         DEF Next, WorkerStep, WorkerFaults, Delivery, Uploads

\* Until its input is cleaned up, the row is at the attempt issued last, and
\* has published nothing of it while it is in use.
AttemptInv ==
    ~evidence.cleanup_started =>
        /\ evidence.attempt_id = issued
        /\ OneReportPerAttempt
        /\ \A i \in DOMAIN reports : /\ reports[i].attempt <= issued
                                     /\ status \in Active => reports[i].attempt < issued

\* A step that neither publishes nor issues an attempt, and uses no row anew.
LEMMA AttemptKept ==
    ASSUME AttemptInv, UNCHANGED <<reports, issued>>,
           status' \in Active => status \in Active,
           ~evidence'.cleanup_started => /\ ~evidence.cleanup_started
                                         /\ evidence'.attempt_id = evidence.attempt_id
    PROVE  AttemptInv'
BY DEF AttemptInv, OneReportPerAttempt

LEMMA AttemptStep ==
    TypeInv /\ StageOwnsJob /\ CopyInv /\ MarkInv /\ AttemptInv /\ [Next]_vars => AttemptInv'
<1> SUFFICES ASSUME TypeInv, StageOwnsJob, CopyInv, MarkInv, AttemptInv, [Next]_vars
             PROVE  AttemptInv'
    OBVIOUS
<1>1. /\ evidence \in Evidence /\ proc \in [Processes -> Execution]
      /\ \A w \in Workers : w \in Processes /\ w # Intake /\ w # Cleaner
      /\ reports \in Seq(Reports) /\ issued \in Nat
    BY ProcessAssumption, BoundAssumption DEF TypeInv, TypeOK, Processes
<1>a. \A i \in 1 .. Len(reports) : reports[i].attempt \in Nat
    <2>1. \A i \in 1 .. Len(reports) : reports[i] \in Reports
        BY <1>1
    <2>2. Attempts \subseteq Nat
        BY BoundAssumption DEF Attempts
    <2> QED  BY <2>1, <2>2 DEF Reports
<1>2. CASE UNCHANGED vars
    BY <1>2, AttemptKept DEF vars, row, store
<1>3. CASE \/ LeaseEnds \/ ClaimDispatch \/ ExpireInput
           \/ \E m \in Messages : LoseMessage(m)
           \/ \E x \in Workers, m \in Messages : IgnoreBusy(x, m) \/ IgnoreStale(x, m) \/ SkipStage(x, m)
           \/ \E r \in Refs : QueueUpload(r) \/ DequeueUpload(r)
    BY <1>1, <1>3, AttemptKept DEF LeaseEnds, ClaimDispatch, ExpireInput, LoseMessage, IgnoreBusy,
       IgnoreStale, SkipStage, QueueUpload, DequeueUpload, Queued, row, store, Evidence
<1>4. CASE \/ \E refs \in SUBSET Refs : SearchAgain(refs)
           \/ \E r \in Refs : UploadSource(r) \/ RetryUpload(r)
    <2>1. ASSUME NEW refs \in SUBSET Refs, NEW newResults, NEW newStage,
                 BeginRefresh(refs, newResults, newStage)
          PROVE  AttemptInv'
        <3>1. /\ evidence'.attempt_id = issued' /\ issued' = issued + 1
              /\ evidence'.cleanup_started = evidence.cleanup_started /\ reports' = reports
            BY <1>1, <2>1 DEF BeginRefresh, PrepareDispatch, Evidence, store
        <3> QED  BY <1>1, <1>a, <3>1 DEF AttemptInv, OneReportPerAttempt
    <2>2. ASSUME NEW r \in Refs, UploadSource(r), ~AdoptUpload(r) PROVE AttemptInv'
        BY <2>2, AttemptKept DEF UploadSource, row, store
    <2> QED  BY <1>4, <2>1, <2>2 DEF SearchAgain, AdoptUpload, RetryUpload
<1>5. ASSUME NEW w \in Workers, NEW m \in Messages, StartStage(w, m) \/ ExhaustStage(w, m)
      PROVE  AttemptInv'
    BY <1>1, <1>5, AttemptKept DEF StartStage, ExhaustStage, Matches, row, store, Evidence
<1>6. ASSUME NEW w \in Workers, EnterStage(w) PROVE AttemptInv'
    <2>1. status \in Active
        BY <1>6 DEF EnterStage, At, StageOwnsJob, Matches
    <2> QED  BY <1>6, <2>1, AttemptKept DEF EnterStage, store
<1>7. ASSUME NEW w \in Workers,
             \/ ExtractPaper(w) \/ RetrievalDone(w) \/ VerificationDone(w) \/ CheckReport(w)
             \/ StageRaises(w) \/ ReturnStage(w) \/ IgnoreOutdatedFailure(w) \/ RetryStage(w)
             \/ FailureNotSaved(w) \/ CleanupRaises(w) \/ FailJob(w) \/ RollBackRefresh(w)
             \/ \E r \in Refs : RetrieveSource(w, r) \/ VerifySource(w, r)
      PROVE  AttemptInv'
    BY <1>1, <1>7, AttemptKept DEF ExtractPaper, RetrievalDone, VerificationDone, CheckReport, StageRaises,
       ReturnStage, IgnoreOutdatedFailure, RetryStage, FailureNotSaved, CleanupRaises, FailJob,
       RollBackRefresh, RetrieveSource, VerifySource, row, store, Evidence, Active
<1>8. ASSUME NEW w \in Workers, FinalizePaper(w) PROVE AttemptInv'
    <2>1. /\ status \in Active /\ proc[w].task.attempt = evidence.attempt_id
          /\ proc[w].copy.attempt_id = evidence.attempt_id
          /\ proc[w].copy.cleanup_started = evidence.cleanup_started
          /\ proc[w].copy \in Evidence
        BY <1>8, EnteredFacts DEF FinalizePaper, Working, At, StageOwnsJob, Matches, CopyInv, Marks
    <2>2. /\ evidence'.attempt_id = evidence.attempt_id
          /\ evidence'.cleanup_started = evidence.cleanup_started
        BY <1>8, <2>1 DEF FinalizePaper, Evidence
    <2> DEFINE entry == [attempt |-> proc[w].task.attempt,
                         report_ids |-> IF StoreOnly THEN {} ELSE summary,
                         results |-> results]
    <2>3. /\ status' \notin Active /\ issued' = issued
          /\ reports' = Append(reports, entry) /\ entry.attempt = evidence.attempt_id
        BY <1>8, <2>1 DEF FinalizePaper, Active
    <2> HIDE DEF entry
    <2>4. reports \in Seq(Reports \cup {entry})
        BY <1>1
    <2>5. /\ DOMAIN reports = 1 .. Len(reports) /\ DOMAIN reports' = 1 .. Len(reports) + 1
          /\ reports'[Len(reports) + 1] = entry /\ Len(reports) \in Nat
          /\ \A i \in 1 .. Len(reports) : reports'[i] = reports[i]
        BY <2>3, <2>4
    <2> QED  BY <1>1, <1>a, <2>1, <2>2, <2>3, <2>5 DEF AttemptInv, OneReportPerAttempt
<1>9. ASSUME NEW w \in Workers, StartCleanup(w) PROVE AttemptInv'
    <2>1. CASE input = "deleted"
        BY <1>9, <2>1, AttemptKept DEF StartCleanup, store
    <2>2. CASE input # "deleted"
        <3>1. proc[w].copy \in Evidence
            BY <1>9, EnteredFacts DEF StartCleanup, At
        <3> QED  BY <1>9, <2>2, <3>1, AttemptKept DEF StartCleanup, store, Evidence
    <2> QED  BY <2>1, <2>2
<1>10. ASSUME NEW p \in Processes, DeleteInput(p) PROVE AttemptInv'
    <2>1. proc[p].copy.cleanup_started
        BY <1>10 DEF DeleteInput, At, TypeInv, ProcOK, WellFormed
    <2> QED  BY <1>10, <2>1, AttemptKept DEF DeleteInput, store
<1>11. CASE CleanStaleInput
    BY <1>1, <1>11, AttemptKept DEF CleanStaleInput, store, Evidence, Active
<1>12. CASE UploadInput
    BY <1>1, <1>12, AttemptKept DEF UploadInput, store, Evidence, Active
<1>13. CASE QueueJob
    <2>1. owner = Intake /\ reports = <<>> /\ reports' = reports
        BY <1>13 DEF QueueJob, At, MarkInv, store
    <2>2. evidence'.attempt_id = issued'
        BY <1>1, <1>13 DEF QueueJob, PrepareDispatch, Evidence
    <2> QED  BY <2>1, <2>2 DEF AttemptInv, OneReportPerAttempt
<1>14. ASSUME NEW p \in Processes, Faults(p) PROVE AttemptInv'
    BY <1>1, <1>14, AttemptKept DEF Faults, LoseConnection, LoseOwnership, Crash, row, store
<1> QED  BY <1>2, <1>3, <1>4, <1>5, <1>6, <1>7, <1>8, <1>9, <1>10, <1>11, <1>12, <1>13, <1>14
         DEF Next, WorkerStep, WorkerFaults, Delivery, Uploads

\* Until the clean-up of its input has begun, a paper publishes every attempt
\* once, in the order they were issued, whatever is redelivered, retried, lost
\* or at the broker from before: the attempt check of _start_stage, the job's
\* lock and the transaction that ends finalize are enough.
THEOREM AttemptsPublishOnce == Spec => [](~evidence.cleanup_started => OneReportPerAttempt)
<1>1. Init => StageOwnsJob /\ MarkInv /\ CopyInv /\ AttemptInv
    <2> SUFFICES ASSUME Init PROVE StageOwnsJob /\ MarkInv /\ CopyInv /\ AttemptInv
        OBVIOUS
    <2>1. StageOwnsJob /\ CopyInv
        BY ProcessAssumption DEF Init, StageOwnsJob, CopyInv
    <2>2. MarkInv
        BY DEF Init, MarkInv, MarkedUntilCleanup, RunningRefreshIsMarked
    <2>3. evidence.attempt_id = issued /\ DOMAIN reports = {}
        BY DEF Init
    <2> QED  BY <2>1, <2>2, <2>3 DEF AttemptInv, OneReportPerAttempt
<1>2. AttemptInv => (~evidence.cleanup_started => OneReportPerAttempt)
    BY DEF AttemptInv
<1> QED  BY <1>1, <1>2, InitType, StepType, StageOwnsJobStep, MarkStep, CopyStep, AttemptStep, PTL DEF Spec

-----------------------------------------------------------------------------
(* What the remaining invariants need to know of a step: the actions that  *)
(* change what they are about, and how a process gets where it is.         *)

LEMMA PendingIs ==
    ASSUME NEW st, NEW sg
    PROVE  /\ PendingOf(st, sg) = "extract" <=> st \in Active /\ sg \in {"uploaded", "extracting"}
           /\ PendingOf(st, sg) = "retrieve" <=>
                 st \in Active /\ sg \in {"extracted", "retrieving"} /\ ~StoreOnly
           /\ PendingOf(st, sg) = "verify" <=> st \in Active /\ sg \in {"retrieved", "verifying"}
           /\ PendingOf(st, sg) = "finalize" <=>
                 st \in Active /\ (\/ sg \in {"verified", "finalizing"}
                                   \/ sg \in {"extracted", "retrieving"} /\ StoreOnly)
<1>1. None \notin {"extract", "retrieve", "verify", "finalize"} /\ StoreOnly \in BOOLEAN
    BY NoneAssumption, PolicyAssumption DEF Stages
<1>2. CASE st \notin Active
    <2>1. PendingOf(st, sg) = None
        BY <1>2 DEF PendingOf
    <2> QED  BY <1>1, <1>2, <2>1
<1>3. CASE st \in Active /\ sg \in {"uploaded", "extracting"}
    BY <1>1, <1>3 DEF PendingOf
<1>4. CASE st \in Active /\ sg \in {"extracted", "retrieving"}
    <2>1. PendingOf(st, sg) = IF StoreOnly THEN "finalize" ELSE "retrieve"
        BY <1>4 DEF PendingOf
    <2> QED  BY <1>1, <1>4, <2>1
<1>5. CASE st \in Active /\ sg \in {"retrieved", "verifying"}
    BY <1>1, <1>5 DEF PendingOf
<1>6. CASE st \in Active /\ sg \in {"verified", "finalizing"}
    BY <1>1, <1>6 DEF PendingOf
<1>7. CASE /\ st \in Active
           /\ sg \notin {"uploaded", "extracting", "extracted", "retrieving", "retrieved", "verifying",
                          "verified", "finalizing"}
    <2>1. PendingOf(st, sg) = None
        BY <1>7 DEF PendingOf
    <2> QED  BY <1>1, <1>7, <2>1
<1> QED  BY <1>2, <1>3, <1>4, <1>5, <1>6, <1>7

\* A step that leaves the job's results, marks and records alone.
Quiet == /\ UNCHANGED <<status, stage, results, summary, input, expired, store>>
         /\ Marks(evidence') = Marks(evidence)

LEMMA StepKinds ==
    ASSUME TypeInv, [Next]_vars
    PROVE  \/ Quiet \/ ExpireInput \/ CleanStaleInput \/ UploadInput
           \/ \E w \in Workers :
                 \/ EnterStage(w) \/ ExtractPaper(w) \/ RetrievalDone(w) \/ VerificationDone(w)
                 \/ FinalizePaper(w) \/ StartCleanup(w) \/ RollBackRefresh(w) \/ FailJob(w)
                 \/ \E r \in Refs : RetrieveSource(w, r) \/ VerifySource(w, r)
                 \/ \E m \in Messages : StartStage(w, m)
           \/ \E p \in Processes : DeleteInput(p)
           \/ \E refs \in SUBSET Refs : SearchAgain(refs)
           \/ \E r \in Refs : AdoptUpload(r)
<1>1. evidence \in Evidence
    BY DEF TypeInv, TypeOK
<1>2. CASE UNCHANGED vars \/ QueueJob
    BY <1>1, <1>2 DEF vars, row, QueueJob, PrepareDispatch, Evidence, Quiet, Marks
<1>3. CASE LeaseEnds \/ ClaimDispatch
    BY <1>1, <1>3 DEF LeaseEnds, ClaimDispatch, Evidence, Quiet, Marks
<1>4. ASSUME NEW m \in Messages, NEW w \in Workers,
             LoseMessage(m) \/ IgnoreBusy(w, m) \/ IgnoreStale(w, m) \/ SkipStage(w, m) \/ ExhaustStage(w, m)
      PROVE  Quiet
    BY <1>4 DEF LoseMessage, IgnoreBusy, IgnoreStale, SkipStage, ExhaustStage, row, Quiet, Marks
<1>5. ASSUME NEW m \in Messages, LoseMessage(m) PROVE Quiet
    BY <1>5 DEF LoseMessage, row, Quiet, Marks
<1>6. ASSUME NEW r \in Refs, Uploads(r), ~AdoptUpload(r) PROVE Quiet
    BY <1>1, <1>6 DEF Uploads, UploadSource, RetryUpload, QueueUpload, DequeueUpload, Queued, row, Evidence,
       Quiet, Marks
<1>7. ASSUME NEW w \in Workers,
             \/ CheckReport(w) \/ ReturnStage(w) \/ IgnoreOutdatedFailure(w) \/ WorkerFaults(w)
      PROVE  Quiet
    BY <1>7 DEF CheckReport, ReturnStage, IgnoreOutdatedFailure, WorkerFaults, StageRaises, FailureNotSaved,
       CleanupRaises, row, Quiet, Marks
<1>8. ASSUME NEW w \in Workers, RetryStage(w) PROVE Quiet
    BY <1>1, <1>8 DEF RetryStage, Evidence, Quiet, Marks
<1>9. ASSUME NEW p \in Processes, Faults(p) PROVE Quiet
    BY <1>9 DEF Faults, LoseConnection, LoseOwnership, Crash, row, Quiet, Marks
<1> QED  BY <1>2, <1>3, <1>4, <1>5, <1>6, <1>7, <1>8, <1>9 DEF Next, WorkerStep, Delivery, Uploads

\* How the process that holds the job has come to where it is.
Stays(p) == owner = p /\ proc'[p] = proc[p]

LEMMA Phases ==
    ASSUME TypeInv, [Next]_vars, NEW p \in Processes, owner' = p
    PROVE  /\ proc'[p].pc = "entered" =>
                 \/ Stays(p)
                 \/ p \in Workers /\ (EnterStage(p) \/ \E r \in Refs : VerifySource(p, r))
           /\ proc'[p].pc = "published" => Stays(p) \/ (p \in Workers /\ FinalizePaper(p))
           /\ proc'[p].pc = "checked" =>
                 Stays(p) \/ (p \in Workers /\ (ExtractPaper(p) \/ CheckReport(p) \/ FailJob(p)))
           /\ proc'[p].pc = "deleting" =>
                 \/ Stays(p)
                 \/ p \in Workers /\ StartCleanup(p)
                 \/ p = Cleaner /\ CleanStaleInput
<1> DEFINE Goal == /\ proc'[p].pc = "entered" =>
                         \/ Stays(p)
                         \/ p \in Workers /\ (EnterStage(p) \/ \E r \in Refs : VerifySource(p, r))
                   /\ proc'[p].pc = "published" => Stays(p) \/ (p \in Workers /\ FinalizePaper(p))
                   /\ proc'[p].pc = "checked" =>
                         Stays(p) \/ (p \in Workers /\ (ExtractPaper(p) \/ CheckReport(p) \/ FailJob(p)))
                   /\ proc'[p].pc = "deleting" =>
                         \/ Stays(p)
                         \/ p \in Workers /\ StartCleanup(p)
                         \/ p = Cleaner /\ CleanStaleInput
<1>1. /\ proc \in [Processes -> Execution] /\ None \notin Processes
      /\ Intake \in Processes /\ Cleaner \in Processes /\ Intake # Cleaner
      /\ \A w \in Workers : w \in Processes /\ w # Intake /\ w # Cleaner
    BY ProcessAssumption DEF TypeInv, TypeOK, Processes
<1>2. ASSUME UNCHANGED <<owner, proc>> PROVE Goal
    BY <1>2 DEF Stays
<1>3. ASSUME NEW x, Release(x) PROVE FALSE
    BY <1>1, <1>3 DEF Release
<1>4. CASE \/ UNCHANGED vars \/ LeaseEnds \/ ClaimDispatch \/ ExpireInput
           \/ \E m \in Messages : LoseMessage(m)
           \/ \E x \in Workers, m \in Messages : IgnoreBusy(x, m) \/ IgnoreStale(x, m) \/ SkipStage(x, m)
           \/ \E refs \in SUBSET Refs : SearchAgain(refs)
           \/ \E r \in Refs : Uploads(r)
           \/ \E x \in Workers, r \in Refs : RetrieveSource(x, r)
    <2>1. UNCHANGED <<owner, proc>>
        BY <1>4 DEF vars, LeaseEnds, ClaimDispatch, ExpireInput, LoseMessage, IgnoreBusy,
           IgnoreStale, SkipStage, SearchAgain, Uploads, UploadSource, QueueUpload, RetryUpload,
           DequeueUpload, Queued, AdoptUpload, BeginRefresh, RetrieveSource
    <2> QED  BY <1>2, <2>1
<1>5. CASE UploadInput \/ QueueJob
    BY <1>1, <1>3, <1>5 DEF UploadInput, QueueJob, Goto, At, Execution
<1>6. CASE CleanStaleInput
    BY <1>1, <1>6 DEF CleanStaleInput, Execution
<1>7. ASSUME NEW x \in Workers, NEW m \in Messages, StartStage(x, m) \/ ExhaustStage(x, m) PROVE Goal
    BY <1>1, <1>7 DEF StartStage, ExhaustStage, Idle
<1>8. ASSUME NEW x \in Workers,
             \/ ReturnStage(x) \/ IgnoreOutdatedFailure(x) \/ RetryStage(x) \/ RollBackRefresh(x)
             \/ FailureNotSaved(x) \/ CleanupRaises(x)
      PROVE  FALSE
    BY <1>3, <1>8 DEF ReturnStage, IgnoreOutdatedFailure, RetryStage, RollBackRefresh, FailureNotSaved,
       CleanupRaises
<1>9. ASSUME NEW x \in Workers, EnterStage(x) \/ FinalizePaper(x) \/ FailJob(x) \/ StageRaises(x)
      PROVE  Goal
    <2>1. x = p
        BY <1>1, <1>9 DEF EnterStage, FinalizePaper, Working, Raised, FailJob, StageRaises, At
    <2>2. proc[p] \in Execution
        BY <1>1
    <2>3. CASE EnterStage(p)
        <3>1. proc'[p].pc = "entered"
            BY <1>1, <2>2, <2>3 DEF EnterStage, Execution
        <3> QED  BY <1>1, <1>9, <2>1, <2>3, <3>1
    <2>4. CASE FinalizePaper(p)
        <3>1. proc'[p].pc = "published"
            BY <1>1, <2>2, <2>4 DEF FinalizePaper, Execution
        <3> QED  BY <1>1, <1>9, <2>1, <2>4, <3>1
    <2>5. CASE FailJob(p)
        <3>1. proc'[p].pc = "checked"
            BY <1>1, <2>2, <2>5 DEF FailJob, Execution
        <3> QED  BY <1>1, <1>9, <2>1, <2>5, <3>1
    <2>6. CASE StageRaises(p)
        BY <1>1, <2>6 DEF StageRaises, Idle
    <2> QED  BY <1>9, <2>1, <2>3, <2>4, <2>5, <2>6
<1>10. ASSUME NEW x \in Workers,
              \/ CheckReport(x) \/ ExtractPaper(x) \/ RetrievalDone(x) \/ VerificationDone(x)
              \/ \E r \in Refs : VerifySource(x, r)
       PROVE  Goal
    <2>1. x = p
        <3>1. owner = x /\ owner' = owner
            <4>1. CASE CheckReport(x) \/ ExtractPaper(x)
                BY <4>1 DEF CheckReport, ExtractPaper, Working, At, Goto
            <4>2. CASE RetrievalDone(x) \/ VerificationDone(x)
                BY <4>2 DEF RetrievalDone, VerificationDone, Working, At, Goto
            <4>3. ASSUME NEW r \in Refs, VerifySource(x, r) PROVE owner = x /\ owner' = owner
                BY <4>3 DEF VerifySource, Working, At
            <4> QED  BY <1>10, <4>1, <4>2, <4>3
        <3> QED  BY <3>1
    <2>2. proc[p] \in Execution
        BY <1>1
    <2>3. ASSUME NEW pc, Goto(x, pc) PROVE proc'[p].pc = pc
        BY <1>1, <2>1, <2>2, <2>3 DEF Goto, Execution
    <2>4. CASE CheckReport(x) \/ ExtractPaper(x)
        <3>1. proc'[p].pc \in {"returning", "checked"}
            <4>1. CASE CheckReport(x)
                BY <1>1, <2>1, <2>2, <4>1 DEF CheckReport, Execution
            <4>2. CASE ExtractPaper(x)
                <5>1. Goto(x, IF KeepPolicy THEN "returning" ELSE "checked")
                    BY <4>2 DEF ExtractPaper
                <5> QED  BY <2>3, <5>1
            <4> QED  BY <2>4, <4>1, <4>2
        <3> QED  BY <2>1, <2>4, <3>1
    <2>5. CASE RetrievalDone(x) \/ VerificationDone(x)
        <3>1. proc'[p].pc = "returning"
            BY <2>3, <2>5 DEF RetrievalDone, VerificationDone
        <3> QED  BY <3>1
    <2>6. CASE \E r \in Refs : VerifySource(x, r)
        <3>1. proc'[p].pc = proc[p].pc /\ proc[p].pc = "entered"
            BY <1>1, <2>1, <2>2, <2>6 DEF VerifySource, Working, At, Execution
        <3> QED  BY <2>1, <2>6, <3>1
    <2> QED  BY <1>10, <2>4, <2>5, <2>6
<1>11. ASSUME NEW x \in Workers, StartCleanup(x) PROVE Goal
    <2>1. x = p /\ p \in Workers
        BY <1>1, <1>3, <1>11 DEF StartCleanup, AfterCleanup, Goto, At
    <2>2. proc'[p].pc \in {"returning", "deleting"}
        <3> proc[p] \in Execution /\ StartCleanup(p)
            BY <1>1, <1>11, <2>1
        <3>1. CASE input = "deleted"
            BY <1>1, <1>3, <3>1 DEF StartCleanup, AfterCleanup, Goto, Execution
        <3>2. CASE input # "deleted"
            <4>1. proc'[p] = [proc[p] EXCEPT !.pc = "deleting", !.copy = evidence']
                BY <1>1, <3>2 DEF StartCleanup
            <4> QED  BY <4>1 DEF Execution
        <3> QED  BY <3>1, <3>2
    <2> QED  BY <1>11, <2>1, <2>2
<1>12. ASSUME NEW x \in Processes, DeleteInput(x) PROVE Goal
    BY <1>1, <1>3, <1>12 DEF DeleteInput, AfterCleanup, Goto, At, Execution
<1>13. ASSUME NEW x \in Processes, Faults(x) PROVE Goal
    BY <1>1, <1>3, <1>13 DEF Faults, LoseConnection, LoseOwnership, Crash, Stays
<1> QED  BY <1>4, <1>5, <1>6, <1>7, <1>8, <1>9, <1>10, <1>11, <1>12, <1>13
         DEF Next, WorkerStep, WorkerFaults, Delivery

-----------------------------------------------------------------------------
(* The uploaded file stays until the paper is extracted. *)

Holds(p, pcs) == owner = p /\ proc[p].pc \in pcs

InputInv ==
    /\ InputAwaitsExtraction
    /\ \A p \in Processes : Holds(p, {"published", "checked", "deleting"}) =>
          PendingStage # "extract" \/ expired

\* A job that has left its extraction does not come back to it, and one that
\* waits for it stays expired.
LEMMA ExtractPending ==
    ASSUME TypeInv, StageOwnsJob, [Next]_vars, PendingStage' = "extract"
    PROVE  PendingStage = "extract" /\ (expired => expired')
<1>1. status' \in Active /\ stage' \in {"uploaded", "extracting"}
    BY PendingIs DEF PendingStage
<1> SUFFICES status \in Active /\ stage \in {"uploaded", "extracting"} /\ (expired => expired')
    BY PendingIs DEF PendingStage
<1>2. CASE Quiet \/ ExpireInput \/ CleanStaleInput \/ UploadInput
    BY <1>1, <1>2 DEF Quiet, ExpireInput, CleanStaleInput, UploadInput, Active
<1>3. ASSUME NEW w \in Workers, EnterStage(w) PROVE status \in Active /\ stage \in {"uploaded", "extracting"}
    <2>1. status \in Active /\ PendingStage = proc[w].task.stage /\ proc[w].task \in Messages
        BY <1>3, ProcessAssumption
           DEF EnterStage, At, StageOwnsJob, Matches, TypeInv, ProcOK, WellFormed, Processes
    <2>2. proc[w].task.stage = "extract"
        BY <1>1, <1>3, <2>1 DEF EnterStage, EnteredAs, Messages, Stages
    <2> QED  BY <2>1, <2>2, PendingIs DEF PendingStage
<1>4. ASSUME NEW w \in Workers,
             \/ EnterStage(w) \/ StartCleanup(w)
             \/ \E r \in Refs : RetrieveSource(w, r) \/ VerifySource(w, r)
             \/ \E m \in Messages : StartStage(w, m)
      PROVE  expired' = expired /\ (EnterStage(w) \/ (status \in Active /\ stage' = stage))
    BY <1>1, <1>4 DEF EnterStage, StartCleanup, RetrieveSource, VerifySource, StartStage, Matches, row
<1>5. ASSUME NEW w \in Workers,
             \/ ExtractPaper(w) \/ RetrievalDone(w) \/ VerificationDone(w) \/ FinalizePaper(w)
             \/ RollBackRefresh(w) \/ FailJob(w)
      PROVE  FALSE
    BY <1>1, <1>5 DEF ExtractPaper, RetrievalDone, VerificationDone, FinalizePaper, RollBackRefresh, FailJob
<1>6. ASSUME NEW p \in Processes, DeleteInput(p)
      PROVE  UNCHANGED <<status, stage>> /\ (expired => expired')
    BY <1>6 DEF DeleteInput
<1>7. ASSUME \/ \E refs \in SUBSET Refs : SearchAgain(refs)
             \/ \E r \in Refs : AdoptUpload(r)
      PROVE  FALSE
    BY <1>1, <1>7 DEF SearchAgain, AdoptUpload, BeginRefresh
<1> QED  BY <1>1, <1>2, <1>3, <1>4, <1>5, <1>6, <1>7, StepKinds

LEMMA InputStep == TypeInv /\ StageOwnsJob /\ InputInv /\ [Next]_vars => InputInv'
<1> SUFFICES ASSUME TypeInv, StageOwnsJob, InputInv, [Next]_vars, PendingStage' = "extract", ~expired'
             PROVE  /\ input' = "stored" /\ ~evidence'.cleanup_started
                    /\ \A p \in Processes : ~Holds(p, {"published", "checked", "deleting"})'
    BY DEF InputInv, InputAwaitsExtraction
<1> DEFINE Kept == input' = "stored" /\ ~evidence'.cleanup_started
<1>1. /\ PendingStage = "extract" /\ ~expired
      /\ input = "stored" /\ ~evidence.cleanup_started
      /\ \A p \in Processes : ~Holds(p, {"published", "checked", "deleting"})
    BY ExtractPending DEF InputInv, InputAwaitsExtraction
<1>2. status \in Active /\ status' \in Active /\ stage' \in {"uploaded", "extracting"}
    BY <1>1, PendingIs DEF PendingStage
<1>3. evidence \in Evidence /\ \A w \in Workers : w \in Processes
    BY DEF TypeInv, TypeOK, Processes
<1>4. ~CleanStaleInput
    BY <1>1, <1>2 DEF CleanStaleInput, CleanupDue, Active, Terminal
<1>5. ASSUME NEW w \in Workers PROVE ~StartCleanup(w) /\ ~CheckReport(w)
    BY <1>1, <1>3 DEF StartCleanup, CheckReport, Working, At, Holds
<1>6. ASSUME NEW p \in Processes PROVE ~DeleteInput(p)
    BY <1>1 DEF DeleteInput, At, Holds
<1>7. ASSUME NEW w \in Workers
      PROVE  /\ ~ExtractPaper(w) /\ ~RetrievalDone(w) /\ ~VerificationDone(w) /\ ~FinalizePaper(w)
             /\ ~RollBackRefresh(w) /\ ~FailJob(w)
    BY <1>2 DEF ExtractPaper, RetrievalDone, VerificationDone, FinalizePaper, RollBackRefresh, FailJob, Active
<1>8. Kept
    <2>1. CASE Quiet \/ ExpireInput \/ UploadInput
        BY <1>1, <1>3, <2>1 DEF Quiet, Marks, ExpireInput, UploadInput, Evidence
    <2>2. ASSUME NEW w \in Workers,
                 \/ EnterStage(w) \/ \E r \in Refs : RetrieveSource(w, r) \/ VerifySource(w, r)
                 \/ \E m \in Messages : StartStage(w, m)
          PROVE  Kept
        BY <1>1, <1>3, <2>2 DEF EnterStage, RetrieveSource, VerifySource, StartStage, row, Evidence
    <2>3. ASSUME \/ \E refs \in SUBSET Refs : SearchAgain(refs)
                 \/ \E r \in Refs : AdoptUpload(r)
          PROVE  FALSE
        BY <1>2, <2>3 DEF SearchAgain, AdoptUpload, BeginRefresh
    <2> QED  BY <1>4, <1>5, <1>6, <1>7, <2>1, <2>2, <2>3, StepKinds
<1>9. ASSUME NEW p \in Processes, Holds(p, {"published", "checked", "deleting"})' PROVE FALSE
    <2>1. Stays(p)
        BY <1>4, <1>5, <1>7, <1>9, Phases DEF Holds
    <2> QED  BY <1>1, <1>9, <2>1 DEF Stays, Holds
<1> QED  BY <1>8, <1>9

\* Until the extraction is checkpointed, the file of an unexpired job is there
\* and is not being cleaned up: only an execution that is past its checkpoint,
\* or has failed the job, comes to cleanup_paper_job_input, and the scheduled
\* clean-up takes finished or expired jobs only.
THEOREM InputStays == Spec => []InputAwaitsExtraction
<1>1. Init => StageOwnsJob /\ InputInv
    <2> SUFFICES ASSUME Init PROVE StageOwnsJob /\ InputInv
        OBVIOUS
    <2>1. input = "stored" /\ ~evidence.cleanup_started
        BY DEF Init
    <2>2. owner = Intake /\ proc[Intake].pc = "uploading" /\ Intake \notin Workers
        BY ProcessAssumption DEF Init, Processes, Idle
    <2> QED  BY <2>1, <2>2 DEF StageOwnsJob, InputInv, InputAwaitsExtraction, Holds
<1>2. InputInv => InputAwaitsExtraction
    BY DEF InputInv
<1> QED  BY <1>1, <1>2, InitType, StepType, StageOwnsJobStep, InputStep, PTL DEF Spec

-----------------------------------------------------------------------------
(* A file kept for checking again stays until its period ends. *)

\* While a process that is past its stage waits with the lock, the job changes
\* by a refresh or by the end of the input's period only.
LEMMA Waits ==
    ASSUME TypeInv, [Next]_vars, NEW p \in Processes, owner' = p, Stays(p),
           proc[p].pc \in {"published", "checked", "deleting"}
    PROVE  \/ Quiet \/ ExpireInput
           \/ \E refs \in SUBSET Refs : SearchAgain(refs)
           \/ \E r \in Refs : AdoptUpload(r)
<1>1. owner = p /\ proc'[p] = proc[p] /\ p # None /\ p \in Processes
    BY ProcessAssumption DEF Stays
<1>2. proc \in [Processes -> Execution] /\ proc[p] \in Execution
    BY DEF TypeInv, TypeOK
<1>3. ~CleanStaleInput /\ ~UploadInput
    BY <1>1 DEF CleanStaleInput, UploadInput, At
<1>4. ASSUME NEW w \in Workers
      PROVE  /\ ~EnterStage(w) /\ ~ExtractPaper(w) /\ ~RetrievalDone(w) /\ ~VerificationDone(w)
             /\ ~FinalizePaper(w) /\ ~RollBackRefresh(w) /\ ~FailJob(w)
             /\ \A r \in Refs : ~RetrieveSource(w, r) /\ ~VerifySource(w, r)
             /\ \A m \in Messages : ~StartStage(w, m)
    BY <1>1, <1>4 DEF EnterStage, ExtractPaper, RetrievalDone, VerificationDone, FinalizePaper,
       RollBackRefresh, FailJob, Raised, RetrieveSource, VerifySource, StartStage, Working, At
<1>5. ASSUME AfterCleanup(p), proc[p].pc # "returning" PROVE FALSE
    BY <1>1, <1>2, <1>5 DEF AfterCleanup, Release, Goto, Execution
<1>6. ASSUME NEW w \in Workers, StartCleanup(w) PROVE FALSE
    <2>1. w = p /\ proc[p].pc = "checked"
        BY <1>1, <1>6 DEF StartCleanup, At
    <2>2. CASE input = "deleted"
        BY <1>5, <1>6, <2>1, <2>2 DEF StartCleanup
    <2>3. CASE input # "deleted"
        <3>1. proc'[p] = [proc[p] EXCEPT !.pc = "deleting", !.copy = evidence']
            BY <1>2, <1>6, <2>1, <2>3 DEF StartCleanup
        <3> QED  BY <1>1, <1>2, <2>1, <3>1 DEF Execution
    <2> QED  BY <2>2, <2>3
<1>7. ASSUME NEW x \in Processes, DeleteInput(x) PROVE FALSE
    BY <1>1, <1>5, <1>7 DEF DeleteInput, At
<1> QED  BY <1>3, <1>4, <1>6, <1>7, StepKinds

\* What such a step leaves alone.
LEMMA WaitsKeep ==
    ASSUME TypeInv,
           \/ Quiet \/ ExpireInput
           \/ \E refs \in SUBSET Refs : SearchAgain(refs)
           \/ \E r \in Refs : AdoptUpload(r)
    PROVE  /\ UNCHANGED <<input, summary, records, reports>> /\ (expired => expired')
           /\ evidence'.kept = evidence.kept
           /\ evidence'.cleanup_started = evidence.cleanup_started
<1>1. evidence \in Evidence
    BY DEF TypeInv, TypeOK
<1>2. CASE Quiet \/ ExpireInput
    BY <1>2 DEF Quiet, Marks, ExpireInput, store
<1>3. ASSUME NEW refs, NEW newResults, NEW newStage, BeginRefresh(refs, newResults, newStage)
      PROVE  /\ UNCHANGED <<input, summary, expired, records, reports>>
             /\ evidence'.kept = evidence.kept
             /\ evidence'.cleanup_started = evidence.cleanup_started
    BY <1>1, <1>3 DEF BeginRefresh, PrepareDispatch, Evidence, store
<1> QED  BY <1>2, <1>3 DEF SearchAgain, AdoptUpload

\* A clean-up that has begun works with the column as it has just written it.
LEMMA CleanupCopies ==
    ASSUME TypeInv, NEW p \in Workers, StartCleanup(p), owner' = p, proc'[p].pc = "deleting"
    PROVE  /\ input # "deleted" /\ Holds(p, {"checked"}) /\ proc[p].copy \in Evidence
           /\ proc'[p].copy = evidence'
           /\ evidence' = [proc[p].copy EXCEPT !.cleanup_started = TRUE]
<1>1. /\ Holds(p, {"checked"}) /\ proc[p].copy \in Evidence /\ proc[p] \in Execution
      /\ proc \in [Processes -> Execution] /\ p \in Processes /\ p # None
    BY EnteredFacts, ProcessAssumption DEF StartCleanup, At, Holds, TypeInv, TypeOK, Processes
<1>2. input # "deleted"
    <2> SUFFICES ASSUME input = "deleted" PROVE FALSE
        OBVIOUS
    <2>1. AfterCleanup(p)
        BY DEF StartCleanup
    <2> QED  BY <1>1, <2>1 DEF AfterCleanup, Release, Goto, Execution
<1>3. proc'[p] = [proc[p] EXCEPT !.pc = "deleting", !.copy = evidence']
    BY <1>1, <1>2 DEF StartCleanup
<1> QED  BY <1>1, <1>2, <1>3 DEF StartCleanup, Execution

\* A file is kept under the policy and with a report; a process that is about
\* to clean up does so for a kept file after its period only.
MayKeep == KeepPolicy /\ reports # <<>>
KeptInv ==
    /\ KeptFileStays
    /\ evidence.kept => MayKeep
    /\ \A w \in Workers : Holds(w, {"published"}) /\ proc[w].copy.cleanup_started =>
          evidence.cleanup_started
    /\ \A p \in Processes : Holds(p, {"checked", "deleting"}) =>
          /\ proc[p].copy.kept \/ evidence.kept => expired
          /\ proc[p].copy.kept => MayKeep

\* What finalize writes to upload_evidence.
LEMMA FinalizeMarks ==
    ASSUME TypeInv, CopyInv, NEW w \in Workers, FinalizePaper(w)
    PROVE  /\ Marks(proc'[w].copy) = Marks(evidence')
           /\ evidence'.cleanup_started = evidence.cleanup_started
           /\ evidence'.kept = (evidence.kept \/ KeepFile(w))
           /\ evidence'.targeted = IF RefreshRefs(evidence) = {} THEN evidence.targeted ELSE None
           /\ KeepFile(w) => KeepPolicy /\ input = "stored" /\ ~evidence.cleanup_started
<1>1. /\ owner = w /\ proc[w].pc = "entered" /\ w \in Processes
      /\ proc[w] \in Execution /\ proc[w].copy \in Evidence /\ evidence \in Evidence
      /\ proc \in [Processes -> Execution]
    BY EnteredFacts DEF FinalizePaper, Working, At, TypeInv, TypeOK
<1> DEFINE copy == proc[w].copy
           kept == IF KeepFile(w) THEN [copy EXCEPT !.kept = TRUE] ELSE copy
           done == IF RefreshRefs(copy) = {} THEN kept ELSE [kept EXCEPT !.targeted = None]
<1>2. /\ copy.cleanup_started = evidence.cleanup_started /\ copy.kept = evidence.kept
      /\ copy.targeted = evidence.targeted
    BY <1>1 DEF CopyInv, Marks
<1>3. /\ evidence' = IF KeepFile(w) \/ RefreshRefs(copy) # {} THEN done ELSE evidence
      /\ proc'[w] = [proc[w] EXCEPT !.pc = "published", !.copy = done]
    BY <1>1 DEF FinalizePaper
<1>4. proc'[w].copy = done
    <2> HIDE DEF done
    <2> QED  BY <1>1, <1>3 DEF Execution
<1>5. RefreshRefs(copy) = RefreshRefs(evidence) /\ KeepFile(w) \in BOOLEAN
    BY <1>2 DEF RefreshRefs, KeepFile
<1>6. KeepFile(w) => KeepPolicy /\ input = "stored" /\ ~evidence.cleanup_started
    BY <1>2 DEF KeepFile
<1>7. kept \in Evidence /\ copy.kept \in BOOLEAN
    BY <1>1 DEF Evidence
<1>8. /\ kept.cleanup_started = evidence.cleanup_started /\ kept.targeted = evidence.targeted
      /\ kept.kept = (evidence.kept \/ KeepFile(w))
    BY <1>1, <1>2, <1>5, <1>7 DEF Evidence
<1> HIDE DEF kept
<1>9. /\ done.cleanup_started = evidence.cleanup_started
      /\ done.kept = (evidence.kept \/ KeepFile(w))
      /\ done.targeted = IF RefreshRefs(evidence) = {} THEN evidence.targeted ELSE None
    BY <1>5, <1>7, <1>8 DEF Evidence
<1> HIDE DEF done, copy
<1>10. CASE KeepFile(w) \/ RefreshRefs(copy) # {}
    BY <1>3, <1>4, <1>6, <1>9, <1>10 DEF Marks
<1>11. CASE ~KeepFile(w) /\ RefreshRefs(copy) = {}
    <2>1. evidence.kept \in BOOLEAN /\ evidence' = evidence
        BY <1>1, <1>3, <1>11 DEF Evidence
    <2> QED  BY <1>4, <1>5, <1>6, <1>9, <1>11, <2>1 DEF Marks
<1> QED  BY <1>10, <1>11

LEMMA KeptStep ==
    TypeInv /\ StageOwnsJob /\ MarkInv /\ CopyInv /\ KeptInv /\ [Next]_vars => KeptInv'
<1> SUFFICES ASSUME TypeInv, StageOwnsJob, MarkInv, CopyInv, KeptInv, [Next]_vars
             PROVE  KeptInv'
    OBVIOUS
<1> DEFINE Row == /\ evidence.kept => MayKeep
                  /\ evidence.kept /\ ~expired => input = "stored" /\ ~evidence.cleanup_started
<1>1. /\ evidence \in Evidence /\ proc \in [Processes -> Execution] /\ evidence' \in Evidence
      /\ \A w \in Workers : w \in Processes /\ w # Intake /\ w # Cleaner
      /\ reports \in Seq(Reports)
    BY StepType, ProcessAssumption DEF TypeInv, TypeOK, Processes
<1>2. Row
    BY DEF KeptInv, KeptFileStays
<1>3. Row'
    <2>1. CASE \/ Quiet \/ ExpireInput \/ \E refs \in SUBSET Refs : SearchAgain(refs)
               \/ \E r \in Refs : AdoptUpload(r)
        BY <1>2, <2>1, WaitsKeep DEF MayKeep
    <2>2. CASE CleanStaleInput
        BY <1>1, <1>2, <2>2 DEF CleanStaleInput, CleanupDue, Evidence, MayKeep, store
    <2>3. CASE UploadInput
        BY <1>1, <1>2, <2>3 DEF UploadInput, Evidence, MayKeep, store
    <2>4. ASSUME NEW w \in Workers,
                 \/ EnterStage(w) \/ ExtractPaper(w) \/ RetrievalDone(w) \/ VerificationDone(w)
                 \/ RollBackRefresh(w) \/ FailJob(w)
                 \/ \E r \in Refs : RetrieveSource(w, r) \/ VerifySource(w, r)
                 \/ \E m \in Messages : StartStage(w, m)
          PROVE  Row'
        <3>1. /\ UNCHANGED <<input, expired, reports>> /\ evidence'.kept = evidence.kept
              /\ evidence'.cleanup_started = evidence.cleanup_started
            BY <1>1, <2>4 DEF EnterStage, ExtractPaper, RetrievalDone, VerificationDone, RollBackRefresh,
               FailJob, RetrieveSource, VerifySource, StartStage, row, store, Evidence
        <3> QED  BY <1>2, <3>1 DEF MayKeep
    <2>5. ASSUME NEW w \in Workers, FinalizePaper(w) PROVE Row'
        <3>1. input' = input /\ expired' = (IF KeepFile(w) THEN FALSE ELSE expired)
            BY <2>5 DEF FinalizePaper
        <3>2. reports' # <<>>
            BY <1>1, <2>5 DEF FinalizePaper
        <3> QED  BY <1>2, <2>5, <3>1, <3>2, FinalizeMarks DEF MayKeep
    <2>6. ASSUME NEW w \in Workers, StartCleanup(w) PROVE Row'
        <3>1. Holds(w, {"checked", "deleting"}) /\ UNCHANGED <<input, expired, reports>>
            BY <2>6 DEF StartCleanup, At, Holds, store
        <3>2. proc[w].copy \in Evidence
            BY <2>6, EnteredFacts DEF StartCleanup, At
        <3>3. CASE input = "deleted"
            BY <1>2, <2>6, <3>1, <3>3 DEF StartCleanup, MayKeep
        <3>4. CASE input # "deleted"
            <4>1. evidence'.kept = proc[w].copy.kept
                BY <2>6, <3>2, <3>4 DEF StartCleanup, Evidence
            <4> QED  BY <1>1, <3>1, <4>1 DEF KeptInv, MayKeep
        <3> QED  BY <3>3, <3>4
    <2>7. ASSUME NEW p \in Processes, DeleteInput(p) PROVE Row'
        <3>1. /\ Holds(p, {"checked", "deleting"}) /\ reports' = reports /\ (expired => expired')
              /\ evidence' \in {evidence, proc[p].copy}
            BY <2>7 DEF DeleteInput, At, Holds, store
        <3> QED  BY <1>2, <3>1 DEF KeptInv, MayKeep
    <2> QED  BY <2>1, <2>2, <2>3, <2>4, <2>5, <2>6, <2>7, StepKinds
<1>4. ASSUME NEW w \in Workers, Holds(w, {"published"})', proc'[w].copy.cleanup_started
      PROVE  evidence'.cleanup_started
    <2>1. CASE Stays(w)
        BY <1>1, <1>4, <2>1, Waits, WaitsKeep DEF Stays, Holds, KeptInv
    <2>2. CASE FinalizePaper(w)
        BY <1>4, <2>2, FinalizeMarks DEF Marks
    <2> QED  BY <1>1, <1>4, <2>1, <2>2, Phases DEF Holds
<1>5. ASSUME NEW p \in Processes, Holds(p, {"checked", "deleting"})'
      PROVE  /\ proc'[p].copy.kept \/ evidence'.kept => expired'
             /\ proc'[p].copy.kept => MayKeep'
    <2> DEFINE Goal == /\ proc'[p].copy.kept \/ evidence'.kept => expired'
                       /\ proc'[p].copy.kept => MayKeep'
    <2>1. CASE Stays(p)
        <3>1. Holds(p, {"checked", "deleting"})
            BY <1>5, <2>1 DEF Stays, Holds
        <3>2. proc[p].pc \in {"published", "checked", "deleting"}
            BY <3>1 DEF Holds
        <3> QED  BY <1>5, <2>1, <3>1, <3>2, Waits, WaitsKeep DEF Stays, Holds, KeptInv, MayKeep
    <2>2. CASE p \in Workers /\ ExtractPaper(p)
        <3>1. proc[p] \in Execution /\ Goto(p, IF KeepPolicy THEN "returning" ELSE "checked")
            BY <1>1, <2>2 DEF ExtractPaper
        <3>2. proc'[p].copy = proc[p].copy /\ ~KeepPolicy
            BY <1>1, <1>5, <3>1 DEF Goto, Execution, Holds
        <3>3. proc[p].copy.kept = evidence.kept /\ evidence' = evidence
            BY <2>2 DEF ExtractPaper, Working, At, CopyInv, Marks
        <3> QED  BY <1>2, <3>2, <3>3 DEF MayKeep
    <2>3. CASE p \in Workers /\ CheckReport(p)
        <3>1. /\ Holds(p, {"published"}) /\ proc[p] \in Execution
              /\ UNCHANGED <<evidence, expired, reports>>
            BY <1>1, <2>3 DEF CheckReport, Working, At, Holds, row, store
        <3>2. proc'[p].copy = evidence /\ ~KeepFile(p)
            BY <1>1, <1>5, <2>3, <3>1 DEF CheckReport, Execution, Holds
        <3>3. evidence.kept => expired
            BY <1>2, <2>3, <3>1, <3>2 DEF KeptInv, KeepFile, MayKeep
        <3> QED  BY <1>2, <3>1, <3>2, <3>3 DEF MayKeep
    <2>4. CASE p \in Workers /\ FailJob(p)
        <3>1. /\ status \in Active /\ evidence.targeted = None /\ UNCHANGED <<evidence, expired, reports>>
            BY <2>4 DEF FailJob, Matches, store
        <3>2. proc'[p].copy = evidence
            BY <1>1, <2>4 DEF FailJob, Execution
        <3>3. evidence.kept => expired
            BY <1>2, <3>1 DEF MarkInv, MarkedUntilCleanup, RunningRefreshIsMarked, MayKeep
        <3> QED  BY <1>2, <3>1, <3>2, <3>3 DEF MayKeep
    <2>5. CASE p \in Workers /\ StartCleanup(p) /\ proc'[p].pc = "deleting"
        <3>1. /\ Holds(p, {"checked", "deleting"}) /\ UNCHANGED <<expired, reports>>
            BY <2>5 DEF StartCleanup, At, Holds, store
        <3>2. proc'[p].copy = evidence' /\ evidence'.kept = proc[p].copy.kept
            BY <1>5, <2>5, CleanupCopies DEF Holds, Evidence
        <3> QED  BY <3>1, <3>2 DEF KeptInv, MayKeep
    <2>6. CASE p = Cleaner /\ CleanStaleInput
        <3>1. proc[p] \in Execution /\ proc'[p] = [proc[p] EXCEPT !.pc = "deleting", !.copy = evidence']
            BY <1>1, <2>6 DEF CleanStaleInput
        <3>2. proc'[p].copy = evidence' /\ evidence'.kept = evidence.kept
            BY <1>1, <2>6, <3>1 DEF CleanStaleInput, Execution, Evidence
        <3> QED  BY <1>2, <2>6, <3>2 DEF CleanStaleInput, CleanupDue, MayKeep, store
    <2> QED  BY <1>5, <2>1, <2>2, <2>3, <2>4, <2>5, <2>6, Phases DEF Holds
<1> QED  BY <1>3, <1>4, <1>5 DEF KeptInv, KeptFileStays

\* A file that is kept for checking the paper again is there until its period
\* ends: no clean-up that has looked at upload_evidence before deletes it or
\* erases the mark.
THEOREM KeptFileIsSafe == Spec => []KeptFileStays
<1>1. Init => StageOwnsJob /\ MarkInv /\ CopyInv /\ KeptInv
    <2> SUFFICES ASSUME Init PROVE StageOwnsJob /\ MarkInv /\ CopyInv /\ KeptInv
        OBVIOUS
    <2>1. owner = Intake /\ proc[Intake].pc = "uploading" /\ Intake \notin Workers /\ ~evidence.kept
        BY ProcessAssumption DEF Init, Processes, Idle
    <2>2. MarkInv
        BY DEF Init, MarkInv, MarkedUntilCleanup, RunningRefreshIsMarked
    <2> QED  BY <2>1, <2>2 DEF StageOwnsJob, CopyInv, KeptInv, KeptFileStays, Holds
<1>2. KeptInv => KeptFileStays
    BY DEF KeptInv
<1> QED  BY <1>1, <1>2, InitType, StepType, StageOwnsJobStep, MarkStep, CopyStep, KeptStep, PTL DEF Spec

-----------------------------------------------------------------------------
(* Inside one attempt the job only moves forward. *)

\* The attempts of the row, and of what its holder has read of it, were issued.
IssuedInv ==
    /\ evidence.attempt_id <= issued
    /\ \A p \in Processes : Holds(p, {"entered", "published", "checked", "deleting"}) =>
          proc[p].copy.attempt_id <= issued

\* A step issues the next attempt to the row, or it issues none and the row's
\* attempt is the one it had or the one that a process has read.
LEMMA AttemptOf ==
    ASSUME TypeInv, [Next]_vars
    PROVE  \/ issued' = issued + 1 /\ evidence'.attempt_id = issued'
           \/ issued' = issued /\ evidence'.attempt_id = evidence.attempt_id
           \/ /\ issued' = issued
              /\ \E p \in Processes : /\ Holds(p, {"entered", "checked", "deleting"})
                                      /\ evidence'.attempt_id = proc[p].copy.attempt_id
<1> DEFINE Same == issued' = issued /\ evidence'.attempt_id = evidence.attempt_id
           Read(p) == /\ issued' = issued
                      /\ Holds(p, {"entered", "checked", "deleting"})
                      /\ evidence'.attempt_id = proc[p].copy.attempt_id
<1>1. evidence \in Evidence /\ \A w \in Workers : w \in Processes
    BY DEF TypeInv, TypeOK, Processes
<1>2. CASE UNCHANGED vars \/ LeaseEnds \/ ClaimDispatch \/ ExpireInput \/ UploadInput \/ CleanStaleInput
    BY <1>1, <1>2 DEF vars, row, LeaseEnds, ClaimDispatch, ExpireInput, UploadInput, CleanStaleInput, Evidence
<1>3. CASE QueueJob
    BY <1>1, <1>3 DEF QueueJob, PrepareDispatch, Evidence
<1>4. ASSUME NEW refs, NEW newResults, NEW newStage, BeginRefresh(refs, newResults, newStage)
      PROVE  issued' = issued + 1 /\ evidence'.attempt_id = issued'
    BY <1>1, <1>4 DEF BeginRefresh, PrepareDispatch, Evidence
<1>5. ASSUME NEW r \in Refs, Uploads(r), ~AdoptUpload(r) PROVE Same
    BY <1>1, <1>5 DEF Uploads, UploadSource, RetryUpload, QueueUpload, DequeueUpload, Queued, row, Evidence
<1>6. ASSUME NEW m \in Messages, LoseMessage(m) PROVE Same
    BY <1>6 DEF LoseMessage, row
<1>7. ASSUME NEW w \in Workers, NEW m \in Messages, Delivery(w, m) PROVE Same
    BY <1>1, <1>7 DEF Delivery, IgnoreBusy, IgnoreStale, SkipStage, StartStage, ExhaustStage, row, Evidence
<1>8. ASSUME NEW w \in Workers,
             \/ EnterStage(w) \/ ExtractPaper(w) \/ RetrievalDone(w) \/ VerificationDone(w)
             \/ CheckReport(w) \/ ReturnStage(w) \/ IgnoreOutdatedFailure(w) \/ RetryStage(w)
             \/ RollBackRefresh(w) \/ FailJob(w) \/ WorkerFaults(w)
             \/ \E r \in Refs : RetrieveSource(w, r) \/ VerifySource(w, r)
      PROVE  Same
    BY <1>1, <1>8 DEF EnterStage, ExtractPaper, RetrievalDone, VerificationDone, CheckReport, ReturnStage,
       IgnoreOutdatedFailure, RetryStage, RollBackRefresh, FailJob, WorkerFaults, StageRaises,
       FailureNotSaved, CleanupRaises, RetrieveSource, VerifySource, row, Evidence
<1>9. ASSUME NEW w \in Workers, FinalizePaper(w) PROVE Same \/ Read(w)
    <2>1. proc[w].copy \in Evidence /\ Holds(w, {"entered", "checked", "deleting"}) /\ issued' = issued
        BY <1>9, EnteredFacts DEF FinalizePaper, Working, At, Holds
    <2> QED  BY <1>9, <2>1 DEF FinalizePaper, Evidence
<1>10. ASSUME NEW w \in Workers, StartCleanup(w) PROVE Same \/ Read(w)
    <2>1. proc[w].copy \in Evidence /\ Holds(w, {"entered", "checked", "deleting"}) /\ issued' = issued
        BY <1>10, EnteredFacts DEF StartCleanup, At, Holds
    <2>2. CASE input = "deleted"
        BY <1>10, <2>1, <2>2 DEF StartCleanup
    <2>3. CASE input # "deleted"
        BY <1>10, <2>1, <2>3 DEF StartCleanup, Evidence
    <2> QED  BY <2>2, <2>3
<1>11. ASSUME NEW p \in Processes, DeleteInput(p) PROVE Same \/ Read(p)
    BY <1>11 DEF DeleteInput, At, Holds
<1>12. ASSUME NEW p \in Processes, Faults(p) PROVE Same
    BY <1>12 DEF Faults, LoseConnection, LoseOwnership, Crash, row
<1> QED  BY <1>1, <1>2, <1>3, <1>4, <1>5, <1>6, <1>7, <1>8, <1>9, <1>10, <1>11, <1>12
         DEF Next, WorkerStep, SearchAgain, AdoptUpload

LEMMA IssuedStep == TypeInv /\ IssuedInv /\ [Next]_vars => IssuedInv'
<1> SUFFICES ASSUME TypeInv, IssuedInv, [Next]_vars PROVE IssuedInv'
    OBVIOUS
<1>1. /\ evidence \in Evidence /\ evidence' \in Evidence /\ issued \in Nat
      /\ proc \in [Processes -> Execution]
      /\ \A w \in Workers : w \in Processes
      /\ \A e \in Evidence : e.attempt_id \in Nat
    BY StepType, BoundAssumption DEF TypeInv, TypeOK, Processes, Evidence, Attempts
<1>a. \A p \in Processes : Holds(p, {"entered", "published", "checked", "deleting"}) =>
          proc[p].copy \in Evidence
    BY DEF Holds, TypeInv, ProcOK, WellFormed
<1>2. issued' \in Nat /\ issued <= issued' /\ evidence'.attempt_id <= issued'
    BY <1>1, AttemptOf DEF IssuedInv, Holds
<1>3. ASSUME NEW p \in Processes, Holds(p, {"entered", "published", "checked", "deleting"})'
      PROVE  proc'[p].copy.attempt_id <= issued'
    <2>1. CASE Stays(p)
        <3>1. proc[p].copy.attempt_id <= issued /\ proc[p].copy.attempt_id \in Nat
            BY <1>1, <1>a, <1>3, <2>1 DEF Stays, Holds, IssuedInv
        <3> QED  BY <1>1, <1>2, <2>1, <3>1 DEF Stays
    <2>2. CASE p \in Workers /\ EnterStage(p)
        <3>1. proc'[p].copy = evidence
            BY <1>1, <2>2 DEF EnterStage, Execution
        <3> QED  BY <1>1, <1>2, <3>1 DEF IssuedInv
    <2>3. CASE p \in Workers /\ \/ ExtractPaper(p) /\ proc'[p].pc = "checked"
                                \/ \E r \in Refs : VerifySource(p, r)
        <3>1. proc'[p].copy = proc[p].copy /\ Holds(p, {"entered"})
            BY <1>1, <2>3 DEF ExtractPaper, VerifySource, Working, At, Goto, Holds, Execution
        <3>2. proc[p].copy.attempt_id <= issued /\ proc[p].copy.attempt_id \in Nat
            BY <1>1, <1>a, <3>1 DEF Holds, IssuedInv
        <3> QED  BY <1>1, <1>2, <3>1, <3>2
    <2>4. CASE p \in Workers /\ FinalizePaper(p)
        <3> DEFINE copy == proc[p].copy
                   kept == IF KeepFile(p) THEN [copy EXCEPT !.kept = TRUE] ELSE copy
                   done == IF RefreshRefs(copy) = {} THEN kept ELSE [kept EXCEPT !.targeted = None]
        <3>1. /\ Holds(p, {"entered"}) /\ copy \in Evidence
              /\ proc[p] \in Execution
            BY <1>1, <2>4, EnteredFacts DEF FinalizePaper, Working, At, Holds
        <3>2. proc'[p] = [proc[p] EXCEPT !.pc = "published", !.copy = done]
            BY <2>4 DEF FinalizePaper, TypeInv, TypeOK
        <3>3. done.attempt_id = copy.attempt_id
            BY <3>1 DEF Evidence
        <3> HIDE DEF done
        <3>4. proc'[p].copy = done
            BY <3>1, <3>2 DEF Execution
        <3>5. copy.attempt_id <= issued /\ copy.attempt_id \in Nat
            BY <1>1, <3>1 DEF Holds, IssuedInv
        <3> QED  BY <1>1, <1>2, <3>3, <3>4, <3>5
    <2>5. CASE p \in Workers /\ (CheckReport(p) \/ FailJob(p))
        <3>1. proc'[p].copy = evidence
            BY <1>1, <2>5 DEF CheckReport, FailJob, Execution
        <3> QED  BY <1>1, <1>2, <3>1 DEF IssuedInv
    <2>6. CASE p \in Workers /\ StartCleanup(p) /\ proc'[p].pc = "deleting"
        <3>1. proc'[p].copy = evidence'
            BY <1>1, <1>3, <2>6, CleanupCopies DEF Holds
        <3> QED  BY <1>2, <3>1
    <2>7. CASE p = Cleaner /\ CleanStaleInput
        <3>1. proc[p] \in Execution /\ proc'[p] = [proc[p] EXCEPT !.pc = "deleting", !.copy = evidence']
            BY <1>1, <2>7 DEF CleanStaleInput
        <3>2. proc'[p].copy = evidence'
            BY <3>1 DEF Execution
        <3> QED  BY <1>2, <3>2
    <2> QED  BY <1>3, <2>1, <2>2, <2>3, <2>4, <2>5, <2>6, <2>7, Phases DEF Holds
<1> QED  BY <1>2, <1>3 DEF IssuedInv

Forward == evidence'.attempt_id = evidence.attempt_id /\ status' \in Active
              => Progress(stage') >= Progress(stage)

LEMMA ForwardStep == TypeInv /\ StageOwnsJob /\ IssuedInv /\ [Next]_vars => Forward
<1> SUFFICES ASSUME TypeInv, StageOwnsJob, IssuedInv, [Next]_vars,
                    evidence'.attempt_id = evidence.attempt_id, status' \in Active
             PROVE  Progress(stage') >= Progress(stage)
    BY DEF Forward
<1>1. /\ evidence \in Evidence /\ evidence.attempt_id \in Nat /\ issued \in Nat
      /\ evidence.attempt_id <= issued /\ stage \in JobStages
      /\ \A w \in Workers : w \in Processes
    BY BoundAssumption DEF TypeInv, TypeOK, Processes, Evidence, Attempts, IssuedInv
<1>2. \A sg \in JobStages : Progress(sg) \in Nat
    BY DEF Progress, JobStages
<1>3. ASSUME stage' = stage PROVE Progress(stage') >= Progress(stage)
    BY <1>1, <1>2, <1>3
<1>4. CASE Quiet \/ ExpireInput \/ CleanStaleInput \/ UploadInput
    BY <1>3, <1>4 DEF Quiet, ExpireInput, CleanStaleInput, UploadInput, Active
<1>5. ASSUME NEW w \in Workers, NEW s, Working(w, s, "entered")
      PROVE  PendingStage = s /\ status \in Active
    BY <1>5 DEF Working, At, StageOwnsJob, Matches
<1>6. ASSUME NEW w \in Workers, EnterStage(w) PROVE Progress(stage') >= Progress(stage)
    <2>1. PendingStage = proc[w].task.stage /\ proc[w].task.stage \in Stages
        BY <1>1, <1>6 DEF EnterStage, At, StageOwnsJob, TypeInv, ProcOK, WellFormed, Messages
    <2>2. stage' = EnteredAs[proc[w].task.stage]
        BY <1>6 DEF EnterStage
    <2>3. CASE proc[w].task.stage = "extract"
        BY <2>1, <2>2, <2>3, PendingIs DEF PendingStage, EnteredAs, Progress
    <2>4. CASE proc[w].task.stage = "retrieve"
        BY <2>1, <2>2, <2>4, PendingIs DEF PendingStage, EnteredAs, Progress
    <2>5. CASE proc[w].task.stage = "verify"
        BY <2>1, <2>2, <2>5, PendingIs DEF PendingStage, EnteredAs, Progress
    <2>6. CASE proc[w].task.stage = "finalize"
        BY <2>1, <2>2, <2>6, PendingIs DEF PendingStage, EnteredAs, Progress
    <2> QED  BY <2>1, <2>3, <2>4, <2>5, <2>6 DEF Stages
<1>7. ASSUME NEW w \in Workers, ExtractPaper(w) PROVE Progress(stage') >= Progress(stage)
    <2>1. stage \in {"uploaded", "extracting"} /\ stage' = "extracted"
        BY <1>5, <1>7, PendingIs DEF ExtractPaper, PendingStage
    <2> QED  BY <2>1 DEF Progress
<1>8. ASSUME NEW w \in Workers, RetrievalDone(w) PROVE Progress(stage') >= Progress(stage)
    <2>1. stage \in {"extracted", "retrieving"} /\ stage' = "retrieved"
        BY <1>5, <1>8, PendingIs DEF RetrievalDone, PendingStage
    <2> QED  BY <2>1 DEF Progress
<1>9. ASSUME NEW w \in Workers, VerificationDone(w) PROVE Progress(stage') >= Progress(stage)
    <2>1. stage \in {"retrieved", "verifying"} /\ stage' = "verified"
        BY <1>5, <1>9, PendingIs DEF VerificationDone, PendingStage
    <2> QED  BY <2>1 DEF Progress
<1>10. ASSUME NEW w \in Workers, FinalizePaper(w) \/ RollBackRefresh(w) \/ FailJob(w) PROVE FALSE
    BY <1>10 DEF FinalizePaper, RollBackRefresh, FailJob, Active
<1>11. ASSUME NEW w \in Workers,
              \/ StartCleanup(w) \/ \E r \in Refs : RetrieveSource(w, r) \/ VerifySource(w, r)
              \/ \E m \in Messages : StartStage(w, m)
       PROVE  stage' = stage
    BY <1>11 DEF StartCleanup, RetrieveSource, VerifySource, StartStage, row
<1>12. ASSUME NEW p \in Processes, DeleteInput(p) PROVE stage' = stage
    BY <1>12 DEF DeleteInput
<1>13. ASSUME NEW refs, NEW newResults, NEW newStage, BeginRefresh(refs, newResults, newStage)
       PROVE  FALSE
    <2>1. evidence'.attempt_id = issued + 1
        BY <1>1, <1>13 DEF BeginRefresh, PrepareDispatch, Evidence
    <2> QED  BY <1>1, <2>1
<1> QED  BY <1>3, <1>4, <1>6, <1>7, <1>8, <1>9, <1>10, <1>11, <1>12, <1>13, StepKinds
         DEF SearchAgain, AdoptUpload

\* Inside one attempt no execution, recovery, late message or clean-up takes an
\* active job back to an earlier stage: the stage operations write the stage
\* that follows the one the lock's holder found.
THEOREM StagesOnlyAdvance == Spec => StagesMoveForward
<1>1. Init => StageOwnsJob /\ IssuedInv
    <2> SUFFICES ASSUME Init PROVE StageOwnsJob /\ IssuedInv
        OBVIOUS
    <2>1. owner = Intake /\ proc[Intake].pc = "uploading" /\ Intake \notin Workers
        BY ProcessAssumption DEF Init, Processes, Idle
    <2>2. evidence.attempt_id = 0 /\ issued = 0
        BY DEF Init
    <2> QED  BY <2>1, <2>2 DEF StageOwnsJob, IssuedInv, Holds
<1>2. TypeInv /\ StageOwnsJob /\ IssuedInv /\ [Next]_vars =>
         [evidence'.attempt_id = evidence.attempt_id /\ status' \in Active
            => Progress(stage') >= Progress(stage)]_vars
    BY ForwardStep DEF Forward
<1> QED  BY <1>1, <1>2, InitType, StepType, StageOwnsJobStep, IssuedStep, PTL DEF Spec, StagesMoveForward

-----------------------------------------------------------------------------
(* What a refresh puts back, and what a report lists. *)

Newest == reports[Len(reports)]

\* The checkpoint of a refresh is the state its newest report was built from.
Restores(before) ==
    /\ reports # <<>> /\ ~StoreOnly
    /\ before.reference_ids # {}
    /\ before.source_results = Newest.results
    /\ before.verification_summary = Newest.report_ids

RestoreInv ==
    /\ evidence.targeted # None => Restores(evidence.targeted)
    /\ \A p \in Processes : Holds(p, {"checked", "deleting"}) =>
          proc[p].copy.targeted \in {None, evidence.targeted}
    /\ CompletedShowsReport
    /\ EvidenceAvailable
    /\ \A w \in Workers : Holds(w, {"entered"}) => proc[w].built \subseteq records

LEMMA NewestType ==
    ASSUME TypeOK, reports # <<>>
    PROVE  Newest \in Reports /\ Len(reports) \in DOMAIN reports /\ Newest.report_ids \subseteq Linked
<1>1. reports \in Seq(Reports)
    BY DEF TypeOK
<1>2. Len(reports) \in 1 .. Len(reports) /\ DOMAIN reports = 1 .. Len(reports)
    BY <1>1
<1>3. Newest \in Reports
    BY <1>1, <1>2 DEF Newest
<1> QED  BY <1>2, <1>3 DEF Newest, Linked

\* What the newest report and the linked packages are once a report is added.
LEMMA AppendReport ==
    ASSUME TypeOK, NEW entry, reports' = Append(reports, entry)
    PROVE  /\ reports' # <<>> /\ Newest' = entry
           /\ Linked' = Linked \cup entry.report_ids
<1>1. reports \in Seq(Reports \cup {entry})
    BY DEF TypeOK
<1>2. /\ Len(reports) \in Nat /\ Len(reports') = Len(reports) + 1
      /\ DOMAIN reports = 1 .. Len(reports) /\ DOMAIN reports' = 1 .. Len(reports) + 1
      /\ reports'[Len(reports) + 1] = entry
      /\ \A i \in 1 .. Len(reports) : reports'[i] = reports[i]
    BY <1>1
<1>3. reports' # <<>> /\ Newest' = entry
    BY <1>2 DEF Newest
<1>4. ASSUME NEW id PROVE id \in Linked' <=> id \in Linked \cup entry.report_ids
    <2>1. id \in Linked' <=> \E i \in 1 .. Len(reports) + 1 : id \in reports'[i].report_ids
        BY <1>2 DEF Linked
    <2>2. id \in Linked <=> \E i \in 1 .. Len(reports) : id \in reports[i].report_ids
        BY <1>2 DEF Linked
    <2>3. 1 .. Len(reports) + 1 = (1 .. Len(reports)) \cup {Len(reports) + 1}
        BY <1>2
    <2> QED  BY <1>2, <2>1, <2>2, <2>3
<1> QED  BY <1>3, <1>4

\* A refresh begins from the state of the newest report.
LEMMA BeginMarks ==
    ASSUME TypeInv, RestoreInv, NEW refs \in SUBSET Refs, refs # {}, NEW newResults, NEW newStage,
           BeginRefresh(refs, newResults, newStage)
    PROVE  /\ status = "completed" /\ status' = "running" /\ evidence.targeted = None
           /\ UNCHANGED <<summary, records, reports>>
           /\ evidence'.targeted = [reference_ids |-> refs, source_results |-> results,
                                    verification_summary |-> SummaryIds]
           /\ Restores(evidence'.targeted) /\ evidence'.targeted # None
           /\ summary = SummaryIds /\ ~StoreOnly
<1>1. /\ status = "completed" /\ ~StoreOnly /\ reports # <<>> /\ status' = "running"
      /\ UNCHANGED <<summary, records, reports>> /\ evidence \in Evidence
    BY DEF BeginRefresh, store, TypeInv, TypeOK
<1>2. evidence.targeted = None /\ results = Newest.results /\ summary = Newest.report_ids
    BY <1>1 DEF RestoreInv, CompletedShowsReport, Newest
<1>3. Newest.report_ids \in SUBSET RecordIds
    BY <1>1, NewestType DEF Reports, TypeInv
<1>4. SummaryIds = Newest.report_ids
    BY <1>2, <1>3, NoneAssumption DEF SummaryIds
<1> DEFINE refresh == [reference_ids |-> refs, source_results |-> results,
                       verification_summary |-> SummaryIds]
<1>5. refresh \in Refresh /\ refresh # None
    BY SummaryIdsType, NoneAssumption DEF Refresh, TypeInv, TypeOK
<1>6. evidence'.targeted = refresh
    BY <1>1 DEF BeginRefresh, PrepareDispatch, Evidence
<1>7. Restores(refresh)
    BY <1>1, <1>2, <1>4 DEF Restores
<1> QED  BY <1>1, <1>2, <1>4, <1>5, <1>6, <1>7

\* How a step changes the marker of a refresh.
LEMMA TargetedMoves ==
    ASSUME TypeInv, StageOwnsJob, CopyInv, RestoreInv, [Next]_vars
    PROVE  \/ evidence'.targeted = evidence.targeted
           \/ /\ evidence'.targeted = None
              /\ \/ \E w \in Workers : FinalizePaper(w) \/ RollBackRefresh(w) \/ StartCleanup(w)
                 \/ \E p \in Processes : DeleteInput(p)
           \/ /\ \/ \E refs \in SUBSET Refs : SearchAgain(refs)
                 \/ \E r \in Refs : AdoptUpload(r)
              /\ status = "completed" /\ evidence.targeted = None
<1>1. evidence \in Evidence
    BY DEF TypeInv, TypeOK
<1>2. CASE Quiet \/ ExpireInput \/ CleanStaleInput \/ UploadInput
    BY <1>1, <1>2 DEF Quiet, Marks, ExpireInput, CleanStaleInput, UploadInput, Evidence
<1>3. ASSUME NEW w \in Workers,
             \/ EnterStage(w) \/ ExtractPaper(w) \/ RetrievalDone(w) \/ VerificationDone(w) \/ FailJob(w)
             \/ \E r \in Refs : RetrieveSource(w, r) \/ VerifySource(w, r)
             \/ \E m \in Messages : StartStage(w, m)
      PROVE  evidence'.targeted = evidence.targeted
    BY <1>1, <1>3 DEF EnterStage, ExtractPaper, RetrievalDone, VerificationDone, FailJob, RetrieveSource,
       VerifySource, StartStage, row, Evidence
<1>4. ASSUME NEW w \in Workers, FinalizePaper(w)
      PROVE  evidence'.targeted \in {None, evidence.targeted}
    BY <1>4, FinalizeMarks
<1>5. ASSUME NEW w \in Workers, RollBackRefresh(w) PROVE evidence'.targeted = None
    BY <1>1, <1>5 DEF RollBackRefresh, Evidence
<1>6. ASSUME NEW w \in Workers, StartCleanup(w)
      PROVE  evidence'.targeted \in {None, evidence.targeted}
    <2>1. proc[w].copy \in Evidence /\ Holds(w, {"checked", "deleting"}) /\ w \in Processes
        BY <1>6, EnteredFacts DEF StartCleanup, At, Holds
    <2>2. proc[w].copy.targeted \in {None, evidence.targeted}
        BY <2>1 DEF RestoreInv
    <2>3. CASE input = "deleted"
        BY <1>6, <2>3 DEF StartCleanup
    <2>4. CASE input # "deleted"
        BY <1>6, <2>1, <2>2, <2>4 DEF StartCleanup, Evidence
    <2> QED  BY <2>3, <2>4
<1>7. ASSUME NEW p \in Processes, DeleteInput(p)
      PROVE  evidence'.targeted \in {None, evidence.targeted}
    BY <1>7 DEF DeleteInput, At, Holds, RestoreInv
<1>8. ASSUME NEW refs \in SUBSET Refs, SearchAgain(refs) PROVE status = "completed" /\ evidence.targeted = None
    BY <1>8, BeginMarks DEF SearchAgain
<1>9. ASSUME NEW r \in Refs, AdoptUpload(r) PROVE status = "completed" /\ evidence.targeted = None
    BY <1>9, BeginMarks DEF AdoptUpload
<1> QED  BY <1>2, <1>3, <1>4, <1>5, <1>6, <1>7, <1>8, <1>9, StepKinds

\* The steps that change the reports, the packages or the summary.
LEMMA StoreMoves ==
    ASSUME TypeInv, [Next]_vars
    PROVE  \/ UNCHANGED <<records, reports, summary>>
           \/ \E w \in Workers : \/ FinalizePaper(w) \/ RollBackRefresh(w) \/ VerificationDone(w)
                                 \/ \E r \in Refs : VerifySource(w, r)
<1>1. CASE Quiet \/ ExpireInput \/ CleanStaleInput \/ UploadInput
    BY <1>1 DEF Quiet, ExpireInput, CleanStaleInput, UploadInput, store
<1>2. ASSUME NEW w \in Workers,
             \/ EnterStage(w) \/ ExtractPaper(w) \/ RetrievalDone(w) \/ StartCleanup(w) \/ FailJob(w)
             \/ \E r \in Refs : RetrieveSource(w, r)
             \/ \E m \in Messages : StartStage(w, m)
      PROVE  UNCHANGED <<records, reports, summary>>
    BY <1>2 DEF EnterStage, ExtractPaper, RetrievalDone, StartCleanup, FailJob, RetrieveSource, StartStage, store
<1>3. ASSUME NEW p \in Processes, DeleteInput(p) PROVE UNCHANGED <<records, reports, summary>>
    BY <1>3 DEF DeleteInput, store
<1>4. ASSUME \/ \E refs \in SUBSET Refs : SearchAgain(refs)
             \/ \E r \in Refs : AdoptUpload(r)
      PROVE  UNCHANGED <<records, reports, summary>>
    BY <1>4 DEF SearchAgain, AdoptUpload, BeginRefresh, store
<1> QED  BY <1>1, <1>2, <1>3, <1>4, StepKinds

\* A refresh that is rolled back leaves the packages of every report, and puts
\* back a summary that a report lists.
LEMMA RollBackKeeps ==
    ASSUME TypeInv, RestoreInv, NEW w \in Workers, RollBackRefresh(w)
    PROVE  /\ Linked' = Linked /\ reports' = reports /\ Linked \subseteq records'
           /\ Restores(evidence.targeted)
           /\ results' = Newest.results /\ summary' = Newest.report_ids /\ summary' \subseteq Linked
           /\ evidence'.targeted = None /\ status' = "completed" /\ owner' = None
<1>1. /\ evidence.targeted # None /\ reports' = reports /\ evidence \in Evidence
      /\ records' = records \ Orphans(evidence.targeted)
    BY DEF RollBackRefresh, TypeInv, TypeOK
<1>2. Restores(evidence.targeted)
    BY <1>1 DEF RestoreInv
<1>3. Newest.report_ids \subseteq Linked
    BY <1>2, NewestType DEF Restores, TypeInv
<1>4. Linked' = Linked /\ Linked \subseteq records
    BY <1>1 DEF Linked, RestoreInv, EvidenceAvailable
<1>5. Linked \subseteq records'
    BY <1>1, <1>4 DEF Orphans
<1>6. evidence'.targeted = None
    BY <1>1 DEF RollBackRefresh, Evidence
<1> QED  BY <1>1, <1>2, <1>3, <1>4, <1>5, <1>6 DEF RollBackRefresh, Restores, Release

LEMMA EvidenceStep ==
    ASSUME TypeInv, StageOwnsJob, RestoreInv, [Next]_vars
    PROVE  EvidenceAvailable'
<1>1. Linked \subseteq records /\ (summary # None => summary \subseteq records)
    BY DEF RestoreInv, EvidenceAvailable
<1>2. CASE UNCHANGED <<records, reports, summary>>
    BY <1>1, <1>2 DEF EvidenceAvailable, Linked
<1>3. ASSUME NEW w \in Workers, FinalizePaper(w) PROVE EvidenceAvailable'
    <2> DEFINE entry == [attempt |-> proc[w].task.attempt,
                         report_ids |-> IF StoreOnly THEN {} ELSE summary,
                         results |-> results]
    <2>1. /\ reports' = Append(reports, entry) /\ UNCHANGED <<summary, records>>
          /\ entry.report_ids \subseteq records
        BY <1>3 DEF FinalizePaper
    <2> HIDE DEF entry
    <2> QED  BY <1>1, <2>1, AppendReport DEF TypeInv, EvidenceAvailable
<1>4. ASSUME NEW w \in Workers, RollBackRefresh(w) PROVE EvidenceAvailable'
    BY <1>4, RollBackKeeps DEF EvidenceAvailable
<1>5. ASSUME NEW w \in Workers, VerificationDone(w) PROVE EvidenceAvailable'
    <2>1. proc[w].built \subseteq records
        BY <1>5 DEF VerificationDone, Working, At, Holds, RestoreInv
    <2> QED  BY <1>1, <1>5, <2>1 DEF VerificationDone, store, EvidenceAvailable, Linked
<1>6. ASSUME NEW w \in Workers, NEW r \in Refs, VerifySource(w, r) PROVE EvidenceAvailable'
    <2>1. records \subseteq records' /\ UNCHANGED <<reports, summary>>
        BY <1>6 DEF VerifySource, row
    <2> QED  BY <1>1, <2>1 DEF EvidenceAvailable, Linked
<1> QED  BY <1>2, <1>3, <1>4, <1>5, <1>6, StoreMoves

LEMMA BuiltStep ==
    ASSUME TypeInv, StageOwnsJob, RestoreInv, [Next]_vars,
           NEW w \in Workers, Holds(w, {"entered"})'
    PROVE  proc'[w].built \subseteq records'
<1>1. w \in Processes /\ proc \in [Processes -> Execution] /\ w # None
    BY ProcessAssumption DEF TypeInv, TypeOK, Processes
<1>2. CASE Stays(w)
    <2>1. ASSUME NEW x \in Workers, RollBackRefresh(x) PROVE FALSE
        BY <1>1, <2>1 DEF RollBackRefresh, Release, Holds
    <2>2. records \subseteq records'
        BY <2>1, StoreMoves DEF FinalizePaper, VerificationDone, store, VerifySource
    <2> QED  BY <1>2, <2>2 DEF Stays, Holds, RestoreInv
<1>3. CASE EnterStage(w)
    <2>1. proc'[w].built = IF proc[w].task.stage = "verify" THEN Retained(evidence) ELSE {}
        BY <1>1, <1>3 DEF EnterStage, Execution
    <2>2. Retained(evidence) \subseteq records /\ records' = records
        BY <1>3 DEF EnterStage, store, Retained, RestoreInv, EvidenceAvailable
    <2> QED  BY <2>1, <2>2
<1>4. ASSUME NEW r \in Refs, VerifySource(w, r) PROVE proc'[w].built \subseteq records'
    <2>1. proc'[w].built = proc[w].built \cup {ReportId(w, r)} /\ Holds(w, {"entered"})
        BY <1>1, <1>4 DEF VerifySource, Working, At, Holds, Execution
    <2> QED  BY <1>4, <2>1 DEF VerifySource, RestoreInv
<1> QED  BY <1>1, <1>2, <1>3, <1>4, Phases DEF Holds

LEMMA CopyTargetStep ==
    ASSUME TypeInv, StageOwnsJob, CopyInv, RestoreInv, [Next]_vars,
           NEW p \in Processes, Holds(p, {"checked", "deleting"})'
    PROVE  proc'[p].copy.targeted \in {None, evidence'.targeted}
<1>1. /\ evidence \in Evidence /\ proc \in [Processes -> Execution]
      /\ \A w \in Workers : w \in Processes
    BY DEF TypeInv, TypeOK, Processes
<1>2. CASE Stays(p)
    <2>1. /\ proc[p].pc \in {"published", "checked", "deleting"} /\ owner' = p
          /\ Holds(p, {"checked", "deleting"})
        BY <1>2 DEF Stays, Holds
    <2>2. proc[p].copy.targeted \in {None, evidence.targeted}
        BY <2>1 DEF RestoreInv
    <2>3. CASE Quiet \/ ExpireInput
        BY <1>2, <2>2, <2>3 DEF Stays, Quiet, Marks, ExpireInput
    <2>4. ASSUME NEW refs \in SUBSET Refs, SearchAgain(refs) PROVE evidence.targeted = None
        BY <2>4 DEF SearchAgain
    <2>5. ASSUME NEW r \in Refs, AdoptUpload(r) PROVE evidence.targeted = None
        BY <2>5, BeginMarks DEF AdoptUpload
    <2> QED  BY <1>2, <2>1, <2>2, <2>3, <2>4, <2>5, Waits DEF Stays
<1>3. CASE p \in Workers /\ ExtractPaper(p) /\ proc'[p].pc = "checked"
    <2>1. proc'[p].copy = proc[p].copy
        BY <1>1, <1>3 DEF ExtractPaper, Goto, Execution
    <2> QED  BY <1>3, <2>1 DEF ExtractPaper, Working, At, CopyInv, Marks
<1>4. CASE p \in Workers /\ (CheckReport(p) \/ FailJob(p))
    <2>1. proc'[p].copy = evidence /\ evidence' = evidence
        BY <1>1, <1>4 DEF CheckReport, FailJob, row, Execution
    <2> QED  BY <2>1
<1>5. CASE p \in Workers /\ StartCleanup(p) /\ proc'[p].pc = "deleting"
    BY <1>5, CleanupCopies DEF Holds
<1>6. CASE p = Cleaner /\ CleanStaleInput
    <2>1. proc[p] \in Execution /\ proc'[p] = [proc[p] EXCEPT !.pc = "deleting", !.copy = evidence']
        BY <1>1, <1>6 DEF CleanStaleInput
    <2> QED  BY <2>1 DEF Execution
<1> QED  BY <1>2, <1>3, <1>4, <1>5, <1>6, Phases DEF Holds

\* A step under a refresh keeps its checkpoint while it keeps its marker.
LEMMA RestoresStep ==
    ASSUME TypeInv, StageOwnsJob, CopyInv, RestoreInv, [Next]_vars, evidence'.targeted # None
    PROVE  Restores(evidence.targeted)'
<1>1. ASSUME NEW w \in Workers, FinalizePaper(w) PROVE FALSE
    <2>1. evidence'.targeted = IF RefreshRefs(evidence) = {} THEN evidence.targeted ELSE None
        BY <1>1, FinalizeMarks
    <2> QED  BY <2>1 DEF RestoreInv, Restores, RefreshRefs
<1>2. ASSUME NEW w \in Workers, RollBackRefresh(w) PROVE FALSE
    BY <1>2, RollBackKeeps
<1>3. reports' = reports
    <2>1. ASSUME NEW w \in Workers, VerificationDone(w) \/ \E r \in Refs : VerifySource(w, r)
          PROVE  reports' = reports
        BY <2>1 DEF VerificationDone, store, VerifySource
    <2> QED  BY <1>1, <1>2, <2>1, StoreMoves
<1>4. CASE evidence'.targeted = evidence.targeted
    BY <1>3, <1>4 DEF RestoreInv, Restores, Newest
<1>5. ASSUME NEW refs \in SUBSET Refs, refs # {}, NEW newResults, NEW newStage,
             BeginRefresh(refs, newResults, newStage)
      PROVE  Restores(evidence.targeted)'
    BY <1>3, <1>5, BeginMarks DEF Restores, Newest
<1>6. ASSUME NEW refs \in SUBSET Refs, SearchAgain(refs) PROVE Restores(evidence.targeted)'
    BY <1>5, <1>6 DEF SearchAgain
<1>7. ASSUME NEW r \in Refs, AdoptUpload(r) PROVE Restores(evidence.targeted)'
    BY <1>5, <1>7 DEF AdoptUpload
<1> QED  BY <1>4, <1>6, <1>7, TargetedMoves

LEMMA CompletedStep ==
    ASSUME TypeInv, StageOwnsJob, CopyInv, RestoreInv, [Next]_vars
    PROVE  CompletedShowsReport'
<1> SUFFICES ASSUME status' = "completed" PROVE CompletedShowsReport'
    BY DEF CompletedShowsReport
<1> DEFINE Kept == /\ status = "completed" /\ UNCHANGED <<results, summary, reports>>
                   /\ evidence'.targeted \in {None, evidence.targeted}
<1>1. evidence \in Evidence
    BY DEF TypeInv, TypeOK
<1>2. ASSUME Kept PROVE CompletedShowsReport'
    BY <1>2 DEF RestoreInv, CompletedShowsReport
<1>3. CASE Quiet \/ ExpireInput
    BY <1>2, <1>3 DEF Quiet, Marks, ExpireInput, store
<1>4. CASE CleanStaleInput
    <2>1. /\ status = "completed" /\ UNCHANGED <<results, summary, reports>>
          /\ evidence' = [evidence EXCEPT !.cleanup_started = TRUE]
        BY <1>4 DEF CleanStaleInput, store
    <2> QED  BY <1>1, <1>2, <2>1 DEF Evidence
<1>5. CASE UploadInput
    <2>1. status = "completed" /\ UNCHANGED <<results, summary, reports>>
        BY <1>5 DEF UploadInput, store
    <2>2. evidence'.targeted = evidence.targeted
        BY <1>1, <1>5 DEF UploadInput, Evidence
    <2> QED  BY <1>2, <2>1, <2>2
<1>6. ASSUME NEW w \in Workers, EnterStage(w) PROVE FALSE
    BY <1>6 DEF EnterStage, At, StageOwnsJob, Matches, Active
<1>7. ASSUME NEW w \in Workers,
             \/ ExtractPaper(w) \/ RetrievalDone(w) \/ VerificationDone(w)
             \/ \E r \in Refs : RetrieveSource(w, r) \/ VerifySource(w, r)
      PROVE  FALSE
    <2>1. status \in Active
        BY <1>7 DEF ExtractPaper, RetrievalDone, VerificationDone, RetrieveSource, VerifySource, Working, At,
           StageOwnsJob, Matches
    <2>2. status' = status
        BY <1>7 DEF ExtractPaper, RetrievalDone, VerificationDone, RetrieveSource, VerifySource, row
    <2> QED  BY <2>1, <2>2 DEF Active
<1>8. ASSUME NEW w \in Workers, FinalizePaper(w) PROVE CompletedShowsReport'
    <2> DEFINE entry == [attempt |-> proc[w].task.attempt,
                         report_ids |-> IF StoreOnly THEN {} ELSE summary,
                         results |-> results]
    <2>1. reports' = Append(reports, entry) /\ UNCHANGED <<summary, results>>
        BY <1>8 DEF FinalizePaper
    <2>2. entry.results = results /\ (~StoreOnly => entry.report_ids = summary)
        OBVIOUS
    <2> HIDE DEF entry
    <2>3. reports' # <<>> /\ reports'[Len(reports')] = entry
        BY <2>1, AppendReport DEF TypeInv, Newest
    <2>4. evidence'.targeted = None
        BY <1>8, FinalizeMarks DEF RestoreInv, Restores, RefreshRefs
    <2> QED  BY <2>1, <2>2, <2>3, <2>4 DEF CompletedShowsReport
<1>9. ASSUME NEW w \in Workers, RollBackRefresh(w) PROVE CompletedShowsReport'
    BY <1>9, RollBackKeeps DEF CompletedShowsReport, Restores, Newest
<1>10. ASSUME NEW w \in Workers, FailJob(w) \/ \E m \in Messages : StartStage(w, m) PROVE FALSE
    BY <1>10 DEF FailJob, StartStage
<1>11. ASSUME \/ \E w \in Workers : StartCleanup(w)
              \/ \E p \in Processes : DeleteInput(p)
       PROVE  CompletedShowsReport'
    <2>1. status = "completed" /\ UNCHANGED <<results, summary, reports>>
        BY <1>11 DEF StartCleanup, DeleteInput, store
    <2>2. evidence'.targeted \in {None, evidence.targeted}
        BY <2>1, TargetedMoves DEF RestoreInv, CompletedShowsReport, SearchAgain, AdoptUpload, BeginRefresh
    <2> QED  BY <1>2, <2>1, <2>2
<1>12. ASSUME \/ \E refs \in SUBSET Refs : SearchAgain(refs)
              \/ \E r \in Refs : AdoptUpload(r)
       PROVE  FALSE
    BY <1>12 DEF SearchAgain, AdoptUpload, BeginRefresh
<1> QED  BY <1>3, <1>4, <1>5, <1>6, <1>7, <1>8, <1>9, <1>10, <1>11, <1>12, StepKinds

LEMMA RestoreStep == TypeInv /\ StageOwnsJob /\ CopyInv /\ RestoreInv /\ [Next]_vars => RestoreInv'
<1> SUFFICES ASSUME TypeInv, StageOwnsJob, CopyInv, RestoreInv, [Next]_vars PROVE RestoreInv'
    OBVIOUS
<1>1. evidence'.targeted # None => Restores(evidence.targeted)'
    BY RestoresStep
<1>2. \A p \in Processes : Holds(p, {"checked", "deleting"})' =>
          proc'[p].copy.targeted \in {None, evidence'.targeted}
    BY CopyTargetStep
<1>3. \A w \in Workers : Holds(w, {"entered"})' => proc'[w].built \subseteq records'
    BY BuiltStep
<1> QED  BY <1>1, <1>2, <1>3, CompletedStep, EvidenceStep DEF RestoreInv

LEMMA RestoreInit == Init => StageOwnsJob /\ CopyInv /\ RestoreInv
<1> SUFFICES ASSUME Init PROVE StageOwnsJob /\ CopyInv /\ RestoreInv
    OBVIOUS
<1>1. owner = Intake /\ proc[Intake].pc = "uploading" /\ Intake \notin Workers
    BY ProcessAssumption DEF Init, Processes, Idle
<1>2. evidence.targeted = None /\ status = "pending" /\ summary = None /\ Linked = {} /\ records = {}
    BY DEF Init, Linked
<1> QED  BY <1>1, <1>2 DEF StageOwnsJob, CopyInv, RestoreInv, CompletedShowsReport, EvidenceAvailable, Holds

\* A finished paper shows what its newest report was built from: a refresh that
\* failed has put back everything (rollback_targeted_source_refresh), because
\* the checkpoint it began with was the state of that report.
THEOREM CompletedIsReport == Spec => []CompletedShowsReport
<1>1. RestoreInv => CompletedShowsReport
    BY DEF RestoreInv
<1> QED  BY <1>1, RestoreInit, InitType, StepType, StageOwnsJobStep, CopyStep, RestoreStep, PTL DEF Spec

\* No evidence package that a report or the summary lists is deleted by the
\* roll-back of a refresh, whatever executions of verify left half-way.
THEOREM ListedEvidenceStays == Spec => []EvidenceAvailable
<1>1. RestoreInv => EvidenceAvailable
    BY DEF RestoreInv
<1> QED  BY <1>1, RestoreInit, InitType, StepType, StageOwnsJobStep, CopyStep, RestoreStep, PTL DEF Spec

-----------------------------------------------------------------------------
(* A refresh stays within its references, as long as the sources that it   *)
(* leaves alone keep their leases.                                         *)

\* The checkpoint of one reference drops every transient source whose lease has
\* ended: during a refresh, also those of references it does not concern.
LeasesKept ==
    evidence.targeted # None =>
        \A r \in Refs \ RefreshRefs(evidence) : Transient(r) => results'[r] = results[r]

Found(res) == {r \in Refs : res[r] # None /\ res[r].kind # "unavailable"}
Full(res) == \A r \in Refs : res[r] # None
OnePer(ids) == \A i, j \in ids : i.ref = j.ref => i = j
Covers(ids, res) == {id.ref : id \in ids} = Found(res) /\ OnePer(ids)
Outside(ids, refs) == {id \in ids : id.ref \notin refs}

\* A report covers the sources it was built from.
ReportCovers ==
    ~StoreOnly /\ reports # <<>> => /\ Full(Newest.results)
                                    /\ Covers(Newest.report_ids, Newest.results)

\* What the row's stage says of its sources and its summary.
StageFits ==
    /\ ~StoreOnly /\ PendingStage \in {"verify", "finalize"} => Full(results)
    /\ summary # None /\ PendingStage = "finalize" => Covers(summary, results)
    /\ StoreOnly => summary = None /\ PendingStage # "verify"
    /\ status = "completed" <=> stage = "completed"

\* A refresh has left its other references as its checkpoint has them.
Untouched(before) ==
    /\ PendingStage # "extract"
    /\ \A r \in Refs \ before.reference_ids : results[r] = before.source_results[r]
    /\ PendingStage \in {"retrieve", "verify"} => summary = before.verification_summary
    /\ PendingStage = "finalize" =>
          Outside(summary, before.reference_ids)
             = Outside(before.verification_summary, before.reference_ids)

\* The reports that an execution of verify has so far.
BuiltFits(w) ==
    /\ OnePer(proc[w].built)
    /\ \A id \in proc[w].built : id.ref \in Found(results)
    /\ LET before == evidence.targeted IN
       before # None => Outside(proc[w].built, before.reference_ids)
                           = Outside(before.verification_summary, before.reference_ids)

Verifies(w) == Holds(w, {"entered"}) /\ proc[w].task.stage = "verify"

ScopeInv ==
    /\ ReportCovers
    /\ StageFits
    /\ status \in Active /\ evidence.targeted # None => Untouched(evidence.targeted)
    /\ \A w \in Workers : Verifies(w) => BuiltFits(w)

\* An execution is at the stage its row waits for.
LEMMA AtStage ==
    ASSUME TypeInv, StageOwnsJob, NEW w \in Workers, NEW s, Working(w, s, "entered")
    PROVE  /\ Holds(w, {"entered"}) /\ status \in Active /\ PendingStage = s
           /\ proc[w].task.stage = s /\ proc[w].task \in Messages
           /\ w \in Processes /\ proc[w] \in Execution /\ proc[w].copy \in Evidence
BY EnteredFacts DEF Working, At, Holds, StageOwnsJob, Matches

\* How the stage that the row waits for changes.
LEMMA PendingMoves ==
    ASSUME TypeInv, StageOwnsJob, [Next]_vars, status' \in Active
    PROVE  \/ status \in Active /\ PendingStage' = PendingStage
           \/ \E w \in Workers : ExtractPaper(w) \/ RetrievalDone(w) \/ VerificationDone(w)
           \/ \E refs \in SUBSET Refs : SearchAgain(refs)
           \/ \E r \in Refs : AdoptUpload(r)
<1>1. CASE Quiet \/ ExpireInput \/ CleanStaleInput \/ UploadInput
    BY <1>1 DEF Quiet, ExpireInput, CleanStaleInput, UploadInput, PendingStage, Active
<1>2. ASSUME NEW w \in Workers, EnterStage(w) PROVE status \in Active /\ PendingStage' = PendingStage
    <2> DEFINE s == proc[w].task.stage
    <2>1. s \in Stages /\ RowAt(evidence.attempt_id, s) /\ PendingStage = s /\ status \in Active
        BY <1>2 DEF EnterStage, At, StageOwnsJob, RowAt, PendingStage, Matches, TypeInv, ProcOK, WellFormed,
           Messages, Processes
    <2>2. stage' = EnteredAs[s] /\ status' = IF s = "finalize" THEN status ELSE "running"
        BY <1>2 DEF EnterStage
    <2> HIDE DEF s
    <2> QED  BY <2>1, <2>2, EnteringKeepsStage DEF PendingStage
<1>3. ASSUME NEW w \in Workers,
             StartCleanup(w) \/ \E r \in Refs : RetrieveSource(w, r) \/ VerifySource(w, r)
      PROVE  UNCHANGED <<status, stage>>
    BY <1>3 DEF StartCleanup, RetrieveSource, VerifySource, row
<1>4. ASSUME NEW w \in Workers, NEW m \in Messages, StartStage(w, m)
      PROVE  status \in Active /\ PendingStage' = PendingStage
    <2>1. status \in Active /\ status' \in Active /\ stage' = stage
        BY <1>4 DEF StartStage, Matches, Active
    <2> QED  BY <2>1 DEF PendingStage, PendingOf
<1>5. ASSUME NEW w \in Workers, FinalizePaper(w) \/ RollBackRefresh(w) \/ FailJob(w) PROVE FALSE
    BY <1>5 DEF FinalizePaper, RollBackRefresh, FailJob, Active
<1>6. ASSUME NEW p \in Processes, DeleteInput(p) PROVE UNCHANGED <<status, stage>>
    BY <1>6 DEF DeleteInput
<1> QED  BY <1>1, <1>2, <1>3, <1>4, <1>5, <1>6, StepKinds DEF PendingStage

\* The steps that change the sources of the job.
LEMMA ResultsMove ==
    ASSUME TypeInv, [Next]_vars
    PROVE  \/ results' = results
           \/ \E w \in Workers : RollBackRefresh(w) \/ \E r \in Refs : RetrieveSource(w, r)
           \/ \E refs \in SUBSET Refs : SearchAgain(refs)
           \/ \E r \in Refs : AdoptUpload(r)
<1>1. CASE Quiet \/ ExpireInput \/ CleanStaleInput \/ UploadInput
    BY <1>1 DEF Quiet, ExpireInput, CleanStaleInput, UploadInput
<1>2. ASSUME NEW w \in Workers,
             \/ EnterStage(w) \/ ExtractPaper(w) \/ RetrievalDone(w) \/ VerificationDone(w)
             \/ FinalizePaper(w) \/ StartCleanup(w) \/ FailJob(w)
             \/ \E r \in Refs : VerifySource(w, r)
             \/ \E m \in Messages : StartStage(w, m)
      PROVE  results' = results
    BY <1>2 DEF EnterStage, ExtractPaper, RetrievalDone, VerificationDone, FinalizePaper, StartCleanup,
       FailJob, VerifySource, StartStage, row
<1>3. ASSUME NEW p \in Processes, DeleteInput(p) PROVE results' = results
    BY <1>3 DEF DeleteInput
<1> QED  BY <1>1, <1>2, <1>3, StepKinds

\* The newest report is the one that finalize adds, or the one before.
LEMMA ReportsMove ==
    ASSUME TypeInv, [Next]_vars
    PROVE  reports' = reports \/ \E w \in Workers : FinalizePaper(w)
<1>1. ASSUME NEW w \in Workers,
             RollBackRefresh(w) \/ VerificationDone(w) \/ \E r \in Refs : VerifySource(w, r)
      PROVE  reports' = reports
    BY <1>1 DEF RollBackRefresh, VerificationDone, VerifySource, store
<1> QED  BY <1>1, StoreMoves

LEMMA ReportCoversStep ==
    ASSUME TypeInv, StageOwnsJob, ScopeInv, [Next]_vars
    PROVE  ReportCovers'
<1>1. CASE reports' = reports
    BY <1>1 DEF ScopeInv, ReportCovers, Newest
<1>2. ASSUME NEW w \in Workers, FinalizePaper(w) PROVE ReportCovers'
    <2> DEFINE entry == [attempt |-> proc[w].task.attempt,
                         report_ids |-> IF StoreOnly THEN {} ELSE summary,
                         results |-> results]
    <2>1. reports' = Append(reports, entry) /\ (StoreOnly \/ summary # None)
        BY <1>2 DEF FinalizePaper
    <2>2. entry.results = results /\ (~StoreOnly => entry.report_ids = summary)
        OBVIOUS
    <2> HIDE DEF entry
    <2>3. PendingStage = "finalize"
        BY <1>2, AtStage DEF FinalizePaper
    <2>4. Newest' = entry
        BY <2>1, AppendReport DEF TypeInv
    <2>5. ~StoreOnly => Full(entry.results) /\ Covers(entry.report_ids, entry.results)
        BY <2>1, <2>2, <2>3 DEF ScopeInv, StageFits
    <2> QED  BY <2>4, <2>5 DEF ReportCovers
<1> QED  BY <1>1, <1>2, ReportsMove

\* A reference's checkpoint leaves what the refresh does not concern alone.
LEMMA RetrieveOutside ==
    ASSUME TypeInv, StageOwnsJob, RestoreInv, ScopeInv, LeasesKept,
           NEW w \in Workers, NEW r \in Refs, RetrieveSource(w, r),
           evidence.targeted # None,
           NEW q \in Refs \ evidence.targeted.reference_ids
    PROVE  results'[q] = results[q]
<1>1. status \in Active /\ PendingStage = "retrieve" /\ reports # <<>> /\ ~StoreOnly
    BY AtStage DEF RetrieveSource, RestoreInv, Restores
<1>2. results[q] = Newest.results[q] /\ Newest.results[q] # None
    BY <1>1 DEF ScopeInv, Untouched, ReportCovers, Full, RestoreInv, Restores
<1>3. results[r] = None
    BY DEF RetrieveSource
<1>4. CASE Transient(q)
    BY <1>4 DEF LeasesKept, RefreshRefs
<1>5. CASE ~Transient(q)
    <2>1. PICK k \in Kinds, lapsed \in SUBSET {x \in Refs : Transient(x)} :
             results' = [x \in Refs |->
                CASE x = r          -> [kind |-> k, attempt |-> proc[w].task.attempt]
                  [] x \in lapsed  -> [results[x] EXCEPT !.kind = "unavailable"]
                  [] OTHER         -> results[x]]
        BY DEF RetrieveSource
    <2>2. q # r /\ q \notin lapsed
        BY <1>2, <1>3, <1>5
    <2> QED  BY <2>1, <2>2
<1> QED  BY <1>4, <1>5

\* A refresh that begins.
LEMMA BeginUntouched ==
    ASSUME TypeInv, RestoreInv, ScopeInv, [Next]_vars,
           \/ \E refs \in SUBSET Refs : SearchAgain(refs)
           \/ \E r \in Refs : AdoptUpload(r)
    PROVE  /\ Untouched(evidence.targeted)'
           /\ PendingStage' \in {"retrieve", "verify"} /\ status' \in Active
           /\ stage' # "completed" /\ status' # "completed"
           /\ PendingStage' = "verify" => Full(results')
           /\ ~StoreOnly
<1>1. ASSUME NEW refs \in SUBSET Refs, refs # {}, NEW newResults, NEW newStage \in {"extracted", "retrieved"},
             BeginRefresh(refs, newResults, newStage),
             \A r \in Refs \ refs : newResults[r] = results[r]
      PROVE  /\ Untouched(evidence.targeted)' /\ PendingStage' \in {"retrieve", "verify"}
             /\ status' \in Active /\ stage' = newStage /\ results' = newResults /\ ~StoreOnly
             /\ PendingStage' = "verify" => newStage = "retrieved"
             /\ Full(results)
    <2>1. /\ status = "completed" /\ status' = "running" /\ ~StoreOnly /\ stage' = newStage
          /\ results' = newResults /\ summary' = summary /\ summary = SummaryIds /\ reports # <<>>
          /\ evidence'.targeted = [reference_ids |-> refs, source_results |-> results,
                                   verification_summary |-> SummaryIds]
        BY <1>1, BeginMarks DEF BeginRefresh
    <2>2. Full(results)
        BY <2>1 DEF ScopeInv, ReportCovers, RestoreInv, CompletedShowsReport, Newest, Full
    <2>3. /\ PendingStage' \in {"retrieve", "verify"} /\ status' \in Active
          /\ PendingStage' = "verify" => newStage = "retrieved"
        BY <2>1, PendingIs DEF PendingStage, Active
    <2>4. Untouched(evidence.targeted)'
        BY <1>1, <2>1, <2>3 DEF Untouched
    <2> QED  BY <2>1, <2>2, <2>3, <2>4
<1>2. ASSUME NEW refs \in SUBSET Refs, SearchAgain(refs)
      PROVE  /\ Untouched(evidence.targeted)' /\ PendingStage' = "retrieve" /\ status' \in Active
             /\ stage' = "extracted" /\ ~StoreOnly
    <2>1. /\ refs # {}
          /\ BeginRefresh(refs, [r \in Refs |-> IF r \in refs THEN None ELSE results[r]], "extracted")
        BY <1>2 DEF SearchAgain
    <2>2. /\ Untouched(evidence.targeted)' /\ PendingStage' \in {"retrieve", "verify"}
          /\ status' \in Active /\ stage' = "extracted" /\ ~StoreOnly
          /\ PendingStage' = "verify" => "extracted" = "retrieved"
        <3> DEFINE new == [r \in Refs |-> IF r \in refs THEN None ELSE results[r]]
        <3>1. \A r \in Refs \ refs : new[r] = results[r]
            OBVIOUS
        <3> HIDE DEF new
        <3>2. BeginRefresh(refs, new, "extracted")
            BY <2>1 DEF new
        <3> QED  BY <1>1, <2>1, <3>1, <3>2
    <2> QED  BY <2>2
<1>3. ASSUME NEW r \in Refs, AdoptUpload(r)
      PROVE  /\ Untouched(evidence.targeted)' /\ PendingStage' \in {"retrieve", "verify"}
             /\ status' \in Active /\ stage' = "retrieved" /\ ~StoreOnly /\ Full(results')
    <2> DEFINE new == [results EXCEPT ![r] = [kind |-> "durable", attempt |-> issued']]
    <2>1. BeginRefresh({r}, new, "retrieved")
        BY <1>3 DEF AdoptUpload
    <2>2. results \in [Refs -> Sources \cup {None}] /\ issued' \in Attempts
        BY <2>1, BoundAssumption DEF BeginRefresh, Attempts, TypeInv, TypeOK
    <2>3. \A x \in Refs \ {r} : new[x] = results[x]
        BY <2>2
    <2>4. new[r] # None
        BY <2>2, NoneAssumption DEF Sources, SourceKinds
    <2> HIDE DEF new
    <2>5. /\ Untouched(evidence.targeted)' /\ PendingStage' \in {"retrieve", "verify"}
          /\ status' \in Active /\ stage' = "retrieved" /\ ~StoreOnly /\ Full(results)
          /\ results' = new
        BY <1>1, <2>1, <2>3
    <2> QED  BY <2>3, <2>4, <2>5 DEF Full
<1> QED  BY <1>2, <1>3 DEF Active

LEMMA UntouchedStep ==
    ASSUME TypeInv, StageOwnsJob, CopyInv, RestoreInv, ScopeInv, [Next]_vars, [LeasesKept]_vars,
           status' \in Active, evidence'.targeted # None
    PROVE  Untouched(evidence.targeted)'
<1>1. CASE \/ \E refs \in SUBSET Refs : SearchAgain(refs)
           \/ \E r \in Refs : AdoptUpload(r)
    BY <1>1, BeginUntouched
<1>2. CASE ~ \/ \E refs \in SUBSET Refs : SearchAgain(refs)
             \/ \E r \in Refs : AdoptUpload(r)
    <2>1. evidence'.targeted = evidence.targeted /\ evidence.targeted # None /\ ~StoreOnly
        BY <1>2, TargetedMoves DEF RestoreInv, Restores
    <2> DEFINE before == evidence.targeted
    <2>2. ASSUME NEW w \in Workers PROVE ~RollBackRefresh(w) /\ ~FinalizePaper(w)
        BY DEF RollBackRefresh, FinalizePaper, Active
    <2>3. ASSUME NEW w \in Workers, NEW s, Working(w, s, "entered")
          PROVE  status \in Active /\ PendingStage = s
        BY <2>3, AtStage
    <2>4. status \in Active
        BY <1>2, <2>3, PendingMoves DEF ExtractPaper, RetrievalDone, VerificationDone
    <2>5. Untouched(before)
        BY <2>1, <2>4 DEF ScopeInv
    <2>6. \A r \in Refs \ before.reference_ids : results'[r] = before.source_results[r]
        <3>1. CASE results' = results
            BY <2>5, <3>1 DEF Untouched
        <3>2. ASSUME NEW w \in Workers, NEW r \in Refs, RetrieveSource(w, r)
              PROVE  \A x \in Refs \ before.reference_ids : results'[x] = results[x]
            <4>1. CASE UNCHANGED vars
                BY <4>1 DEF vars, row
            <4>2. CASE LeasesKept
                BY <2>1, <3>2, <4>2, RetrieveOutside
            <4> QED  BY <4>1, <4>2
        <3> QED  BY <1>2, <2>2, <2>5, <3>1, <3>2, ResultsMove DEF Untouched
    <2>7. ASSUME NEW w \in Workers PROVE ~ExtractPaper(w)
        BY <2>3, <2>5 DEF ExtractPaper, Untouched
    <2>8. CASE \E w \in Workers : VerificationDone(w)
        <3>1. PICK w \in Workers : VerificationDone(w)
            BY <2>8
        <3>2. Verifies(w) /\ summary' = proc[w].built /\ stage' = "verified"
            BY <3>1, AtStage DEF VerificationDone, Verifies
        <3>3. PendingStage' = "finalize"
            BY <3>2, PendingIs DEF PendingStage
        <3>4. Outside(summary', before.reference_ids)
                 = Outside(before.verification_summary, before.reference_ids)
            BY <2>1, <3>2 DEF ScopeInv, BuiltFits
        <3> QED  BY <2>1, <2>6, <3>3, <3>4 DEF Untouched, Outside
    <2>9. CASE ~ \E w \in Workers : VerificationDone(w)
        <3>1. summary' = summary
            BY <2>2, <2>9, StoreMoves DEF VerifySource, row
        <3>2. CASE PendingStage' = PendingStage
            BY <2>1, <2>5, <2>6, <3>1, <3>2 DEF Untouched, Outside
        <3>3. ASSUME NEW w \in Workers, RetrievalDone(w) PROVE Untouched(evidence.targeted)'
            <4>1. PendingStage = "retrieve" /\ PendingStage' = "verify"
                BY <2>3, <3>3, PendingIs DEF RetrievalDone, PendingStage
            <4> QED  BY <2>1, <2>5, <2>6, <3>1, <4>1 DEF Untouched
        <3> QED  BY <1>2, <2>7, <2>9, <3>2, <3>3, PendingMoves
    <2> QED  BY <2>8, <2>9
<1> QED  BY <1>1, <1>2

\* The reports that an execution of verify begins with, and those it adds.
LEMMA EnterVerify ==
    ASSUME TypeInv, StageOwnsJob, RestoreInv, ScopeInv,
           NEW w \in Workers, EnterStage(w), proc[w].task.stage = "verify"
    PROVE  BuiltFits(w)'
<1>1. /\ proc \in [Processes -> Execution] /\ w \in Processes
      /\ UNCHANGED <<results, evidence>> /\ owner = w /\ proc[w].pc = "started"
    BY DEF TypeInv, TypeOK, Processes, EnterStage, At
<1>2. proc'[w].built = Retained(evidence)
    BY <1>1 DEF EnterStage, Execution
<1>3. status \in Active /\ PendingStage = "verify"
    BY <1>1 DEF StageOwnsJob, Matches
<1>4. CASE evidence.targeted = None
    <2>1. proc'[w].built = {}
        BY <1>2, <1>4 DEF Retained, RefreshRefs
    <2> QED  BY <1>1, <1>4, <2>1 DEF BuiltFits, OnePer
<1>5. CASE evidence.targeted # None
    <2> DEFINE before == evidence.targeted
               refs == before.reference_ids
    <2>1. /\ reports # <<>> /\ ~StoreOnly /\ refs # {}
          /\ before.source_results = Newest.results /\ before.verification_summary = Newest.report_ids
        BY <1>5 DEF RestoreInv, Restores
    <2>2. /\ summary = Newest.report_ids
          /\ \A r \in Refs \ refs : results[r] = Newest.results[r]
        BY <1>3, <1>5, <2>1 DEF ScopeInv, Untouched
    <2>3. Newest.report_ids \in SUBSET RecordIds
        BY <2>1, NewestType DEF Reports, TypeInv
    <2>4. proc'[w].built = Outside(Newest.report_ids, refs)
        BY <1>2, <1>5, <2>1, <2>2, <2>3, NoneAssumption DEF Retained, RefreshRefs, Outside
    <2>5. {id.ref : id \in Newest.report_ids} = Found(Newest.results) /\ OnePer(Newest.report_ids)
        BY <2>1 DEF ScopeInv, ReportCovers, Covers
    <2>6. OnePer(proc'[w].built)
        BY <2>4, <2>5 DEF OnePer, Outside
    <2>7. ASSUME NEW id \in proc'[w].built PROVE id.ref \in Found(results)
        <3>1. id.ref \in Found(Newest.results) /\ id.ref \notin refs
            BY <2>4, <2>5 DEF Outside
        <3> QED  BY <2>2, <3>1 DEF Found
    <2>8. Outside(proc'[w].built, refs) = Outside(before.verification_summary, refs)
        BY <2>1, <2>4 DEF Outside
    <2> QED  BY <1>1, <2>6, <2>7, <2>8 DEF BuiltFits, OnePer, Found, Outside
<1> QED  BY <1>4, <1>5

LEMMA VerifyOne ==
    ASSUME TypeInv, StageOwnsJob, CopyInv, RestoreInv, ScopeInv,
           NEW w \in Workers, NEW r \in Refs, VerifySource(w, r)
    PROVE  BuiltFits(w)'
<1> DEFINE id == ReportId(w, r)
<1>1. /\ Holds(w, {"entered"}) /\ proc[w].task.stage = "verify" /\ w \in Processes /\ proc[w] \in Execution
      /\ UNCHANGED <<results, evidence>>
    BY AtStage DEF VerifySource, row
<1>2. BuiltFits(w)
    BY <1>1 DEF ScopeInv, Verifies
<1>3. proc'[w].built = proc[w].built \cup {id}
    <2> HIDE DEF id
    <2>1. proc' = [proc EXCEPT ![w].built = @ \cup {id}]
        BY DEF VerifySource, id
    <2> QED  BY <1>1, <2>1 DEF Execution, TypeInv, TypeOK
<1>4. id.ref = r
    BY DEF ReportId, RunReport
<1>5. /\ r \in Found(results) /\ \A x \in proc[w].built : x.ref # r
      /\ RefreshRefs(proc[w].copy) \in {{}} \/ r \in RefreshRefs(proc[w].copy)
    BY DEF VerifySource, ToVerify, Verified, Found
<1> HIDE DEF id
<1>6. OnePer(proc'[w].built)
    BY <1>2, <1>3, <1>4, <1>5 DEF BuiltFits, OnePer
<1>7. \A x \in proc'[w].built : x.ref \in Found(results)
    BY <1>2, <1>3, <1>4, <1>5 DEF BuiltFits
<1>8. ASSUME evidence.targeted # None
      PROVE  Outside(proc'[w].built, evidence.targeted.reference_ids)
                = Outside(evidence.targeted.verification_summary, evidence.targeted.reference_ids)
    <2>1. RefreshRefs(proc[w].copy) = evidence.targeted.reference_ids
        BY <1>1, <1>8 DEF CopyInv, Marks, Holds, RefreshRefs
    <2>2. r \in evidence.targeted.reference_ids
        BY <1>5, <1>8, <2>1 DEF RestoreInv, Restores
    <2>3. Outside(proc'[w].built, evidence.targeted.reference_ids)
             = Outside(proc[w].built, evidence.targeted.reference_ids)
        BY <1>3, <1>4, <2>2 DEF Outside
    <2> QED  BY <1>2, <1>8, <2>3 DEF BuiltFits
<1> QED  BY <1>1, <1>6, <1>7, <1>8 DEF BuiltFits, OnePer, Found, Outside

LEMMA BuiltFitsStep ==
    ASSUME TypeInv, StageOwnsJob, CopyInv, RestoreInv, ScopeInv, [Next]_vars,
           NEW w \in Workers, Verifies(w)'
    PROVE  BuiltFits(w)'
<1>1. proc \in [Processes -> Execution] /\ w \in Processes /\ w # None /\ owner' = w /\ proc'[w].pc = "entered"
    BY ProcessAssumption DEF TypeInv, TypeOK, Processes, Verifies, Holds
<1>2. CASE Stays(w)
    <2>1. /\ Verifies(w) /\ owner = w /\ proc[w].pc = "entered" /\ proc[w].task.stage = "verify"
          /\ proc'[w] = proc[w]
        BY <1>1, <1>2 DEF Stays, Verifies, Holds
    <2>2. status \in Active
        BY <2>1 DEF StageOwnsJob, Matches
    <2>3. ASSUME NEW x \in Workers
          PROVE  /\ ~RollBackRefresh(x) /\ ~FinalizePaper(x) /\ ~StartCleanup(x)
                 /\ \A r \in Refs : ~RetrieveSource(x, r)
        BY <1>1, <2>1, <2>3 DEF RollBackRefresh, Release, FinalizePaper, StartCleanup, RetrieveSource,
           Working, At
    <2>4. ASSUME NEW p \in Processes PROVE ~DeleteInput(p)
        BY <2>1 DEF DeleteInput, At
    <2>5. /\ \A refs \in SUBSET Refs : ~SearchAgain(refs)
          /\ \A r \in Refs : ~AdoptUpload(r)
        BY <2>2 DEF SearchAgain, AdoptUpload, BeginRefresh, Active
    <2>6. results' = results /\ evidence'.targeted = evidence.targeted
        BY <2>3, <2>4, <2>5, ResultsMove, TargetedMoves
    <2> QED  BY <2>1, <2>6 DEF ScopeInv, BuiltFits, OnePer, Found, Outside
<1>3. CASE EnterStage(w)
    <2>1. proc'[w].task = proc[w].task
        BY <1>1, <1>3 DEF EnterStage, Execution
    <2> QED  BY <1>3, <2>1, EnterVerify DEF Verifies
<1> QED  BY <1>1, <1>2, <1>3, VerifyOne, Phases

\* What verify hands over covers the sources.
LEMMA VerifiedCovers ==
    ASSUME TypeInv, StageOwnsJob, CopyInv, RestoreInv, ScopeInv, NEW w \in Workers, VerificationDone(w)
    PROVE  Covers(proc[w].built, results)
<1>1. /\ Verifies(w) /\ status \in Active /\ PendingStage = "verify"
      /\ owner = w /\ proc[w].pc = "entered"
    BY AtStage DEF VerificationDone, Verifies, Holds
<1>2. BuiltFits(w)
    BY <1>1 DEF ScopeInv
<1>3. RefreshRefs(proc[w].copy) = RefreshRefs(evidence)
    BY <1>1 DEF CopyInv, Marks, RefreshRefs
<1>4. ASSUME NEW r \in Found(results) PROVE \E id \in proc[w].built : id.ref = r
    <2>1. CASE RefreshRefs(evidence) = {} \/ r \in RefreshRefs(evidence)
        BY <1>3, <2>1 DEF VerificationDone, ToVerify, Verified, Found
    <2>2. CASE RefreshRefs(evidence) # {} /\ r \notin RefreshRefs(evidence)
        <3> DEFINE refs == evidence.targeted.reference_ids
        <3>1. evidence.targeted # None /\ r \in Refs \ refs
            BY <2>2 DEF RefreshRefs, Found
        <3>2. /\ reports # <<>> /\ ~StoreOnly
              /\ evidence.targeted.verification_summary = Newest.report_ids
              /\ results[r] = Newest.results[r]
            BY <1>1, <3>1 DEF RestoreInv, Restores, ScopeInv, Untouched
        <3>3. {id.ref : id \in Newest.report_ids} = Found(Newest.results)
            BY <3>2 DEF ScopeInv, ReportCovers, Covers
        <3>4. PICK id \in Newest.report_ids : id.ref = r
            BY <3>2, <3>3 DEF Found
        <3>5. id \in Outside(Newest.report_ids, refs)
            BY <3>1, <3>4 DEF Outside
        <3> QED  BY <1>2, <3>1, <3>2, <3>4, <3>5 DEF BuiltFits, Outside
    <2> QED  BY <2>1, <2>2
<1> QED  BY <1>2, <1>4 DEF BuiltFits, Covers

LEMMA CompletedStage ==
    ASSUME TypeInv, StageOwnsJob, RestoreInv, ScopeInv, [Next]_vars
    PROVE  status' = "completed" <=> stage' = "completed"
<1>1. status = "completed" <=> stage = "completed"
    BY DEF ScopeInv, StageFits
<1>2. CASE Quiet \/ ExpireInput \/ CleanStaleInput \/ UploadInput
    BY <1>1, <1>2 DEF Quiet, ExpireInput, CleanStaleInput, UploadInput
<1>3. ASSUME NEW w \in Workers, EnterStage(w) PROVE status' # "completed" /\ stage' # "completed"
    <2>1. status \in Active /\ proc[w].task.stage \in Stages
        BY <1>3 DEF EnterStage, At, StageOwnsJob, Matches, TypeInv, ProcOK, WellFormed, Messages, Processes
    <2> QED  BY <1>3, <2>1 DEF EnterStage, EnteredAs, Stages, Active
<1>4. ASSUME NEW w \in Workers, ExtractPaper(w) \/ RetrievalDone(w) \/ VerificationDone(w)
      PROVE  status' # "completed" /\ stage' # "completed"
    <2>1. status \in Active /\ status' = status
        BY <1>4, AtStage DEF ExtractPaper, RetrievalDone, VerificationDone
    <2> QED  BY <1>4, <2>1 DEF ExtractPaper, RetrievalDone, VerificationDone, Active
<1>5. ASSUME NEW w \in Workers, FinalizePaper(w) \/ RollBackRefresh(w) \/ FailJob(w)
      PROVE  status' = "completed" <=> stage' = "completed"
    BY <1>5 DEF FinalizePaper, RollBackRefresh, FailJob
<1>6. ASSUME NEW w \in Workers,
             \/ StartCleanup(w) \/ \E r \in Refs : RetrieveSource(w, r) \/ VerifySource(w, r)
      PROVE  UNCHANGED <<status, stage>>
    BY <1>6 DEF StartCleanup, RetrieveSource, VerifySource, row
<1>7. ASSUME NEW w \in Workers, NEW m \in Messages, StartStage(w, m)
      PROVE  status' # "completed" /\ stage' # "completed"
    BY <1>1, <1>7 DEF StartStage, Matches, Active
<1>8. ASSUME NEW p \in Processes, DeleteInput(p) PROVE UNCHANGED <<status, stage>>
    BY <1>8 DEF DeleteInput
<1> QED  BY <1>1, <1>2, <1>3, <1>4, <1>5, <1>6, <1>7, <1>8, StepKinds, BeginUntouched

LEMMA StageFitsStep ==
    ASSUME TypeInv, StageOwnsJob, CopyInv, RestoreInv, ScopeInv, [Next]_vars
    PROVE  StageFits'
<1> DEFINE Fits == /\ ~StoreOnly /\ PendingStage' \in {"verify", "finalize"} => Full(results')
                   /\ summary' # None /\ PendingStage' = "finalize" => Covers(summary', results')
                   /\ StoreOnly => PendingStage' # "verify"
<1>1. StageFits
    BY DEF ScopeInv
<1>2. StoreOnly => summary' = None
    <2>1. ASSUME StoreOnly, NEW w \in Workers, FinalizePaper(w) \/ \E r \in Refs : VerifySource(w, r)
          PROVE  summary' = summary
        BY <2>1 DEF FinalizePaper, VerifySource, row
    <2>2. ASSUME StoreOnly, NEW w \in Workers, RollBackRefresh(w) \/ VerificationDone(w) PROVE FALSE
        BY <1>1, <2>2, RollBackKeeps, AtStage DEF Restores, VerificationDone, StageFits
    <2> QED  BY <1>1, <2>1, <2>2, StoreMoves DEF StageFits
<1> SUFFICES Fits
    BY <1>2, CompletedStage DEF StageFits
<1>3. CASE status' \notin Active
    BY <1>3, PendingIs DEF PendingStage
<1>4. CASE \/ \E refs \in SUBSET Refs : SearchAgain(refs)
           \/ \E r \in Refs : AdoptUpload(r)
    BY <1>4, BeginUntouched
<1>5. ASSUME NEW w \in Workers, ExtractPaper(w) PROVE Fits
    <2>1. status' = status /\ status \in Active /\ stage' = "extracted" /\ summary' = summary
        BY <1>5, AtStage DEF ExtractPaper
    <2>2. /\ ~StoreOnly => PendingStage' = "retrieve"
          /\ StoreOnly => PendingStage' = "finalize"
        BY <2>1, PendingIs DEF PendingStage
    <2> QED  BY <1>1, <2>1, <2>2 DEF StageFits
<1>6. ASSUME NEW w \in Workers, RetrievalDone(w) PROVE Fits
    <2>1. /\ status' = status /\ status \in Active /\ stage' = "retrieved" /\ PendingStage = "retrieve"
          /\ results' = results /\ Full(results)
        BY <1>6, AtStage DEF RetrievalDone, Full
    <2>2. PendingStage' = "verify" /\ ~StoreOnly
        BY <2>1, PendingIs DEF PendingStage
    <2> QED  BY <2>1, <2>2
<1>7. ASSUME NEW w \in Workers, VerificationDone(w) PROVE Fits
    <2>1. /\ status' = status /\ status \in Active /\ stage' = "verified" /\ PendingStage = "verify"
          /\ results' = results /\ summary' = proc[w].built
        BY <1>7, AtStage DEF VerificationDone
    <2>2. PendingStage' = "finalize"
        BY <2>1, PendingIs DEF PendingStage
    <2> QED  BY <1>1, <1>7, <2>1, <2>2, VerifiedCovers DEF StageFits
<1>8. CASE /\ status' \in Active /\ status \in Active /\ PendingStage' = PendingStage
           /\ \A w \in Workers : ~VerificationDone(w)
    <2>1. ASSUME NEW w \in Workers PROVE ~RollBackRefresh(w) /\ ~FinalizePaper(w)
        BY <1>8 DEF RollBackRefresh, FinalizePaper, Active
    <2>2. summary' = summary
        BY <1>8, <2>1, StoreMoves DEF VerifySource, row
    <2>3. CASE results' = results
        BY <1>1, <1>8, <2>2, <2>3 DEF StageFits
    <2>4. ASSUME NEW w \in Workers, NEW r \in Refs, RetrieveSource(w, r) PROVE Fits
        BY <1>8, <2>4, AtStage DEF RetrieveSource
    <2>5. ~ \/ \E refs \in SUBSET Refs : SearchAgain(refs)
            \/ \E r \in Refs : AdoptUpload(r)
        BY <1>8 DEF SearchAgain, AdoptUpload, BeginRefresh, Active
    <2> QED  BY <2>1, <2>3, <2>4, <2>5, ResultsMove
<1> QED  BY <1>3, <1>4, <1>5, <1>6, <1>7, <1>8, PendingMoves

LEMMA ScopeStep ==
    TypeInv /\ StageOwnsJob /\ CopyInv /\ RestoreInv /\ ScopeInv /\ [Next]_vars /\ [LeasesKept]_vars
       => ScopeInv'
BY ReportCoversStep, StageFitsStep, UntouchedStep, BuiltFitsStep DEF ScopeInv

LEMMA ScopeInit == Init => ScopeInv
<1> SUFFICES ASSUME Init PROVE ScopeInv
    OBVIOUS
<1>1. owner = Intake /\ Intake \notin Workers
    BY ProcessAssumption DEF Init
<1>2. PendingStage = "extract" /\ summary = None /\ reports = <<>> /\ evidence.targeted = None
    BY PendingIs DEF Init, PendingStage, Active
<1> QED  BY <1>1, <1>2 DEF Init, ScopeInv, ReportCovers, StageFits, Verifies, Holds

LEMMA ScopeCovers == TypeInv /\ RestoreInv /\ ScopeInv => SummaryCoversSources
<1> SUFFICES ASSUME TypeInv, RestoreInv, ScopeInv, summary # None, status # "failed",
                    stage \in {"verified", "finalizing", "completed"}
             PROVE  /\ {id.ref : id \in summary} = {r \in Refs : results[r].kind # "unavailable"}
                    /\ \A i, j \in summary : i.ref = j.ref => i = j
    BY DEF SummaryCoversSources
<1>1. ~StoreOnly /\ (status = "completed" <=> stage = "completed")
    BY DEF ScopeInv, StageFits
<1>2. Full(results) /\ Covers(summary, results)
    <2>1. CASE status = "completed"
        BY <1>1, <2>1 DEF RestoreInv, CompletedShowsReport, ScopeInv, ReportCovers, Newest
    <2>2. CASE status # "completed"
        <3>1. status \in Active /\ stage \in {"verified", "finalizing"}
            BY <1>1, <2>2 DEF TypeInv, TypeOK, Active, Terminal
        <3>2. PendingStage = "finalize"
            BY <3>1, PendingIs DEF PendingStage
        <3> QED  BY <1>1, <3>2 DEF ScopeInv, StageFits
    <2> QED  BY <2>1, <2>2
<1>3. Found(results) = {r \in Refs : results[r].kind # "unavailable"}
    BY <1>2 DEF Found, Full
<1> QED  BY <1>2, <1>3 DEF Covers, OnePer

LEMMA ScopedReport ==
    ASSUME TypeInv, StageOwnsJob, RestoreInv, ScopeInv, [Next]_vars,
           reports' # reports, evidence.targeted # None
    PROVE  LET old == reports[Len(reports)]
               new == reports'[Len(reports')]
           IN \A r \in Refs \ evidence.targeted.reference_ids :
                /\ new.results[r] = old.results[r]
                /\ {id \in new.report_ids : id.ref = r} = {id \in old.report_ids : id.ref = r}
<1>1. PICK w \in Workers : FinalizePaper(w)
    BY ReportsMove
<1> DEFINE entry == [attempt |-> proc[w].task.attempt,
                     report_ids |-> IF StoreOnly THEN {} ELSE summary,
                     results |-> results]
           before == evidence.targeted
<1>2. reports' = Append(reports, entry)
    BY <1>1 DEF FinalizePaper
<1>3. status \in Active /\ PendingStage = "finalize"
    BY <1>1, AtStage DEF FinalizePaper
<1>4. /\ ~StoreOnly /\ before.source_results = Newest.results
      /\ before.verification_summary = Newest.report_ids
    BY DEF RestoreInv, Restores
<1>5. entry.results = results /\ entry.report_ids = summary
    BY <1>4
<1> HIDE DEF entry
<1>6. Newest' = entry
    BY <1>2, AppendReport DEF TypeInv
<1>7. /\ \A r \in Refs \ before.reference_ids : results[r] = Newest.results[r]
      /\ Outside(summary, before.reference_ids) = Outside(Newest.report_ids, before.reference_ids)
    BY <1>3, <1>4 DEF ScopeInv, Untouched
<1>8. ASSUME NEW r \in Refs \ before.reference_ids
      PROVE  {id \in summary : id.ref = r} = {id \in Newest.report_ids : id.ref = r}
    BY <1>7, <1>8 DEF Outside
<1> QED  BY <1>5, <1>6, <1>7, <1>8 DEF Newest

\* With the leases of untouched sources kept, the summary lists exactly one
\* report for each source that was retrieved, whatever executions of verify
\* stop half-way and whatever a refresh replaces, keeps or puts back: the loss
\* of such a lease is the only way to a summary that does not.
THEOREM SummaryCovers == Spec /\ [][LeasesKept]_vars => []SummaryCoversSources
<1> QED  BY RestoreInit, InitType, ScopeInit, StepType, StageOwnsJobStep, CopyStep, RestoreStep, ScopeStep,
            ScopeCovers, PTL DEF Spec

\* With the leases of untouched sources kept, a report that a refresh publishes
\* differs from the one before it in the refreshed references only.
THEOREM RefreshStaysScoped == Spec /\ [][LeasesKept]_vars => RefreshIsScoped
<1>1. TypeInv /\ StageOwnsJob /\ RestoreInv /\ ScopeInv /\ [Next]_vars =>
         [reports' # reports /\ evidence.targeted # None =>
            LET old == reports[Len(reports)]
                new == reports'[Len(reports')]
            IN \A r \in Refs \ evidence.targeted.reference_ids :
                 /\ new.results[r] = old.results[r]
                 /\ {id \in new.report_ids : id.ref = r} = {id \in old.report_ids : id.ref = r}]_vars
    BY ScopedReport
<1> QED  BY <1>1, RestoreInit, InitType, ScopeInit, StepType, StageOwnsJobStep, CopyStep, RestoreStep,
            ScopeStep, PTL DEF Spec, RefreshIsScoped

\* A deployment that acquires no transient source has no lease to lose.
Stored(res) == \A r \in Refs : res[r] # None => res[r].kind # "transient"
StoredInv == Stored(results) /\ (reports # <<>> => Stored(Newest.results))

LEMMA StoredStep ==
    ASSUME "transient" \notin Kinds, TypeInv, RestoreInv, StoredInv, [Next]_vars
    PROVE  StoredInv'
<1>1. Stored(results')
    <2>1. ASSUME NEW w \in Workers, RollBackRefresh(w) PROVE Stored(results')
        BY <2>1, RollBackKeeps DEF Restores, StoredInv
    <2>2. ASSUME NEW w \in Workers, NEW r \in Refs, RetrieveSource(w, r) PROVE Stored(results')
        <3>1. PICK k \in Kinds, lapsed \in SUBSET {x \in Refs : Transient(x)} :
                 results' = [x \in Refs |->
                    CASE x = r          -> [kind |-> k, attempt |-> proc[w].task.attempt]
                      [] x \in lapsed  -> [results[x] EXCEPT !.kind = "unavailable"]
                      [] OTHER         -> results[x]]
            BY <2>2 DEF RetrieveSource
        <3>2. lapsed = {}
            BY DEF Transient, StoredInv, Stored
        <3>3. k # "transient"
            OBVIOUS
        <3>4. ASSUME NEW x \in Refs PROVE results'[x] \in {results[x], [kind |-> k, attempt |-> proc[w].task.attempt]}
            BY <3>1, <3>2
        <3> QED  BY <3>3, <3>4 DEF StoredInv, Stored
    <2>3. ASSUME NEW refs \in SUBSET Refs, SearchAgain(refs) PROVE Stored(results')
        BY <2>3 DEF SearchAgain, BeginRefresh, StoredInv, Stored
    <2>4. ASSUME NEW r \in Refs, AdoptUpload(r) PROVE Stored(results')
        <3> DEFINE source == [kind |-> "durable", attempt |-> issued']
        <3>1. results' = [results EXCEPT ![r] = source] /\ source.kind = "durable"
            BY <2>4 DEF AdoptUpload, BeginRefresh
        <3> HIDE DEF source
        <3> QED  BY <3>1 DEF StoredInv, Stored, TypeInv, TypeOK
    <2> QED  BY <2>1, <2>2, <2>3, <2>4, ResultsMove DEF StoredInv
<1>2. (reports # <<>> => Stored(Newest.results))'
    <2>1. ASSUME NEW w \in Workers, FinalizePaper(w) PROVE Stored(Newest'.results)
        <3> DEFINE entry == [attempt |-> proc[w].task.attempt,
                             report_ids |-> IF StoreOnly THEN {} ELSE summary,
                             results |-> results]
        <3>1. reports' = Append(reports, entry) /\ entry.results = results
            BY <2>1 DEF FinalizePaper
        <3> HIDE DEF entry
        <3> QED  BY <3>1, AppendReport DEF TypeInv, StoredInv
    <2> QED  BY <2>1, ReportsMove DEF StoredInv, Newest, Stored
<1> QED  BY <1>1, <1>2 DEF StoredInv, Stored

LEMMA LeasesOfNone == StoredInv => LeasesKept
BY DEF StoredInv, Stored, LeasesKept, Transient

\* Where no transient source is acquired, the two hold of every behaviour.
THEOREM StoredSourcesCovered ==
    "transient" \notin Kinds => (Spec => []SummaryCoversSources /\ RefreshIsScoped)
<1> SUFFICES ASSUME "transient" \notin Kinds
             PROVE  Spec => []SummaryCoversSources /\ RefreshIsScoped
    OBVIOUS
<1>1. Init => StoredInv
    BY DEF Init, StoredInv, Stored
<1>2. TypeInv /\ RestoreInv /\ StoredInv /\ [Next]_vars => StoredInv'
    BY StoredStep
<1>3. StoredInv => [LeasesKept]_vars
    BY LeasesOfNone
<1>4. Spec => [][LeasesKept]_vars
    BY <1>1, <1>2, <1>3, RestoreInit, InitType, StepType, StageOwnsJobStep, CopyStep, RestoreStep, PTL DEF Spec
<1> QED  BY <1>4, SummaryCovers, RefreshStaysScoped, PTL

=============================================================================
