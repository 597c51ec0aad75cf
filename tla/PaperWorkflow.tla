---------------------------- MODULE PaperWorkflow ----------------------------
(***************************************************************************)
(* One paper job of SourceFidelity: the jobs row, the Celery messages that *)
(* drive its four stages (extract, retrieve, verify, finalize), the        *)
(* PostgreSQL advisory lock that lets one process at a time work on it,    *)
(* the reports it publishes and the targeted refreshes that publish the    *)
(* next version of a report.                                               *)
(*                                                                         *)
(* An action is one committed transaction of the code, or one event of its *)
(* environment (a crash, a lost connection, a lost message, time passing). *)
(* The column jobs.upload_evidence is one JSON value that every writer     *)
(* replaces as a whole, so a process that read it earlier writes back what *)
(* it read: proc[a].copy is that read value.                               *)
(***************************************************************************)
EXTENDS Naturals, Sequences, FiniteSets

CONSTANTS
    Workers,          \* Celery worker processes
    Intake,           \* the API request that creates the job
    Cleaner,          \* the scheduled cleanup_stale_paper_job_inputs
    Refs,             \* the references the paper cites
    None,             \* "no value"
    MaxStageStarts,   \* MAX_STAGE_STARTS: starts of a stage in one attempt
    MaxAttempts,      \* bound: workflow attempts (first run and refreshes)
    MaxZombies,       \* bound: processes at work after their lock was lost
    MaxQueue,         \* bound: distinct stage messages with the broker
    StoreOnly,        \* jobs.store_only: extract, then finalize
    KeepPolicy,       \* the scope keeps the submitted file (recheck-copy-v1)
    Kinds,            \* outcomes of acquiring a source
    Confirmations,    \* receipts object storage may give for the input upload
    DeleteOutcomes    \* results a delete of the input object may have

\* A source held in the source library; one held for this job only, under the
\* lease of a verification run; or nothing to verify (not found, no
\* permission, a text that cannot be used, or a lease that ended).
SourceKinds == {"durable", "transient", "unavailable"}
Processes == Workers \cup {Intake, Cleaner}

ASSUME ProcessAssumption ==
    /\ Intake # Cleaner
    /\ {Intake, Cleaner} \cap Workers = {}
    /\ None \notin Processes
ASSUME BoundAssumption ==
    /\ MaxStageStarts \in Nat \ {0}
    /\ MaxAttempts \in Nat \ {0}
    /\ MaxQueue \in Nat \ {0}
    /\ MaxZombies \in Nat
ASSUME PolicyAssumption ==
    /\ StoreOnly \in BOOLEAN
    /\ KeepPolicy \in BOOLEAN
    /\ Kinds \subseteq SourceKinds
    /\ Confirmations \subseteq BOOLEAN
    /\ DeleteOutcomes \subseteq BOOLEAN

VARIABLES
    status,     \* jobs.status
    stage,      \* jobs.stage
    results,    \* jobs.source_results, by reference
    summary,    \* jobs.verification_summary: None, or the report ids it lists
    input,      \* the uploaded file, as the row knows it
    expired,    \* jobs.input_expires_at has passed
    evidence,   \* jobs.upload_evidence
    records,    \* rows of verification_reports
    reports,    \* rows of reports, oldest version first
    owner,      \* process whose connection holds the job's advisory lock
    proc,       \* what each process is doing
    queue,      \* stage messages that are, or will be, with the broker
    upload,     \* progress of a source upload, by reference
    issued      \* attempt ids generated so far

row   == <<status, stage, results, summary, input, expired, evidence>>
store == <<records, reports>>
vars  == <<row, store, owner, proc, queue, upload, issued>>

-----------------------------------------------------------------------------
(* Vocabulary. *)

Active   == {"pending", "running"}
Terminal == {"completed", "failed"}
Stages   == {"extract", "retrieve", "verify", "finalize"}
JobStages == {"uploaded", "extracting", "extracted", "retrieving", "retrieved",
              "verifying", "verified", "finalizing", "completed", "failed"}

Rank == [extract |-> 1, retrieve |-> 2, verify |-> 3, finalize |-> 4]

\* A defect of pending_stage: a run that stopped inside finalize is not resumed.
PendingUntilFinalize(st, sg) ==
    IF st \notin Active THEN None ELSE
    CASE sg \in {"uploaded", "extracting"}   -> "extract"
      [] sg \in {"extracted", "retrieving"}  -> IF StoreOnly THEN "finalize" ELSE "retrieve"
      [] sg \in {"retrieved", "verifying"}   -> "verify"
      [] sg = "verified"                     -> "finalize"
      [] OTHER                               -> None

\* The stage the row waits for: paper_dispatch.pending_stage.
PendingOf(st, sg) ==
    IF st \notin Active THEN None ELSE
    CASE sg \in {"uploaded", "extracting"}   -> "extract"
      [] sg \in {"extracted", "retrieving"}  -> IF StoreOnly THEN "finalize" ELSE "retrieve"
      [] sg \in {"retrieved", "verifying"}   -> "verify"
      [] sg \in {"verified", "finalizing"}   -> "finalize"
      [] OTHER                               -> None

PendingStage == PendingOf(status, stage)

\* The stages that follow s in the Celery chain built by dispatch_paper_workflow.
Following(s) ==
    CASE s = "extract"  -> {IF StoreOnly THEN "finalize" ELSE "retrieve"}
      [] s = "retrieve" -> {"verify"}
      [] s = "verify"   -> {"finalize"}
      [] OTHER          -> {}

Attempts == 1 .. MaxAttempts
Messages == [stage : Stages, attempt : Attempts]
Sources  == [kind : SourceKinds, attempt : Attempts]
RecordIds == [ref : Refs, attempt : Attempts, start : 0 .. MaxStageStarts]

Refresh  == [reference_ids : SUBSET Refs,
             source_results : [Refs -> Sources \cup {None}],
             verification_summary : SUBSET RecordIds]

ASSUME NoneAssumption ==
    /\ None \notin Stages \cup Refresh \cup Sources
    /\ \A ids \in SUBSET RecordIds : ids # None

Evidence == [attempt_id : Attempts \cup {0},
             dispatch_due : BOOLEAN,
             stage_starts : [Stages -> 0 .. MaxStageStarts],
             retry_wait : SUBSET Stages,
             targeted : Refresh \cup {None},
             queued : SUBSET Refs,
             ready : BOOLEAN,
             confirmed : BOOLEAN,
             cleanup_started : BOOLEAN,
             kept : BOOLEAN]

Reports == [attempt : Attempts, report_ids : SUBSET RecordIds,
            results : [Refs -> Sources \cup {None}]]

Idle == [pc |-> "idle", task |-> None, copy |-> None, built |-> {}]
PCs  == {"idle", "uploading", "uploaded", "started", "entered", "published",
         "checked", "deleting", "returning", "retryable", "fatal"}

Execution == [pc : PCs, task : Messages \cup {None},
              copy : Evidence \cup {None}, built : SUBSET RecordIds]

TypeOK ==
    /\ status \in Active \cup Terminal
    /\ stage \in JobStages
    /\ results \in [Refs -> Sources \cup {None}]
    /\ summary \in (SUBSET RecordIds) \cup {None}
    /\ input \in {"stored", "deleted"}
    /\ expired \in BOOLEAN
    /\ evidence \in Evidence
    /\ records \subseteq RecordIds
    /\ reports \in Seq(Reports)
    /\ owner \in Processes \cup {None}
    /\ proc \in [Processes -> Execution]
    /\ queue \subseteq Messages
    /\ upload \in [Refs -> {"idle", "refused", "waiting", "prepared"}]
    /\ issued \in 0 .. MaxAttempts

Init ==
    \* create_paper_job has committed the row that names the input object
    \* and is about to upload the object, under the job's lock.
    /\ status = "pending" /\ stage = "uploaded"
    /\ results = [r \in Refs |-> None] /\ summary = None
    /\ input = "stored" /\ expired = FALSE
    /\ evidence = [attempt_id |-> 0, dispatch_due |-> FALSE,
                   stage_starts |-> [s \in Stages |-> 0], retry_wait |-> {},
                   targeted |-> None, queued |-> {}, ready |-> FALSE,
                   confirmed |-> FALSE, cleanup_started |-> FALSE, kept |-> FALSE]
    /\ records = {} /\ reports = <<>>
    /\ owner = Intake
    /\ proc = [p \in Processes |-> IF p = Intake THEN [Idle EXCEPT !.pc = "uploading"] ELSE Idle]
    /\ queue = {}
    /\ upload = [r \in Refs |-> "idle"]
    /\ issued = 0

\* A message that was handled is acknowledged; a second copy may remain.
Acknowledge(m) == queue' \in {queue, queue \ {m}}

\* It is handled and more is published: the chain's next message, or a retry.
AcknowledgeAndPublish(m, more) ==
    /\ \E q \in {queue, queue \ {m}} : queue' \in {q \cup more, q}
    /\ Cardinality(queue') <= MaxQueue

ChainAfter(m) == {[stage |-> s, attempt |-> m.attempt] : s \in Following(m.stage)}

\* attempt_matches: a message counts for the row's attempt, while it is active.
Matches(a) == status \in Active /\ evidence.attempt_id = a

Release(p) == owner' = None /\ proc' = [proc EXCEPT ![p] = Idle]
\* A step of a process that still holds the job's lock (StageExecution.check
\* before every statement). The defect: an execution that is not fenced.
AtUnfenced(p, pc) == proc[p].pc = pc
At(p, pc)  == owner = p /\ proc[p].pc = pc
Goto(p, pc) == owner' = owner /\ proc' = [proc EXCEPT ![p].pc = pc]

\* paper_dispatch.prepare_dispatch on an upload_evidence value. The defect
\* dispatches a refresh under the attempt that the row has.
PrepareSameAttempt(e, a) ==
    [e EXCEPT !.attempt_id = IF @ = 0 THEN a ELSE @, !.dispatch_due = TRUE,
              !.stage_starts = [s \in Stages |-> 0], !.retry_wait = {}]
PrepareDispatch(e, a) ==
    [e EXCEPT !.attempt_id = a, !.dispatch_due = TRUE,
              !.stage_starts = [s \in Stages |-> 0], !.retry_wait = {}]

RefreshRefs(e) == IF e.targeted = None THEN {} ELSE e.targeted.reference_ids

-----------------------------------------------------------------------------
(* Intake: paper_upload.create_paper_job. *)

UploadInput ==
    /\ At(Intake, "uploading")
    /\ \/ \E c \in Confirmations :
            /\ evidence' = [evidence EXCEPT !.confirmed = c]
            /\ Goto(Intake, "uploaded")
            /\ UNCHANGED <<status, stage>>
       \/ /\ status' = "failed" /\ stage' = "failed"
          /\ Release(Intake)
          /\ UNCHANGED evidence
    /\ UNCHANGED <<results, summary, input, expired, store, queue, upload, issued>>

QueueJob ==
    /\ At(Intake, "uploaded")
    /\ issued < MaxAttempts
    /\ issued' = issued + 1
    /\ evidence' = PrepareDispatch([evidence EXCEPT !.ready = TRUE], issued')
    /\ Release(Intake)
    /\ UNCHANGED <<status, stage, results, summary, input, expired, store, queue, upload>>

-----------------------------------------------------------------------------
(* Dispatch: claim_dispatch, publication, and the time that passes. *)

\* A defect: the retry delay outlives the lease of the dispatch.
LeaseEndsDelayStays ==
    /\ status \in Active
    /\ ~evidence.dispatch_due
    /\ evidence.attempt_id # 0
    /\ evidence' = [evidence EXCEPT !.dispatch_due = TRUE]
    /\ UNCHANGED <<status, stage, results, summary, input, expired, store, owner, proc,
                   queue, upload, issued>>

\* The lease or the retry delay ends: dispatch_after and every
\* stage_retry_after (never later than dispatch_after) are in the past.
LeaseEnds ==
    /\ status \in Active
    /\ ~evidence.dispatch_due
    /\ evidence.attempt_id # 0
    /\ evidence' = [evidence EXCEPT !.dispatch_due = TRUE, !.retry_wait = {}]
    /\ UNCHANGED <<status, stage, results, summary, input, expired, store, owner, proc,
                   queue, upload, issued>>

ClaimDispatch ==
    /\ owner = None
    /\ status \in Active
    /\ evidence.attempt_id # 0
    /\ PendingStage # None
    /\ evidence.dispatch_due
    /\ evidence' = [evidence EXCEPT !.dispatch_due = FALSE]
    /\ queue' = queue \cup {[stage |-> PendingStage, attempt |-> evidence.attempt_id]}
    /\ Cardinality(queue') <= MaxQueue
    /\ UNCHANGED <<status, stage, results, summary, input, expired, store, owner, proc,
                   upload, issued>>

\* The dispatcher dies before it publishes, the broker refuses the
\* publication, or the broker loses the message.
LoseMessage(m) ==
    /\ m \in queue
    /\ queue' = queue \ {m}
    /\ UNCHANGED <<row, store, owner, proc, upload, issued>>

-----------------------------------------------------------------------------
(* A worker receives a stage message: _run_stage up to _start_stage. *)

\* Starts of a stage that the attempt has left; the defect counts one too many.
OneStartMore(s) == evidence.stage_starts[s] <= MaxStageStarts
StartsLeft(s)   == evidence.stage_starts[s] < MaxStageStarts

Receives(w, m) == w \in Workers /\ proc[w].pc = "idle" /\ m \in queue

\* job_stage_busy: the message is ignored, whatever work it carried.
IgnoreBusy(w, m) ==
    /\ Receives(w, m) /\ owner # None
    /\ Acknowledge(m)
    /\ UNCHANGED <<row, store, owner, proc, upload, issued>>

Overtaken(m) == PendingStage # None /\ Rank[PendingStage] > Rank[m.stage]
Due(m)       == PendingStage = m.stage /\ m.stage \notin evidence.retry_wait

IgnoreStale(w, m) ==
    /\ Receives(w, m) /\ owner = None
    /\ ~Matches(m.attempt) \/ ~(Overtaken(m) \/ Due(m))
    /\ Acknowledge(m)
    /\ UNCHANGED <<row, store, owner, proc, upload, issued>>

\* {"already_completed": True}: the chain continues with its next stage.
SkipStage(w, m) ==
    /\ Receives(w, m) /\ owner = None
    /\ Matches(m.attempt) /\ Overtaken(m)
    /\ AcknowledgeAndPublish(m, ChainAfter(m))
    /\ UNCHANGED <<row, store, owner, proc, upload, issued>>

StartStage(w, m) ==
    /\ Receives(w, m) /\ owner = None
    /\ Matches(m.attempt) /\ Due(m)
    /\ StartsLeft(m.stage)
    /\ evidence' = [evidence EXCEPT !.stage_starts[m.stage] = @ + 1]
    /\ status' = "running"
    /\ owner' = w
    /\ proc' = [proc EXCEPT ![w] = [Idle EXCEPT !.pc = "started", !.task = m]]
    /\ UNCHANGED <<stage, results, summary, input, expired, store, queue, upload, issued>>

\* workflow_stage_attempts_exhausted
ExhaustStage(w, m) ==
    /\ Receives(w, m) /\ owner = None
    /\ Matches(m.attempt) /\ Due(m)
    /\ ~StartsLeft(m.stage)
    /\ owner' = w
    /\ proc' = [proc EXCEPT ![w] = [Idle EXCEPT !.pc = "fatal", !.task = m]]
    /\ UNCHANGED <<row, store, queue, upload, issued>>

Working(w, s, pc) == w \in Workers /\ At(w, pc) /\ proc[w].task.stage = s

-----------------------------------------------------------------------------
(* The stage operations. The session reads the row as it enters and keeps  *)
(* that object (expire_on_commit is False): proc[w].copy.                  *)

EnteredAs == [extract |-> "extracting", retrieve |-> "retrieving",
              verify |-> "verifying", finalize |-> "finalizing"]

\* A targeted refresh keeps the reports of the references it leaves alone; the
\* defect keeps none.
RetainedNone(e) == {}
Retained(e) ==
    IF RefreshRefs(e) = {} \/ summary = None THEN {}
    ELSE {id \in summary : id.ref \notin RefreshRefs(e)}

EnterStage(w) ==
    /\ w \in Workers /\ At(w, "started")
    /\ LET s == proc[w].task.stage IN
       /\ stage' = EnteredAs[s]
       /\ status' = IF s = "finalize" THEN status ELSE "running"
       /\ proc' = [proc EXCEPT ![w] = [@ EXCEPT !.pc = "entered", !.copy = evidence,
                       !.built = IF s = "verify" THEN Retained(evidence) ELSE {}]]
    /\ owner' = owner
    /\ UNCHANGED <<results, summary, input, expired, evidence, store, queue, upload, issued>>

\* Any exception of a stage operation, after the rollback and owner.check().
StageRaises(w) ==
    /\ w \in Workers
    /\ \E pc \in {"started", "entered", "published", "checked", "deleting", "returning"} : At(w, pc)
    /\ status # "failed"
    /\ \E kind \in {"retryable", "fatal"} :
          proc' = [proc EXCEPT ![w] = [Idle EXCEPT !.pc = kind, !.task = proc[w].task]]
    /\ owner' = owner
    /\ UNCHANGED <<row, store, queue, upload, issued>>

\* A defect: the input is cleaned up before the extraction is committed.
CleanBeforeCheckpoint(w) ==
    /\ Working(w, "extract", "entered")
    /\ input = "stored" /\ ~proc[w].copy.cleanup_started
    /\ Goto(w, "checked")
    /\ UNCHANGED <<row, store, queue, upload, issued>>

\* extract_paper_job: the input is loaded, and its extraction committed.
ExtractPaper(w) ==
    /\ Working(w, "extract", "entered")
    /\ input = "stored" /\ ~proc[w].copy.cleanup_started
    /\ stage' = "extracted"
    /\ Goto(w, IF KeepPolicy THEN "returning" ELSE "checked")
    /\ UNCHANGED <<status, results, summary, input, expired, evidence, store, queue, upload, issued>>

\* A transient source is read under the lease of a verification run, which
\* ends when its report is committed and may lapse before.
Transient(r) == results[r] # None /\ results[r].kind = "transient"
RunReport(r) == [ref |-> r, attempt |-> results[r].attempt, start |-> 0]
RunEnded     == {r \in Refs : Transient(r) /\ RunReport(r) \in records}

\* retrieve_paper_sources.checkpoint: one reference is recorded, and every
\* transient source recorded before it whose lease cannot be renewed is lost.
RetrieveSource(w, r) ==
    /\ Working(w, "retrieve", "entered")
    /\ results[r] = None
    /\ \E k \in Kinds, lapsed \in SUBSET {q \in Refs : Transient(q)} :
          /\ RunEnded \subseteq lapsed
          /\ lapsed # {} => "unavailable" \in Kinds
          /\ results' = [q \in Refs |->
                CASE q = r          -> [kind |-> k, attempt |-> proc[w].task.attempt]
                  [] q \in lapsed  -> [results[q] EXCEPT !.kind = "unavailable"]
                  [] OTHER         -> results[q]]
    /\ UNCHANGED <<status, stage, summary, input, expired, evidence, store, owner, proc,
                   queue, upload, issued>>

RetrievalDone(w) ==
    /\ Working(w, "retrieve", "entered")
    /\ \A r \in Refs : results[r] # None
    /\ stage' = "retrieved"
    /\ Goto(w, "returning")
    /\ UNCHANGED <<status, results, summary, input, expired, evidence, store, queue, upload, issued>>

\* The sources to verify: in a refresh, those of its references only. The
\* defect verifies references that have no source, too.
ToVerifyAll(w) ==
    {r \in Refs : RefreshRefs(proc[w].copy) \in {{}} \/ r \in RefreshRefs(proc[w].copy)}
ToVerify(w) ==
    {r \in Refs : /\ results[r] # None
                  /\ results[r].kind # "unavailable"
                  /\ RefreshRefs(proc[w].copy) \in {{}} \/ r \in RefreshRefs(proc[w].copy)}

\* Those whose report this execution has. The defect counts the rows that an
\* execution which stopped half-way has left.
VerifiedBefore(w) == {id.ref : id \in records}
Verified(w) == {id.ref : id \in proc[w].built}

\* A transient source is verified once per acquisition: its committed
\* reports are reused. A stored source gets new rows at every start.
ReportId(w, r) ==
    IF results[r].kind = "transient"
    THEN RunReport(r)
    ELSE [ref |-> r, attempt |-> proc[w].task.attempt,
          start |-> proc[w].copy.stage_starts.verify]

VerifySource(w, r) ==
    /\ Working(w, "verify", "entered")
    /\ r \in ToVerify(w) \ Verified(w)
    /\ records' = records \cup {ReportId(w, r)}
    /\ proc' = [proc EXCEPT ![w].built = @ \cup {ReportId(w, r)}]
    /\ owner' = owner
    /\ UNCHANGED <<row, reports, queue, upload, issued>>

VerificationDone(w) ==
    /\ Working(w, "verify", "entered")
    /\ ToVerify(w) \subseteq Verified(w)
    /\ summary' = proc[w].built
    /\ stage' = "verified"
    /\ Goto(w, "returning")
    /\ UNCHANGED <<status, results, input, expired, evidence, store, queue, upload, issued>>

\* finalize_paper_job, the transaction that publishes the report. It writes
\* upload_evidence, from the copy, for a kept file and for a refresh.
KeepFile(w) == KeepPolicy /\ input = "stored" /\ ~proc[w].copy.cleanup_started

FinalizePaper(w) ==
    /\ Working(w, "finalize", "entered")
    /\ StoreOnly \/ (summary # None /\ summary \subseteq records)
    /\ LET copy == proc[w].copy
           kept == IF KeepFile(w) THEN [copy EXCEPT !.kept = TRUE] ELSE copy
           done == IF RefreshRefs(copy) = {} THEN kept ELSE [kept EXCEPT !.targeted = None]
       IN /\ evidence' = IF KeepFile(w) \/ RefreshRefs(copy) # {} THEN done ELSE evidence
          /\ expired' = IF KeepFile(w) THEN FALSE ELSE expired
          /\ proc' = [proc EXCEPT ![w] = [@ EXCEPT !.pc = "published", !.copy = done]]
    /\ owner' = owner
    /\ reports' = Append(reports, [attempt |-> proc[w].task.attempt,
                                   report_ids |-> IF StoreOnly THEN {} ELSE summary,
                                   results |-> results])
    /\ status' = "completed" /\ stage' = "completed"
    /\ UNCHANGED <<results, summary, input, records, queue, upload, issued>>

\* record_report_check reads the row again, under its lock.
CheckReport(w) ==
    /\ Working(w, "finalize", "published")
    /\ proc' = [proc EXCEPT ![w] = [@ EXCEPT !.copy = evidence,
                  !.pc = IF KeepFile(w) THEN "returning" ELSE "checked"]]
    /\ owner' = owner
    /\ UNCHANGED <<row, store, queue, upload, issued>>

-----------------------------------------------------------------------------
(* cleanup_paper_job_input, run by a worker or by the cleaner: the mark is *)
(* committed, then storage is asked, then the outcome is committed.        *)

Failing(p) == p \in Workers /\ status = "failed"

\* Where the caller of the cleanup goes next. fail_paper_job ends in a raise.
AfterCleanup(p) ==
    IF p = Cleaner \/ Failing(p) THEN Release(p) ELSE Goto(p, "returning")

AcknowledgeIf(p) == IF Failing(p) THEN Acknowledge(proc[p].task) ELSE queue' = queue

StartCleanup(w) ==
    /\ w \in Workers /\ At(w, "checked")
    /\ IF input = "deleted"
       THEN /\ AfterCleanup(w) /\ AcknowledgeIf(w)
            /\ UNCHANGED evidence
       ELSE /\ evidence' = [proc[w].copy EXCEPT !.cleanup_started = TRUE]
            /\ proc' = [proc EXCEPT ![w] = [@ EXCEPT !.pc = "deleting", !.copy = evidence']]
            /\ UNCHANGED <<owner, queue>>
    /\ UNCHANGED <<status, stage, results, summary, input, expired, store, upload, issued>>

\* extract_paper_job: "if not retention.completed: job.input_expires_at = now".
ExpiresNow(p) == p \in Workers /\ ~Failing(p) /\ proc[p].task.stage = "extract"

DeleteInput(p) ==
    /\ At(p, "deleting")
    /\ \E gone \in DeleteOutcomes :
         IF gone /\ proc[p].copy.confirmed
         THEN /\ input' = "deleted"
              /\ UNCHANGED <<evidence, expired>>
         ELSE /\ evidence' = IF gone THEN proc[p].copy ELSE evidence
              /\ expired' = (expired \/ ExpiresNow(p))
              /\ UNCHANGED input
    /\ AfterCleanup(p) /\ AcknowledgeIf(p)
    /\ UNCHANGED <<status, stage, results, summary, store, upload, issued>>

ExpireInput ==
    /\ input = "stored" /\ ~expired
    /\ expired' = TRUE
    /\ UNCHANGED <<status, stage, results, summary, input, evidence, store, owner, proc,
                   queue, upload, issued>>

\* What the scheduled clean-up selects; the defect overlooks kept files.
CleanupDueKeptToo == status \in Terminal \/ expired
CleanupDue == (status \in Terminal /\ ~evidence.kept) \/ expired

\* cleanup_stale_paper_job_inputs
CleanStaleInput ==
    /\ owner = None /\ proc[Cleaner].pc = "idle"
    /\ input = "stored"
    /\ CleanupDue
    /\ IF status = "pending" /\ ~evidence.ready
       THEN status' = "failed" /\ stage' = "failed"
       ELSE UNCHANGED <<status, stage>>
    /\ evidence' = [evidence EXCEPT !.cleanup_started = TRUE]
    /\ owner' = Cleaner
    /\ proc' = [proc EXCEPT ![Cleaner] = [@ EXCEPT !.pc = "deleting", !.copy = evidence']]
    /\ UNCHANGED <<results, summary, input, expired, store, queue, upload, issued>>

-----------------------------------------------------------------------------
(* How a stage execution ends. *)

\* The task returns: its lock is released, then Celery publishes the next
\* message of the chain, then the broker gets the acknowledgement.
ReturnStage(w) ==
    /\ w \in Workers /\ At(w, "returning")
    /\ AcknowledgeAndPublish(proc[w].task, ChainAfter(proc[w].task))
    /\ Release(w)
    /\ UNCHANGED <<row, store, upload, issued>>

Raised(w) == w \in Workers /\ (At(w, "retryable") \/ At(w, "fatal"))

\* _retry_or_fail: the attempt is over, or another one has started.
IgnoreOutdatedFailure(w) ==
    /\ Raised(w) /\ ~Matches(proc[w].task.attempt)
    /\ Acknowledge(proc[w].task)
    /\ Release(w)
    /\ UNCHANGED <<row, store, upload, issued>>

MayRetry(w) == proc[w].pc = "retryable" /\ StartsLeft(proc[w].task.stage)

\* The intent is committed; publishing the retry message may still fail.
RetryStage(w) ==
    /\ Raised(w) /\ Matches(proc[w].task.attempt) /\ MayRetry(w)
    /\ evidence' = [evidence EXCEPT !.dispatch_due = FALSE,
                                    !.retry_wait = @ \cup {proc[w].task.stage}]
    /\ AcknowledgeAndPublish(proc[w].task, {proc[w].task})
    /\ Release(w)
    /\ UNCHANGED <<status, stage, results, summary, input, expired, store, upload, issued>>

\* _fail logs an error of its own transaction and changes nothing.
FailureNotSaved(w) ==
    /\ Raised(w) /\ Matches(proc[w].task.attempt) /\ ~MayRetry(w)
    /\ Acknowledge(proc[w].task)
    /\ Release(w)
    /\ UNCHANGED <<row, store, upload, issued>>

Linked == UNION {reports[i].report_ids : i \in DOMAIN reports}

\* The rows of the summary that the failed refresh leaves behind: not those of
\* the state before it, and none that a report lists. The defect deletes all.
SummaryIds == IF summary = None THEN {} ELSE summary
OrphansAll(before) == SummaryIds
Orphans(before) == (SummaryIds \ before.verification_summary) \ Linked

\* A defect: the roll-back ends the run but restores no checkpoint.
EndRefreshOnly(w) ==
    /\ Raised(w) /\ Matches(proc[w].task.attempt) /\ ~MayRetry(w)
    /\ evidence.targeted # None
    /\ status' = "completed" /\ stage' = "completed"
    /\ evidence' = [evidence EXCEPT !.targeted = None]
    /\ Acknowledge(proc[w].task)
    /\ Release(w)
    /\ UNCHANGED <<results, summary, input, expired, store, upload, issued>>

\* fail_paper_job during a targeted refresh: rollback_targeted_source_refresh.
RollBackRefresh(w) ==
    /\ Raised(w) /\ Matches(proc[w].task.attempt) /\ ~MayRetry(w)
    /\ evidence.targeted # None
    /\ records' = records \ Orphans(evidence.targeted)
    /\ results' = evidence.targeted.source_results
    /\ summary' = evidence.targeted.verification_summary
    /\ status' = "completed" /\ stage' = "completed"
    /\ evidence' = [evidence EXCEPT !.targeted = None]
    /\ Acknowledge(proc[w].task)
    /\ Release(w)
    /\ UNCHANGED <<input, expired, reports, upload, issued>>

\* A defect: a failed refresh fails the paper that has a report.
FailAnyJob(w) ==
    /\ Raised(w) /\ Matches(proc[w].task.attempt) /\ ~MayRetry(w)
    /\ status' = "failed" /\ stage' = "failed"
    /\ proc' = [proc EXCEPT ![w] = [@ EXCEPT !.pc = "checked", !.copy = evidence]]
    /\ owner' = owner
    /\ UNCHANGED <<results, summary, input, expired, evidence, store, queue, upload, issued>>

\* fail_paper_job otherwise; the cleanup of the input follows.
FailJob(w) ==
    /\ Raised(w) /\ Matches(proc[w].task.attempt) /\ ~MayRetry(w)
    /\ evidence.targeted = None
    /\ status' = "failed" /\ stage' = "failed"
    /\ proc' = [proc EXCEPT ![w] = [@ EXCEPT !.pc = "checked", !.copy = evidence]]
    /\ owner' = owner
    /\ UNCHANGED <<results, summary, input, expired, evidence, store, queue, upload, issued>>

\* An error while cleaning up after a failure is logged by _fail as well.
CleanupRaises(w) ==
    /\ Failing(w) /\ (At(w, "checked") \/ At(w, "deleting"))
    /\ Acknowledge(proc[w].task)
    /\ Release(w)
    /\ UNCHANGED <<row, store, upload, issued>>

-----------------------------------------------------------------------------
(* Faults of a process that holds, or believes it holds, the job. *)

\* The lock's connection breaks: PostgreSQL drops the advisory lock.
Zombies == {p \in Processes : proc[p].pc # "idle" /\ owner # p}

LoseConnection(p) ==
    /\ owner = p /\ p \in Processes
    /\ Cardinality(Zombies) < MaxZombies
    /\ owner' = None
    /\ UNCHANGED <<row, store, proc, queue, upload, issued>>

\* StageExecution.check: the next statement raises WorkflowOwnershipLost.
LoseOwnership(p) ==
    /\ p \in Processes /\ proc[p].pc # "idle" /\ owner # p
    /\ proc' = [proc EXCEPT ![p] = Idle]
    /\ IF p \in Workers THEN Acknowledge(proc[p].task) ELSE queue' = queue
    /\ UNCHANGED <<row, store, owner, upload, issued>>

\* The process dies; its message was not acknowledged and stays.
Crash(p) ==
    /\ p \in Processes /\ owner = p
    /\ Release(p)
    /\ UNCHANGED <<row, store, queue, upload, issued>>

-----------------------------------------------------------------------------
(* Targeted refreshes of a completed job, under its row lock only. *)

BeginRefresh(refs, newResults, newStage) ==
    /\ status = "completed" /\ ~StoreOnly /\ reports # <<>>
    /\ issued < MaxAttempts
    /\ issued' = issued + 1
    /\ evidence' = PrepareDispatch(
           [evidence EXCEPT !.targeted =
               [reference_ids |-> refs, source_results |-> results,
                verification_summary |-> SummaryIds]], issued')
    /\ results' = newResults
    /\ status' = "running" /\ stage' = newStage
    /\ UNCHANGED <<summary, input, expired, store, owner, proc, queue>>

\* begin_reference_search_refresh: search again for these references.
SearchAgain(refs) ==
    /\ refs # {} /\ evidence.targeted = None
    /\ BeginRefresh(refs, [r \in Refs |-> IF r \in refs THEN None ELSE results[r]], "extracted")
    /\ UNCHANGED upload

\* prepare_uploaded_source_refresh: an uploaded source replaces one result.
AdoptUpload(r) ==
    BeginRefresh({r}, [results EXCEPT ![r] = [kind |-> "durable", attempt |-> issued']], "retrieved")

UploadSource(r) ==
    /\ upload[r] = "idle" /\ reports # <<>> /\ ~StoreOnly
    /\ \/ AdoptUpload(r) /\ UNCHANGED upload
       \/ /\ status # "completed"     \* report_reanalysis_busy
          /\ upload' = [upload EXCEPT ![r] = "refused"]
          /\ UNCHANGED <<row, store, owner, proc, queue, issued>>

Queued(refs) ==
    /\ evidence' = [evidence EXCEPT !.queued = refs]
    /\ UNCHANGED <<status, stage, results, summary, input, expired, store, owner, proc,
                   queue, issued>>

\* set_queued_source_upload(queued=True), then schedule_busy_upload_refresh.
QueueUpload(r) ==
    /\ upload[r] = "refused"
    /\ Queued(evidence.queued \cup {r})
    /\ upload' = [upload EXCEPT ![r] = "waiting"]

\* retry_uploaded_source_refresh finds the job free.
RetryUpload(r) ==
    /\ upload[r] = "waiting"
    /\ AdoptUpload(r)
    /\ upload' = [upload EXCEPT ![r] = "prepared"]

\* ... or gives up: its retries are exhausted, or another error.
\* Either way the marker is cleared with set_queued_source_upload(queued=False).
DequeueUpload(r) ==
    /\ upload[r] \in {"waiting", "prepared"}
    /\ Queued(evidence.queued \ {r})
    /\ upload' = [upload EXCEPT ![r] = "idle"]

-----------------------------------------------------------------------------
WorkerStep(w) ==
    \/ EnterStage(w) \/ ExtractPaper(w) \/ RetrievalDone(w)
    \/ VerificationDone(w) \/ FinalizePaper(w) \/ CheckReport(w)
    \/ StartCleanup(w) \/ ReturnStage(w)
    \/ IgnoreOutdatedFailure(w) \/ RetryStage(w) \/ RollBackRefresh(w) \/ FailJob(w)
    \/ \E r \in Refs : RetrieveSource(w, r) \/ VerifySource(w, r)

Delivery(w, m) == \/ IgnoreBusy(w, m) \/ IgnoreStale(w, m) \/ SkipStage(w, m)
                  \/ StartStage(w, m) \/ ExhaustStage(w, m)

Faults(p) == LoseConnection(p) \/ LoseOwnership(p) \/ Crash(p)
WorkerFaults(w) == StageRaises(w) \/ FailureNotSaved(w) \/ CleanupRaises(w)
Uploads(r) == UploadSource(r) \/ QueueUpload(r) \/ RetryUpload(r) \/ DequeueUpload(r)

Next ==
    \/ UploadInput \/ QueueJob \/ LeaseEnds \/ ClaimDispatch
    \/ ExpireInput \/ CleanStaleInput
    \/ \E w \in Workers : WorkerStep(w) \/ WorkerFaults(w)
    \/ \E w \in Workers, m \in Messages : Delivery(w, m)
    \/ \E m \in Messages : LoseMessage(m)
    \/ \E p \in Processes : DeleteInput(p) \/ Faults(p)
    \/ \E refs \in SUBSET Refs : SearchAgain(refs)
    \/ \E r \in Refs : Uploads(r)

Spec == Init /\ [][Next]_vars

\* What is handled: a message taken from the broker, one way or the other.
Handles(m) == \E w \in Workers : \/ StartStage(w, m) \/ ExhaustStage(w, m)
                                 \/ IgnoreStale(w, m) \/ SkipStage(w, m)

\* A process that is alive goes on: it succeeds, raises, or finds its lock lost.
Proceeds(p) ==
    \/ DeleteInput(p) \/ LoseOwnership(p)
    \/ p = Intake /\ (UploadInput \/ QueueJob)
    \/ p \in Workers /\ (WorkerStep(p) \/ StageRaises(p) \/ CleanupRaises(p))

\* The beat runs recover_pending_paper_workflows every 60 s and the clean-up
\* of inputs at its interval, and time passes. A publication, a delivery, the
\* dispatcher's attempt to get the lock and the transaction that records a
\* failure may each fail any number of times, but not for ever.
Fairness ==
    /\ WF_vars(LeaseEnds) /\ WF_vars(ExpireInput)
    /\ SF_vars(ClaimDispatch) /\ SF_vars(CleanStaleInput)
    /\ SF_vars(\E w \in Workers : RollBackRefresh(w) \/ FailJob(w))
    /\ \A p \in Processes : WF_vars(Proceeds(p))
    /\ \A m \in Messages : SF_vars(Handles(m))

FairSpec == Spec /\ Fairness

-----------------------------------------------------------------------------
(* What must hold. *)

\* While a worker runs a stage, the row is at that stage of its attempt:
\* nobody else moved the job on, failed it, finished it or restarted it.
\* (_start_stage's checks stay true for as long as the lock is held.)
StageOwnsJob ==
    \A w \in Workers :
        owner = w /\ proc[w].pc \in {"started", "entered"} =>
            Matches(proc[w].task.attempt) /\ PendingStage = proc[w].task.stage

\* Every published report belongs to an attempt of its own, in the order the
\* attempts were issued: redelivered finalize messages, crashes between its
\* commits and outdated workers never publish an attempt twice.
OneReportPerAttempt ==
    \A i, j \in DOMAIN reports : i < j => reports[i].attempt < reports[j].attempt

\* A completed job shows exactly what its newest report was built from: a
\* refresh that failed has put everything back (rollback_targeted_source_refresh).
CompletedShowsReport ==
    status = "completed" =>
        /\ reports # <<>>
        /\ evidence.targeted = None
        /\ LET newest == reports[Len(reports)] IN
              /\ results = newest.results
              /\ ~StoreOnly => summary = newest.report_ids

\* The summary lists one report for each source that was retrieved, and none
\* for any other reference: whatever executions of verify stopped half-way, and
\* whatever a refresh replaced, kept or put back.
SummaryCoversSources ==
    summary # None /\ status # "failed" /\ stage \in {"verified", "finalizing", "completed"} =>
        /\ {id.ref : id \in summary} = {r \in Refs : results[r].kind # "unavailable"}
        /\ \A i, j \in summary : i.ref = j.ref => i = j

\* No evidence package that a report or the current summary lists is deleted:
\* finalize never meets verification_report_missing.
EvidenceAvailable ==
    /\ Linked \subseteq records
    /\ summary # None => summary \subseteq records

\* A paper that has a report is in use under a refresh marker, so that a
\* failure of the run restores the report instead of failing the paper.
RunningRefreshIsMarked ==
    reports # <<>> => /\ status \in Active => evidence.targeted # None
                      /\ status # "failed"

\* The same of a job whose input is not being cleaned up: nothing but the
\* clean-up of the input erases the marker of a refresh, or revives the run
\* that the refresh followed.
MarkedUntilCleanup == ~evidence.cleanup_started => RunningRefreshIsMarked

\* Until its extraction is checkpointed, an unexpired job can load its input.
InputAwaitsExtraction ==
    PendingStage = "extract" /\ ~expired => input = "stored" /\ ~evidence.cleanup_started

\* A file kept for checking again stays until its period ends.
KeptFileStays == evidence.kept /\ ~expired => input = "stored" /\ ~evidence.cleanup_started

\* Inside one attempt the job only moves forward.
Progress(sg) ==
    CASE sg = "uploaded" -> 0 [] sg = "extracting" -> 1 [] sg = "extracted" -> 2
      [] sg = "retrieving" -> 3 [] sg = "retrieved" -> 4 [] sg = "verifying" -> 5
      [] sg = "verified" -> 6 [] sg = "finalizing" -> 7 [] OTHER -> 8

StagesMoveForward ==
    [][evidence'.attempt_id = evidence.attempt_id /\ status' \in Active
         => Progress(stage') >= Progress(stage)]_vars

\* A report that a targeted refresh publishes differs from the one before it
\* in the refreshed references only.
RefreshIsScoped ==
    [][reports' # reports /\ evidence.targeted # None =>
         LET old == reports[Len(reports)]
             new == reports'[Len(reports')]
         IN \A r \in Refs \ evidence.targeted.reference_ids :
              /\ new.results[r] = old.results[r]
              /\ {id \in new.report_ids : id.ref = r} = {id \in old.report_ids : id.ref = r}]_vars

\* A started run ends, whatever crashes or is lost on the way.
RunsEnd == status \in Active ~> status \in Terminal

=============================================================================
