--------------------------- MODULE VerificationRun ---------------------------
(***************************************************************************)
(* One transient verification run: the verification_runs row, the objects  *)
(* its keys name in storage, the advisory lock that serialises its users,  *)
(* and the scheduled clean-up of runs that were abandoned.                 *)
(*                                                                         *)
(* The database and the storage share no transaction. A process that has   *)
(* lost its lock's connection can write nothing more to the database, but  *)
(* an upload or a deletion it has begun still reaches storage. An action   *)
(* is a committed transaction, a call to storage or an event outside.      *)
(***************************************************************************)
EXTENDS Naturals, FiniteSets

CONSTANTS
    Workers,        \* processes of the paper workflow
    Cleaner,        \* the scheduled cleanup_stale_verification_runs
    None,           \* "no value"
    Source,         \* the role of the source object
    Derived,        \* roles of derivatives
    LeaseTicks,     \* length of a lease
    Skew,           \* bound: how far the cleaner's clock is ahead
    MaxRenewals,    \* bound: renewals of the lease
    MaxZombies      \* bound: processes at work after their lock was lost

Processes == Workers \cup {Cleaner}
Roles     == {Source} \cup Derived

ASSUME RunProcessAssumption == Cleaner \notin Workers /\ None \notin Processes
ASSUME RunRoleAssumption == Source \notin Derived /\ None \notin Roles
ASSUME LeaseAssumption ==
    /\ LeaseTicks \in Nat /\ Skew \in Nat /\ Skew < LeaseTicks
    /\ MaxRenewals \in Nat /\ MaxZombies \in Nat

VARIABLES
    status,     \* verification_runs.status
    terminal,   \* verification_runs.terminal_outcome
    objects,    \* roles listed in verification_runs.transient_objects
    confirmed,  \* those with upload_confirmed
    watch,      \* their cleanup_next_check_at is in the future
    lease,      \* time until lease_expires_at
    renewed,    \* number of renewals: which lease_expires_at it is
    batches,    \* batches of verification reports committed for the run
    known,      \* the job's checkpoint names the run
    stored,     \* roles whose object exists in storage
    late,       \* roles with an upload request that may still take effect
    owner,      \* process whose connection holds the run's advisory lock
    proc        \* what each process is doing

row     == <<status, terminal, objects, confirmed, watch, lease, renewed, batches>>
storage == <<stored, late>>
vars    == <<row, known, storage, owner, proc>>

-----------------------------------------------------------------------------
Cleaned   == {"cleaned", "failed_cleaned", "abandoned_cleaned"}
\* The statuses the clean-up takes at once, whatever their lease; the defect
\* forgets runs that stopped after their reports.
UnfinishedPendingOnly == {"cleanup_pending"}
Unfinished == {"report_persisted", "cleanup_pending"}
Cleanable == {"allocating", "active"} \cup Unfinished
Statuses  == {"absent"} \cup Cleanable \cup Cleaned
Outcomes  == {"success", "failed", "abandoned"}

ASSUME OutcomeAssumption == None \notin Outcomes

CleanedAs == [success |-> "cleaned", failed |-> "failed_cleaned",
              abandoned |-> "abandoned_cleaned"]

Idle == [pc |-> "idle", role |-> None, receipt |-> FALSE, outcome |-> "failed",
         todo |-> {}, left |-> {}, error |-> FALSE, seen |-> 0]

\* Positions inside _locked_run_session, and outside of it.
Holding == {"uploading", "stored", "processing", "deleting"}
PCs     == {"idle", "planned", "admitted", "closing", "selected"} \cup Holding

Execution == [pc : PCs, role : Roles \cup {None}, receipt : BOOLEAN,
              outcome : Outcomes, todo : SUBSET Roles, left : SUBSET Roles,
              error : BOOLEAN, seen : 0 .. MaxRenewals]

TypeOK ==
    /\ status \in Statuses
    /\ terminal \in Outcomes \cup {None}
    /\ objects \in SUBSET Roles /\ confirmed \in SUBSET Roles
    /\ watch \in BOOLEAN
    /\ lease \in 0 .. LeaseTicks
    /\ renewed \in 0 .. MaxRenewals
    /\ batches \in 0 .. 2
    /\ known \in BOOLEAN
    /\ stored \in SUBSET Roles /\ late \in SUBSET Roles
    /\ owner \in Processes \cup {None}
    /\ proc \in [Processes -> Execution]

Init ==
    /\ status = "absent" /\ terminal = None
    /\ objects = {} /\ confirmed = {} /\ watch = FALSE
    /\ lease = 0 /\ renewed = 0 /\ batches = 0
    /\ known = FALSE
    /\ stored = {} /\ late = {}
    /\ owner = None
    /\ proc = [p \in Processes |-> Idle]

\* pg_try_advisory_lock succeeds.
Free == owner = None
At(p, pc) == proc[p].pc = pc
\* Statements of a session bound to the connection that holds the lock.
Owns(p, pc) == owner = p /\ At(p, pc)

Take(p, e)    == owner' = p /\ proc' = [proc EXCEPT ![p] = e]
Move(p, e)    == owner' = owner /\ proc' = [proc EXCEPT ![p] = e]
Release(p, e) == owner' = None /\ proc' = [proc EXCEPT ![p] = e]

Closing(o) == [Idle EXCEPT !.pc = "closing", !.outcome = o]
Uploading(k) == [Idle EXCEPT !.pc = "uploading", !.role = k]

-----------------------------------------------------------------------------
(* begin_verification_run *)

PlanRun(w) ==
    /\ status = "absent" /\ At(w, "idle")
    /\ status' = "allocating" /\ objects' = {Source} /\ lease' = LeaseTicks
    /\ Move(w, [Idle EXCEPT !.pc = "planned"])
    /\ UNCHANGED <<terminal, confirmed, watch, renewed, batches, known, storage>>

StartUpload(w) ==
    /\ At(w, "planned") /\ Free
    /\ status = "allocating"
    /\ late' = late \cup {Source}
    /\ Take(w, Uploading(Source))
    /\ UNCHANGED <<row, known, stored>>

\* The run is busy or no longer allocating.
UploadRefused(w) ==
    /\ At(w, "planned")
    /\ ~Free \/ status # "allocating"
    /\ Move(w, Closing("failed"))
    /\ UNCHANGED <<row, known, storage>>

\* backend.upload returns. Its receipt confirms a single request; after a
\* retry inside the client an earlier request may still take effect.
UploadReturns(w) ==
    /\ At(w, "uploading") /\ proc[w].role \in stored
    /\ \E receipt \in BOOLEAN :
          /\ late' = IF receipt THEN late \ {proc[w].role} ELSE late
          /\ Move(w, [proc[w] EXCEPT !.pc = "stored", !.receipt = receipt])
    /\ UNCHANGED <<row, known, stored>>

RecordUpload(w) ==
    /\ Owns(w, "stored")
    /\ confirmed' = IF proc[w].receipt THEN confirmed \cup {proc[w].role} ELSE confirmed
    /\ IF proc[w].role = Source
       THEN status' = "active" /\ Release(w, [Idle EXCEPT !.pc = "admitted"])
       ELSE status' = status /\ Release(w, Idle)
    /\ UNCHANGED <<terminal, objects, watch, lease, renewed, batches, known, storage>>

\* The upload, or the commit after it, raises.
UploadRaises(w) ==
    /\ Owns(w, "uploading") \/ Owns(w, "stored")
    /\ Release(w, IF proc[w].role = Source THEN Closing("failed") ELSE Idle)
    /\ UNCHANGED <<row, known, storage>>

\* retrieve_paper_sources.checkpoint commits a result that names the run.
AdmitRun(w) ==
    /\ At(w, "admitted")
    /\ known' = TRUE
    /\ Move(w, Idle)
    /\ UNCHANGED <<row, storage>>

-----------------------------------------------------------------------------
(* Use of an active run. *)

Calls(w) == At(w, "idle") /\ known /\ Free

\* The new lease starts now.
RenewedLease == LeaseTicks

\* renew_verification_run_lease; a refused renewal changes nothing.
RenewLease(w) ==
    /\ Calls(w)
    /\ status = "active" /\ lease > 0
    /\ renewed < MaxRenewals
    /\ renewed' = renewed + 1
    /\ lease' = RenewedLease
    /\ UNCHANGED <<status, terminal, objects, confirmed, watch, batches, known, storage,
                   owner, proc>>

\* add_transient_run_artifact, as far as the call to storage.
AddArtifact(w, k) ==
    /\ Calls(w)
    /\ status = "active" /\ k \in Derived \ objects
    /\ objects' = objects \cup {k}
    /\ late' = late \cup {k}
    /\ Take(w, Uploading(k))
    /\ UNCHANGED <<status, terminal, confirmed, watch, lease, renewed, batches, known, stored>>

\* load_verification_run_source's test of the run; the defect omits it.
LoadableAlways == TRUE
Loadable == status = "active" /\ lease > 0

\* complete_active_verification_run loads the source and starts to process it.
LoadSource(w) ==
    /\ Calls(w)
    /\ Loadable /\ Source \in stored
    /\ Take(w, [Idle EXCEPT !.pc = "processing"])
    /\ UNCHANGED <<row, known, storage>>

\* VerificationRunAuthorizationError is not retryable: the run is closed.
LoadFails(w) ==
    /\ Calls(w)
    /\ ~Loadable
    /\ Move(w, Closing("failed"))
    /\ UNCHANGED <<row, known, storage>>

PersistReports(w) ==
    /\ Owns(w, "processing")
    /\ batches < 2
    /\ batches' = batches + 1
    /\ status' = "report_persisted" /\ terminal' = "success"
    /\ Release(w, Closing("success"))
    /\ UNCHANGED <<objects, confirmed, watch, lease, renewed, known, storage>>

\* The transaction rolls back. A retryable error leaves the run to a retry of
\* the stage if there is one (retain_on_retryable_failure), any other closes it.
ProcessingRaises(w) ==
    /\ Owns(w, "processing")
    /\ Release(w, Idle) \/ Release(w, Closing("failed"))
    /\ UNCHANGED <<row, known, storage>>

-----------------------------------------------------------------------------
(* cleanup_verification_run, by the process that used the run or by the    *)
(* Cleaner. ScanRun is the query of cleanup_stale_verification_runs.       *)

Expired == status \in Unfinished \/ (status \in Cleanable /\ lease <= Skew)

ScanRun ==
    /\ At(Cleaner, "idle")
    /\ Expired /\ ~watch
    /\ Move(Cleaner, [Idle EXCEPT !.pc = "selected", !.outcome = "abandoned",
                                  !.seen = renewed])
    /\ UNCHANGED <<row, known, storage>>

\* The second look at the lease, under the lock, against the time of the scan
\* (expired_before); the defect trusts the scan.
StillExpiredAssumed == TRUE
StillExpired == status \in Unfinished \/ (status \in Cleanable /\ renewed = proc[Cleaner].seen)

Wants(p) ==
    \/ At(p, "closing")
    \/ p = Cleaner /\ At(p, "selected") /\ StillExpired

SkipCleanup(p) ==
    /\ At(p, "closing") \/ At(p, "selected")
    /\ ~Free \/ status \in Cleaned \/ ~Wants(p)
    /\ Move(p, Idle)
    /\ UNCHANGED <<row, known, storage>>

\* The first outcome stays; the defect lets the last one win.
OutcomeOfLast(o) == o
OutcomeOf(o) == IF terminal = None THEN o ELSE terminal

\* A defect: deletion starts before the mark is committed.
StartUnmarked(p) ==
    /\ Wants(p) /\ Free
    /\ status \notin Cleaned
    /\ terminal' = OutcomeOf(proc[p].outcome)
    /\ Take(p, [proc[p] EXCEPT !.pc = "deleting", !.todo = objects])
    /\ UNCHANGED <<status, objects, confirmed, watch, lease, renewed, batches, known, storage>>

\* The mark is committed first, then storage is asked. (An error of this
\* transaction, or of the last, releases the lock: the same as Crash.)
StartCleanup(p) ==
    /\ Wants(p) /\ Free
    /\ status \notin Cleaned
    /\ terminal' = OutcomeOf(proc[p].outcome)
    /\ status' = "cleanup_pending"
    /\ Take(p, [proc[p] EXCEPT !.pc = "deleting", !.todo = objects])
    /\ UNCHANGED <<objects, confirmed, watch, lease, renewed, batches, known, storage>>

\* An upload that was not confirmed may still take effect; the defect takes
\* an absent object as proof that it will not.
ResolvedByAbsence(k) == TRUE
Resolved(k) == k \in confirmed

\* backend.delete, then backend.exists.
DeleteObject(p, k) ==
    /\ At(p, "deleting") /\ k \in proc[p].todo
    /\ stored' = stored \ {k}
    /\ Move(p, [proc[p] EXCEPT !.todo = @ \ {k},
                               !.left = IF Resolved(k) THEN @ ELSE @ \cup {k}])
    /\ UNCHANGED <<row, known, late>>

\* One of them fails, or the object is there again.
DeletionFails(p, k) ==
    /\ At(p, "deleting") /\ k \in proc[p].todo
    /\ stored' \in {stored, stored \ {k}}
    /\ Move(p, [proc[p] EXCEPT !.todo = @ \ {k}, !.left = @ \cup {k}, !.error = TRUE])
    /\ UNCHANGED <<row, known, late>>

\* Objects that are left stay listed. Those whose upload alone is unresolved
\* are looked at again after a pause (cleanup_next_check_at).
FinishCleanup(p) ==
    /\ Owns(p, "deleting") /\ proc[p].todo = {}
    /\ objects' = proc[p].left
    /\ IF proc[p].left = {}
       THEN status' = CleanedAs[terminal] /\ watch' = FALSE
       ELSE status' = "cleanup_pending" /\ watch' = ~proc[p].error
    /\ Release(p, Idle)
    /\ UNCHANGED <<terminal, confirmed, lease, renewed, batches, known, storage>>

-----------------------------------------------------------------------------
(* Time, storage and faults. *)

Tick == lease > 0 /\ lease' = lease - 1
        /\ UNCHANGED <<status, terminal, objects, confirmed, watch, renewed, batches,
                       known, storage, owner, proc>>

WatchEnds == watch /\ watch' = FALSE
             /\ UNCHANGED <<status, terminal, objects, confirmed, lease, renewed, batches,
                            known, storage, owner, proc>>

\* A request takes effect, perhaps long after its caller has given up.
UploadLands(k) ==
    /\ k \in late
    /\ stored' = stored \cup {k}
    /\ UNCHANGED <<row, known, late, owner, proc>>

\* No request for this object is under way any more.
UploadEnds(k) ==
    /\ k \in late
    /\ late' = late \ {k}
    /\ UNCHANGED <<row, known, stored, owner, proc>>

Zombies == {p \in Processes : proc[p].pc \in Holding /\ owner # p}

LoseConnection(p) ==
    /\ owner = p /\ Cardinality(Zombies) < MaxZombies
    /\ owner' = None
    /\ UNCHANGED <<row, known, storage, proc>>

\* WorkflowOwnershipLost: this process cleans nothing up.
LoseOwnership(p) ==
    /\ proc[p].pc \in Holding /\ owner # p
    /\ Move(p, Idle)
    /\ UNCHANGED <<row, known, storage>>

Crash(p) ==
    /\ ~At(p, "idle")
    /\ owner' = IF owner = p THEN None ELSE owner
    /\ proc' = [proc EXCEPT ![p] = Idle]
    /\ UNCHANGED <<row, known, storage>>

-----------------------------------------------------------------------------
Begin(w) == \/ PlanRun(w) \/ StartUpload(w) \/ UploadRefused(w) \/ UploadReturns(w)
            \/ RecordUpload(w) \/ UploadRaises(w) \/ AdmitRun(w)
Use(w)   == \/ RenewLease(w) \/ LoadSource(w) \/ LoadFails(w)
            \/ PersistReports(w) \/ ProcessingRaises(w)
            \/ \E k \in Derived : AddArtifact(w, k)
Clean(p) == \/ SkipCleanup(p) \/ StartCleanup(p) \/ FinishCleanup(p)
            \/ \E k \in Roles : DeleteObject(p, k) \/ DeletionFails(p, k)
Fault(p) == LoseConnection(p) \/ LoseOwnership(p) \/ Crash(p)

Next ==
    \/ \E w \in Workers : Begin(w) \/ Use(w)
    \/ ScanRun \/ \E p \in Processes : Clean(p) \/ Fault(p)
    \/ Tick \/ WatchEnds
    \/ \E k \in Roles : UploadLands(k) \/ UploadEnds(k)

Spec == Init /\ [][Next]_vars

\* The beat runs the clean-up again and again; it sometimes finds the lock
\* free, and a deletion sometimes succeeds. Time passes, requests end, and a
\* live process goes on.
Proceeds(p) ==
    \/ SkipCleanup(p) \/ FinishCleanup(p) \/ LoseOwnership(p)
    \/ \E k \in Roles : DeleteObject(p, k) \/ DeletionFails(p, k)
    \/ p \in Workers /\ (UploadReturns(p) \/ RecordUpload(p) \/ UploadRaises(p)
                         \/ PersistReports(p) \/ ProcessingRaises(p))

Fairness ==
    /\ WF_vars(Tick) /\ WF_vars(WatchEnds)
    /\ SF_vars(ScanRun) /\ SF_vars(StartCleanup(Cleaner))
    /\ \A p \in Processes : WF_vars(Proceeds(p))
    /\ \A k \in Roles : /\ WF_vars(UploadEnds(k))
                        /\ SF_vars(\E p \in Processes : DeleteObject(p, k))

FairSpec == Spec /\ Fairness

-----------------------------------------------------------------------------
(* What must hold. *)

\* Whatever crashed, was lost or came late: an object that exists, or may
\* still appear, is listed by the row, so the clean-up can find it
\* (begin_verification_run: a hard exit leaves no undiscoverable orphan).
NoOrphan == stored \cup late \subseteq objects

\* While the run is active, and while a process works on it, its source can
\* be read: the clean-up never deletes under a processor or a retry.
SourceStaysReadable ==
    status = "active" \/ (\E w \in Workers : Owns(w, "processing")) => Source \in stored

\* The outcome "success" and the reports are committed together and once;
\* neither a failing processor nor the clean-up changes the outcome later.
\* (_retained_run_reports takes the outcome as proof of a complete batch.)
SuccessMeansReports == batches = IF terminal = "success" THEN 1 ELSE 0

\* A run whose lease was renewed after the scan is not abandoned.
RenewedRunStays ==
    [][terminal' = "abandoned" /\ status \in {"allocating", "active"} => lease <= Skew]_vars

\* Storage ends up without a byte of the run, and stays so.
BytesGo == <>[](stored = {})

\* The run keeps the promise of TransientUse.
Phase == CASE status \in {"absent", "allocating", "active"} -> "open"
           [] status \in Unfinished                         -> "closed"
           [] OTHER                                         -> "gone"

Promise == INSTANCE TransientUse WITH
               phase <- Phase, bytes <- stored, reported <- (batches > 0)
KeepsPromise == Promise!Spec
=============================================================================
