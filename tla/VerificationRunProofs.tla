------------------------ MODULE VerificationRunProofs ------------------------
(* Proofs about VerificationRun, for every value of its constants. *)
EXTENDS VerificationRun, TLAPS

Open == {"absent", "allocating", "active"}

\* What the columns of the row say of each other and of the storage.
RowOK ==
    /\ status = "absent" => objects = {} /\ confirmed = {}
    /\ status = "allocating" => confirmed = {} /\ Source \in objects
    /\ status = "active" => confirmed \subseteq objects /\ Source \in stored
    /\ status \in Open <=> terminal = None
    /\ status \in Cleaned => objects = {}
    /\ confirmed \cap late = {}
    /\ NoOrphan
    /\ SuccessMeansReports

\* What a process is doing, whether or not it still has the lock.
Fits(p) ==
    /\ At(p, "uploading") \/ At(p, "stored") => proc[p].role \in Roles
    /\ At(p, "closing") /\ proc[p].outcome = "success" => terminal = "success"
    /\ At(p, "selected") => proc[p].outcome = "abandoned"
    /\ At(p, "deleting") => status \notin Open

\* What the process that has the lock can rely on.
HolderFits(p) ==
    /\ At(p, "uploading") \/ At(p, "stored") =>
          /\ proc[p].role \in objects
          /\ status = IF proc[p].role = Source THEN "allocating" ELSE "active"
    /\ At(p, "stored") => /\ proc[p].role \in stored
                          /\ proc[p].receipt => proc[p].role \notin late
    /\ At(p, "processing") => status = "active"
    /\ At(p, "deleting") =>
          /\ status = "cleanup_pending"
          /\ stored \cup late \subseteq proc[p].todo \cup proc[p].left

RunInv ==
    /\ TypeOK
    /\ RowOK
    /\ \A p \in Processes : Fits(p) /\ (owner = p => HolderFits(p))

-----------------------------------------------------------------------------
(* One process moves, and the others stay where they are. *)

LEMMA OneMoves ==
    ASSUME TypeOK, NEW p \in Processes, NEW e \in Execution,
           proc' = [proc EXCEPT ![p] = e]
    PROVE  /\ proc' \in [Processes -> Execution]
           /\ proc'[p] = e
           /\ \A q \in Processes : q # p => proc'[q] = proc[q]
BY DEF TypeOK

LEMMA IdleType == Idle \in Execution /\ Idle.pc = "idle"
BY LeaseAssumption DEF Idle, Execution, PCs, Outcomes

LEMMA ClosingType ==
    \A o \in Outcomes : /\ Closing(o) \in Execution
                        /\ Closing(o).pc = "closing" /\ Closing(o).outcome = o
BY IdleType DEF Closing, Idle, Execution, PCs

LEMMA UploadingType ==
    \A k \in Roles : /\ Uploading(k) \in Execution
                     /\ Uploading(k).pc = "uploading" /\ Uploading(k).role = k
BY IdleType DEF Uploading, Idle, Execution, PCs, Holding

\* A process that moves to a place outside of the lock, with nothing else changed.
LEMMA StepsAside ==
    ASSUME RunInv, NEW p \in Processes, NEW e \in Execution,
           proc' = [proc EXCEPT ![p] = e], owner' \in {owner, None},
           e.pc \in {"idle", "planned", "admitted", "closing"},
           e.pc = "closing" /\ e.outcome = "success" => terminal = "success",
           UNCHANGED <<row, storage>>, known' \in BOOLEAN
    PROVE  RunInv'
<1>1. TypeOK'
    BY OneMoves DEF RunInv, TypeOK, row, storage
<1>2. RowOK'
    BY DEF RunInv, RowOK, NoOrphan, SuccessMeansReports, row, storage
<1>3. ASSUME NEW q \in Processes PROVE Fits(q)' /\ (owner' = q => HolderFits(q)')
    <2>1. CASE q = p
        BY <2>1, OneMoves DEF RunInv, Fits, HolderFits, At, row, storage
    <2>2. CASE q # p
        <3>1. proc'[q] = proc[q] /\ Fits(q) /\ (owner = q => HolderFits(q))
            BY <2>2, OneMoves DEF RunInv
        <3>2. owner' = q => owner = q
            BY RunProcessAssumption
        <3> QED  BY <3>1, <3>2 DEF Fits, HolderFits, At, row, storage
    <2> QED  BY <2>1, <2>2
<1> QED  BY <1>1, <1>2, <1>3 DEF RunInv

LEMMA InitRun == Init => RunInv
<1> SUFFICES ASSUME Init PROVE RunInv
    OBVIOUS
<1>1. TypeOK
    <2>1. lease \in 0 .. LeaseTicks /\ renewed \in 0 .. MaxRenewals /\ batches \in 0 .. 2
        BY LeaseAssumption DEF Init
    <2>2. proc \in [Processes -> Execution]
        BY IdleType DEF Init
    <2> QED  BY <2>1, <2>2 DEF Init, TypeOK, Statuses
<1>2. RowOK
    BY OutcomeAssumption DEF Outcomes, Init, RowOK, NoOrphan, SuccessMeansReports, Open, Cleaned
<1>3. \A p \in Processes : proc[p].pc = "idle"
    BY IdleType DEF Init
<1> QED  BY <1>1, <1>2, <1>3, RunProcessAssumption DEF Init, RunInv, Fits, At

\* Two processes never hold the lock, and only its holder writes the row.
LEMMA BeginKeeps ==
    ASSUME RunInv, NEW w \in Workers, Begin(w)
    PROVE  RunInv'
<1> USE DEF RunInv, Processes
<1>1. CASE PlanRun(w)
    <2> DEFINE e == [Idle EXCEPT !.pc = "planned"]
    <2>1. e \in Execution /\ e.pc = "planned"
        BY IdleType DEF Idle, Execution, PCs
    <2>2. proc' = [proc EXCEPT ![w] = e] /\ owner' = owner
        BY <1>1 DEF PlanRun, Move
    <2> HIDE DEF e
    <2>3. TypeOK'
        BY <1>1, <2>1, <2>2, OneMoves, LeaseAssumption DEF PlanRun, TypeOK, Statuses, Cleanable, Roles, storage
    <2>4. RowOK'
        BY <1>1 DEF PlanRun, RowOK, Open, Cleaned, NoOrphan, SuccessMeansReports, storage
    <2>5. ASSUME NEW q \in Processes PROVE Fits(q)' /\ (owner' = q => HolderFits(q)')
        <3>1. CASE q = w
            BY <3>1, <2>1, <2>2, OneMoves DEF Fits, HolderFits, At
        <3>2. CASE q # w
            <4>1. proc'[q] = proc[q]
                BY <3>2, <2>1, <2>2, OneMoves
            <4> QED  BY <4>1, <2>2, <1>1 DEF PlanRun, Fits, HolderFits, At, Open, storage
        <3> QED  BY <3>1, <3>2
    <2> QED  BY <2>3, <2>4, <2>5
<1>2. CASE StartUpload(w)
    <2>1. proc' = [proc EXCEPT ![w] = Uploading(Source)] /\ owner = None /\ owner' = w
        BY <1>2 DEF StartUpload, Take, Free
    <2>2. Source \in Roles
        BY DEF Roles
    <2>3. TypeOK'
        BY <1>2, <2>1, <2>2, UploadingType, OneMoves DEF StartUpload, TypeOK, row
    <2>4. RowOK'
        BY <1>2 DEF StartUpload, RowOK, NoOrphan, SuccessMeansReports, row
    <2>5. ASSUME NEW q \in Processes PROVE Fits(q)' /\ (owner' = q => HolderFits(q)')
        <3>1. CASE q = w
            <4>1. proc'[w] = Uploading(Source)
                BY <2>1, <2>2, UploadingType, OneMoves
            <4> QED  BY <3>1, <4>1, <2>2, UploadingType, <1>2 DEF StartUpload, RowOK, Fits, HolderFits, At, row
        <3>2. CASE q # w
            <4>1. proc'[q] = proc[q]
                BY <3>2, <2>1, <2>2, UploadingType, OneMoves
            <4> QED  BY <3>2, <4>1, <2>1, <1>2 DEF StartUpload, Fits, At, row
        <3> QED  BY <3>1, <3>2
    <2> QED  BY <2>3, <2>4, <2>5
<1>3. CASE UploadRefused(w)
    BY <1>3, ClosingType, StepsAside DEF UploadRefused, Move, Outcomes, TypeOK
<1>4. CASE UploadReturns(w)
    <2>1. PICK receipt \in BOOLEAN :
             /\ late' = IF receipt THEN late \ {proc[w].role} ELSE late
             /\ Move(w, [proc[w] EXCEPT !.pc = "stored", !.receipt = receipt])
        BY <1>4 DEF UploadReturns
    <2> DEFINE e == [proc[w] EXCEPT !.pc = "stored", !.receipt = receipt]
    <2>2. /\ e \in Execution /\ e.pc = "stored" /\ e.role = proc[w].role
          /\ e.receipt = receipt
        <3>1. proc[w] \in Execution
            BY DEF TypeOK
        <3> QED  BY <3>1 DEF Execution, PCs, Holding
    <2>3. proc' = [proc EXCEPT ![w] = e] /\ owner' = owner
        BY <2>1 DEF Move
    <2> HIDE DEF e
    <2>4. TypeOK'
        BY <1>4, <2>1, <2>2, <2>3, OneMoves DEF UploadReturns, TypeOK, row
    <2>5. RowOK'
        BY <1>4, <2>1 DEF UploadReturns, RowOK, NoOrphan, SuccessMeansReports, row
    <2>6. ASSUME NEW q \in Processes PROVE Fits(q)' /\ (owner' = q => HolderFits(q)')
        <3>1. CASE q = w
            BY <3>1, <2>1, <2>2, <2>3, OneMoves, <1>4 DEF UploadReturns, Fits, HolderFits, At, row
        <3>2. CASE q # w
            <4>1. proc'[q] = proc[q]
                BY <3>2, <2>2, <2>3, OneMoves
            <4> QED  BY <4>1, <2>1, <2>3, <1>4 DEF UploadReturns, Fits, HolderFits, At, row
        <3> QED  BY <3>1, <3>2
    <2> QED  BY <2>4, <2>5, <2>6
<1>5. CASE RecordUpload(w)
    <2> DEFINE e == IF proc[w].role = Source THEN [Idle EXCEPT !.pc = "admitted"] ELSE Idle
    <2>1. e \in Execution /\ e.pc \in {"idle", "admitted"}
        BY IdleType DEF Idle, Execution, PCs
    <2>2. proc' = [proc EXCEPT ![w] = e] /\ owner = w /\ owner' = None /\ HolderFits(w) /\ Fits(w)
        BY <1>5 DEF RecordUpload, Release, Owns
    <2> HIDE DEF e
    <2>3. /\ proc[w].role \in Roles \cap objects \cap stored
          /\ proc[w].receipt => proc[w].role \notin late
          /\ status = IF proc[w].role = Source THEN "allocating" ELSE "active"
        BY <2>2, <1>5 DEF RecordUpload, Owns, HolderFits, Fits
    <2>4. /\ status' = "active"
          /\ confirmed' = IF proc[w].receipt THEN confirmed \cup {proc[w].role} ELSE confirmed
          /\ UNCHANGED <<terminal, objects, watch, lease, renewed, batches, known, stored, late>>
        BY <1>5, <2>3 DEF RecordUpload, storage
    <2>5. TypeOK'
        BY <2>1, <2>2, <2>3, <2>4, OneMoves DEF TypeOK, Statuses, Cleanable
    <2>6. RowOK'
        BY <2>3, <2>4 DEF RowOK, Open, Cleaned, NoOrphan, SuccessMeansReports
    <2>7. ASSUME NEW q \in Processes PROVE Fits(q)' /\ owner' # q
        <3>1. CASE q = w
            BY <3>1, <2>1, <2>2, OneMoves, RunProcessAssumption DEF Fits, At
        <3>2. CASE q # w
            <4>1. proc'[q] = proc[q]
                BY <3>2, <2>1, <2>2, OneMoves
            <4> QED  BY <4>1, <2>2, <2>3, <2>4, RunProcessAssumption DEF Fits, At, Open
        <3> QED  BY <3>1, <3>2
    <2> QED  BY <2>5, <2>6, <2>7
<1>6. CASE UploadRaises(w)
    BY <1>6, ClosingType, IdleType, StepsAside DEF UploadRaises, Release, Outcomes, TypeOK
<1>7. CASE AdmitRun(w)
    BY <1>7, IdleType, StepsAside DEF AdmitRun, Move
<1> QED  BY <1>1, <1>2, <1>3, <1>4, <1>5, <1>6, <1>7 DEF Begin

LEMMA UseKeeps ==
    ASSUME RunInv, NEW w \in Workers, Use(w)
    PROVE  RunInv'
<1> USE DEF RunInv, Processes
<1>1. CASE RenewLease(w)
    <2>1. TypeOK'
        BY <1>1, LeaseAssumption DEF RenewLease, RenewedLease, TypeOK, storage
    <2>2. RowOK'
        BY <1>1 DEF RenewLease, RowOK, NoOrphan, SuccessMeansReports, storage
    <2>3. ASSUME NEW q \in Processes PROVE Fits(q)' /\ (owner' = q => HolderFits(q)')
        BY <1>1 DEF RenewLease, Fits, HolderFits, At, storage
    <2> QED  BY <2>1, <2>2, <2>3
<1>2. CASE LoadSource(w)
    <2> DEFINE e == [Idle EXCEPT !.pc = "processing"]
    <2>1. e \in Execution /\ e.pc = "processing"
        BY IdleType DEF Idle, Execution, PCs, Holding
    <2>2. /\ proc' = [proc EXCEPT ![w] = e] /\ owner = None /\ owner' = w
          /\ status = "active" /\ UNCHANGED <<row, known, storage>>
        BY <1>2 DEF LoadSource, Take, Calls, Free, Loadable
    <2> HIDE DEF e
    <2>3. TypeOK'
        BY <2>1, <2>2, OneMoves DEF TypeOK, row, storage
    <2>4. RowOK'
        BY <2>2 DEF RowOK, NoOrphan, SuccessMeansReports, row, storage
    <2>5. ASSUME NEW q \in Processes PROVE Fits(q)' /\ (owner' = q => HolderFits(q)')
        <3>1. CASE q = w
            BY <3>1, <2>1, <2>2, OneMoves DEF Fits, HolderFits, At, row
        <3>2. CASE q # w
            BY <3>2, <2>1, <2>2, OneMoves DEF Fits, At, row
        <3> QED  BY <3>1, <3>2
    <2> QED  BY <2>3, <2>4, <2>5
<1>3. CASE LoadFails(w)
    BY <1>3, ClosingType, StepsAside DEF LoadFails, Move, Outcomes, TypeOK
<1>4. CASE PersistReports(w)
    <2> DEFINE e == Closing("success")
    <2>1. e \in Execution /\ e.pc = "closing"
        BY ClosingType DEF Outcomes
    <2>2. proc' = [proc EXCEPT ![w] = e] /\ owner = w /\ owner' = None /\ HolderFits(w)
        BY <1>4 DEF PersistReports, Release, Owns
    <2> HIDE DEF e
    <2>3. status = "active"
        BY <2>2, <1>4 DEF PersistReports, Owns, HolderFits
    <2>4. /\ terminal = None /\ batches = 0
          /\ status' = "report_persisted" /\ terminal' = "success" /\ batches' = 1
          /\ UNCHANGED <<objects, confirmed, watch, lease, renewed, known, stored, late>>
        BY <2>3, <1>4, OutcomeAssumption
        DEF PersistReports, RowOK, Open, SuccessMeansReports, Outcomes, storage
    <2>5. TypeOK'
        BY <2>1, <2>2, <2>4, OneMoves DEF TypeOK, Statuses, Cleanable, Unfinished, Outcomes
    <2>6. RowOK'
        BY <2>4, OutcomeAssumption
        DEF RowOK, Open, Cleaned, NoOrphan, SuccessMeansReports, Outcomes
    <2>7. ASSUME NEW q \in Processes PROVE Fits(q)' /\ owner' # q
        <3>1. CASE q = w
            BY <3>1, <2>1, <2>2, <2>4, OneMoves, RunProcessAssumption DEF Fits, At
        <3>2. CASE q # w
            <4>1. proc'[q] = proc[q]
                BY <3>2, <2>1, <2>2, OneMoves
            <4> QED  BY <4>1, <2>2, <2>4, RunProcessAssumption DEF Fits, At, Open
        <3> QED  BY <3>1, <3>2
    <2> QED  BY <2>5, <2>6, <2>7
<1>5. CASE ProcessingRaises(w)
    BY <1>5, ClosingType, IdleType, StepsAside DEF ProcessingRaises, Release, Outcomes, TypeOK
<1>6. ASSUME NEW k \in Derived, AddArtifact(w, k) PROVE RunInv'
    <2>1. /\ proc' = [proc EXCEPT ![w] = Uploading(k)] /\ owner = None /\ owner' = w
          /\ status = "active" /\ k \in Roles /\ k # Source
        BY <1>6, RunRoleAssumption DEF AddArtifact, Take, Calls, Free, Roles
    <2>2. /\ k \notin objects /\ objects' = objects \cup {k} /\ late' = late \cup {k}
          /\ UNCHANGED <<status, terminal, confirmed, watch, lease, renewed, batches, known, stored>>
        BY <1>6 DEF AddArtifact
    <2>3. TypeOK'
        BY <2>1, <2>2, UploadingType, OneMoves DEF TypeOK
    <2>4. RowOK'
        BY <2>1, <2>2 DEF RowOK, NoOrphan, SuccessMeansReports, Cleaned
    <2>5. ASSUME NEW q \in Processes PROVE Fits(q)' /\ (owner' = q => HolderFits(q)')
        <3>1. CASE q = w
            <4>1. proc'[w] = Uploading(k)
                BY <2>1, UploadingType, OneMoves
            <4> QED  BY <3>1, <4>1, <2>1, <2>2, UploadingType DEF Fits, HolderFits, At
        <3>2. CASE q # w
            <4>1. proc'[q] = proc[q]
                BY <3>2, <2>1, UploadingType, OneMoves
            <4> QED  BY <3>2, <4>1, <2>1, <2>2 DEF Fits, At
        <3> QED  BY <3>1, <3>2
    <2> QED  BY <2>3, <2>4, <2>5
<1> QED  BY <1>1, <1>2, <1>3, <1>4, <1>5, <1>6 DEF Use

\* A call to storage by a process that deletes: k is gone from storage, or is
\* left for a later clean-up.
LEMMA DeletionKeeps ==
    ASSUME RunInv, NEW p \in Processes, NEW k \in Roles, NEW e \in Execution,
           At(p, "deleting"), proc' = [proc EXCEPT ![p] = e], owner' = owner,
           e.pc = "deleting", e.todo = proc[p].todo \ {k},
           \/ e.left = proc[p].left \cup {k}
           \/ e.left = proc[p].left /\ k \in confirmed /\ k \notin stored',
           stored' \in {stored, stored \ {k}}, UNCHANGED <<row, known, late>>
    PROVE  RunInv'
<1> USE DEF RunInv
<1>1. TypeOK'
    BY OneMoves DEF TypeOK, row
<1>2. status \notin Open
    BY DEF Fits
<1>3. RowOK'
    BY <1>2 DEF RowOK, NoOrphan, SuccessMeansReports, Open, row
<1>4. ASSUME NEW q \in Processes PROVE Fits(q)' /\ (owner' = q => HolderFits(q)')
    <2>1. CASE q = p
        <3>1. proc'[p] = e
            BY OneMoves
        <3> QED  BY <2>1, <3>1, <1>2 DEF Fits, HolderFits, At, RowOK, row
    <2>2. CASE q # p
        <3>1. proc'[q] = proc[q]
            BY <2>2, OneMoves
        <3>2. Fits(q) /\ (owner = q => HolderFits(q))
            OBVIOUS
        <3>3. owner = q => ~At(q, "uploading") /\ ~At(q, "stored")
            BY <3>2, <1>2 DEF HolderFits, Open
        <3> QED  BY <3>1, <3>2, <3>3 DEF Fits, HolderFits, At, row
    <2> QED  BY <2>1, <2>2
<1> QED  BY <1>1, <1>3, <1>4

LEMMA CleanKeeps ==
    ASSUME RunInv, NEW p \in Processes, Clean(p)
    PROVE  RunInv'
<1> USE DEF RunInv
<1>0. proc[p] \in Execution
    BY DEF TypeOK
<1>1. CASE SkipCleanup(p)
    BY <1>1, IdleType, StepsAside DEF SkipCleanup, Move, TypeOK
<1>2. CASE StartCleanup(p)
    <2> DEFINE e == [proc[p] EXCEPT !.pc = "deleting", !.todo = objects]
    <2>1. /\ e \in Execution /\ e.pc = "deleting" /\ e.todo = objects
        BY <1>0 DEF TypeOK, Execution, PCs, Holding
    <2>2. /\ proc' = [proc EXCEPT ![p] = e] /\ owner = None /\ owner' = p
          /\ status' = "cleanup_pending" /\ terminal' = OutcomeOf(proc[p].outcome)
          /\ UNCHANGED <<objects, confirmed, watch, lease, renewed, batches, known, stored, late>>
        BY <1>2 DEF StartCleanup, Take, Free, storage
    <2> HIDE DEF e
    <2>3. /\ terminal' \in Outcomes
          /\ (terminal' = "success") <=> (terminal = "success")
          /\ terminal # None => terminal' = terminal
        <3>1. proc[p].outcome \in Outcomes
            BY <1>0 DEF Execution
        <3>2. proc[p].outcome = "success" => terminal = "success"
            BY <1>2, <1>0 DEF StartCleanup, Wants, Fits, At
        <3> QED  BY <3>1, <3>2, <2>2, OutcomeAssumption DEF OutcomeOf, TypeOK, Outcomes
    <2>4. TypeOK'
        BY <2>1, <2>2, <2>3, OneMoves DEF TypeOK, Statuses, Cleanable, Unfinished
    <2>5. RowOK'
        BY <2>2, <2>3, OutcomeAssumption DEF RowOK, Open, Cleaned, NoOrphan, SuccessMeansReports
    <2>6. ASSUME NEW q \in Processes PROVE Fits(q)' /\ (owner' = q => HolderFits(q)')
        <3>1. CASE q = p
            <4>1. proc'[p] = e
                BY <2>1, <2>2, OneMoves
            <4> QED  BY <3>1, <4>1, <2>1, <2>2 DEF Fits, HolderFits, At, RowOK, NoOrphan, Open
        <3>2. CASE q # p
            <4>1. proc'[q] = proc[q] /\ Fits(q)
                BY <3>2, <2>1, <2>2, OneMoves
            <4> QED  BY <3>2, <4>1, <2>2, <2>3 DEF Fits, At, Open
        <3> QED  BY <3>1, <3>2
    <2> QED  BY <2>4, <2>5, <2>6
<1>3. CASE FinishCleanup(p)
    <2>1. /\ proc' = [proc EXCEPT ![p] = Idle] /\ owner = p /\ owner' = None
          /\ objects' = proc[p].left /\ HolderFits(p) /\ At(p, "deleting") /\ proc[p].todo = {}
          /\ UNCHANGED <<terminal, confirmed, lease, renewed, batches, known, stored, late>>
        BY <1>3 DEF FinishCleanup, Release, Owns, storage
    <2>2. status = "cleanup_pending" /\ stored \cup late \subseteq proc[p].left
        BY <2>1 DEF HolderFits
    <2>3. terminal \in Outcomes
        BY <2>2 DEF RowOK, Open, TypeOK
    <2>4. /\ status' \in {"cleanup_pending"} \cup Cleaned
          /\ status' \in Cleaned => proc[p].left = {}
          /\ watch' \in BOOLEAN
        <3>1. CleanedAs[terminal] \in Cleaned
            BY <2>3 DEF CleanedAs, Outcomes, Cleaned
        <3>2. CASE proc[p].left = {}
            BY <1>3, <3>1, <3>2 DEF FinishCleanup
        <3>3. CASE proc[p].left # {}
            <4>1. status' = "cleanup_pending" /\ watch' = ~proc[p].error
                BY <1>3, <3>3 DEF FinishCleanup
            <4> QED  BY <4>1 DEF Cleaned
        <3> QED  BY <3>2, <3>3
    <2>5. TypeOK'
        <3>1. proc[p].left \in SUBSET Roles
            BY <1>0 DEF Execution
        <3> QED  BY <2>1, <2>4, <3>1, IdleType, OneMoves
                 DEF TypeOK, Statuses, Cleanable, Unfinished
    <2>6. RowOK'
        BY <2>1, <2>2, <2>3, <2>4, OutcomeAssumption
        DEF RowOK, Open, Cleaned, NoOrphan, SuccessMeansReports
    <2>7. ASSUME NEW q \in Processes PROVE Fits(q)' /\ owner' # q
        <3>1. CASE q = p
            BY <3>1, <2>1, IdleType, OneMoves, RunProcessAssumption DEF Fits, At
        <3>2. CASE q # p
            <4>1. proc'[q] = proc[q] /\ Fits(q)
                BY <3>2, <2>1, IdleType, OneMoves
            <4> QED  BY <4>1, <2>1, <2>4, RunProcessAssumption DEF Fits, At, Open, Cleaned
        <3> QED  BY <3>1, <3>2
    <2> QED  BY <2>5, <2>6, <2>7
<1>4. ASSUME NEW k \in Roles, DeleteObject(p, k) PROVE RunInv'
    <2> DEFINE e == [proc[p] EXCEPT !.todo = @ \ {k},
                                    !.left = IF Resolved(k) THEN @ ELSE @ \cup {k}]
    <2>1. /\ e \in Execution /\ e.pc = proc[p].pc /\ e.todo = proc[p].todo \ {k}
          /\ e.left = IF Resolved(k) THEN proc[p].left ELSE proc[p].left \cup {k}
        BY <1>0 DEF Execution
    <2>2. proc' = [proc EXCEPT ![p] = e] /\ owner' = owner
        BY <1>4 DEF DeleteObject, Move
    <2> HIDE DEF e
    <2>3. At(p, "deleting") /\ stored' = stored \ {k} /\ UNCHANGED <<row, known, late>>
        BY <1>4 DEF DeleteObject
    <2> QED  BY <2>1, <2>2, <2>3, DeletionKeeps DEF Resolved, At
<1>5. ASSUME NEW k \in Roles, DeletionFails(p, k) PROVE RunInv'
    <2> DEFINE e == [proc[p] EXCEPT !.todo = @ \ {k}, !.left = @ \cup {k}, !.error = TRUE]
    <2>1. /\ e \in Execution /\ e.pc = proc[p].pc /\ e.todo = proc[p].todo \ {k}
          /\ e.left = proc[p].left \cup {k}
        BY <1>0 DEF Execution
    <2>2. proc' = [proc EXCEPT ![p] = e] /\ owner' = owner
        BY <1>5 DEF DeletionFails, Move
    <2> HIDE DEF e
    <2>3. /\ At(p, "deleting") /\ stored' \in {stored, stored \ {k}}
          /\ UNCHANGED <<row, known, late>>
        BY <1>5 DEF DeletionFails
    <2> QED  BY <2>1, <2>2, <2>3, DeletionKeeps DEF At
<1> QED  BY <1>1, <1>2, <1>3, <1>4, <1>5 DEF Clean

LEMMA EnvironmentKeeps ==
    ASSUME RunInv,
           \/ ScanRun \/ Tick \/ WatchEnds
           \/ \E p \in Processes : Fault(p)
           \/ \E k \in Roles : UploadLands(k) \/ UploadEnds(k)
    PROVE  RunInv'
<1> USE DEF RunInv
<1>1. CASE ScanRun
    <2> DEFINE e == [Idle EXCEPT !.pc = "selected", !.outcome = "abandoned", !.seen = renewed]
    <2>1. e \in Execution /\ e.pc = "selected" /\ e.outcome = "abandoned"
        BY IdleType DEF Idle, Execution, PCs, Outcomes, TypeOK
    <2>2. /\ proc' = [proc EXCEPT ![Cleaner] = e] /\ owner' = owner
          /\ UNCHANGED <<row, known, storage>>
        BY <1>1 DEF ScanRun, Move
    <2> HIDE DEF e
    <2>3. Cleaner \in Processes
        BY DEF Processes
    <2>4. TypeOK'
        BY <2>1, <2>2, <2>3, OneMoves DEF TypeOK, row, storage
    <2>5. RowOK'
        BY <2>2 DEF RowOK, NoOrphan, SuccessMeansReports, row, storage
    <2>6. ASSUME NEW q \in Processes PROVE Fits(q)' /\ (owner' = q => HolderFits(q)')
        <3>1. CASE q = Cleaner
            BY <3>1, <2>1, <2>2, OneMoves DEF Fits, HolderFits, At
        <3>2. CASE q # Cleaner
            <4>1. proc'[q] = proc[q]
                BY <3>2, <2>1, <2>2, <2>3, OneMoves
            <4> QED  BY <4>1, <2>2 DEF Fits, HolderFits, At, row, storage
        <3> QED  BY <3>1, <3>2
    <2> QED  BY <2>4, <2>5, <2>6
<1>2. CASE Tick
    <2>1. lease' \in 0 .. LeaseTicks
        BY <1>2, LeaseAssumption DEF Tick, TypeOK
    <2> QED  BY <1>2, <2>1
             DEF Tick, TypeOK, RowOK, NoOrphan, SuccessMeansReports, Fits, HolderFits, At, storage
<1>3. CASE WatchEnds
    BY <1>3 DEF WatchEnds, TypeOK, RowOK, NoOrphan, SuccessMeansReports, Fits, HolderFits,
                At, storage
<1>4. ASSUME NEW p \in Processes, LoseConnection(p) PROVE RunInv'
    BY <1>4, RunProcessAssumption
    DEF LoseConnection, TypeOK, RowOK, NoOrphan, SuccessMeansReports, Fits, At, row, storage
<1>5. ASSUME NEW p \in Processes, LoseOwnership(p) PROVE RunInv'
    BY <1>5, IdleType, StepsAside DEF LoseOwnership, Move, TypeOK
<1>6. ASSUME NEW p \in Processes, Crash(p) PROVE RunInv'
    BY <1>6, IdleType, StepsAside DEF Crash, TypeOK
<1>7. ASSUME NEW k \in Roles, UploadLands(k) PROVE RunInv'
    <2>1. TypeOK'
        BY <1>7 DEF UploadLands, TypeOK, row
    <2>2. RowOK'
        BY <1>7 DEF UploadLands, RowOK, NoOrphan, SuccessMeansReports, row
    <2> QED  BY <1>7, <2>1, <2>2 DEF UploadLands, Fits, HolderFits, At, row
<1>8. ASSUME NEW k \in Roles, UploadEnds(k) PROVE RunInv'
    <2>1. TypeOK'
        BY <1>8 DEF UploadEnds, TypeOK, row
    <2>2. RowOK'
        BY <1>8 DEF UploadEnds, RowOK, NoOrphan, SuccessMeansReports, row
    <2> QED  BY <1>8, <2>1, <2>2 DEF UploadEnds, Fits, HolderFits, At, row
<1> QED  BY <1>1, <1>2, <1>3, <1>4, <1>5, <1>6, <1>7, <1>8 DEF Fault

LEMMA StutterKeeps == ASSUME RunInv, UNCHANGED vars PROVE RunInv'
BY DEF RunInv, TypeOK, RowOK, NoOrphan, SuccessMeansReports, Fits, HolderFits, At, vars, row,
       storage

LEMMA NextKeeps == RunInv /\ [Next]_vars => RunInv'
BY BeginKeeps, UseKeeps, CleanKeeps, EnvironmentKeeps, StutterKeeps DEF Next

\* The invariant from which the others follow.
THEOREM RunInvariant == Spec => []RunInv
<1> QED  BY InitRun, NextKeeps, PTL DEF Spec

-----------------------------------------------------------------------------
(* The invariants that the runs check. *)

\* Every variable keeps its type: no lease is longer than a full one.
THEOREM RunTypeCorrect == Spec => []TypeOK
<1>1. RunInv => TypeOK
    BY DEF RunInv
<1> QED  BY <1>1, RunInvariant, PTL

\* An object that exists or may appear is listed by the row, whatever process
\* stopped at whatever point (begin_verification_run's planned keys).
THEOREM NothingIsOrphaned == Spec => []NoOrphan
<1>1. RunInv => NoOrphan
    BY DEF RunInv, RowOK
<1> QED  BY <1>1, RunInvariant, PTL

\* An active run's source can be read, and a processor's is never deleted
\* (the lock and the mark of cleanup_verification_run).
THEOREM SourceIsReadable == Spec => []SourceStaysReadable
<1>1. RunInv => SourceStaysReadable
    <2> SUFFICES ASSUME RunInv, status = "active" \/ \E w \in Workers : Owns(w, "processing")
                 PROVE  Source \in stored
        BY DEF SourceStaysReadable
    <2>1. status = "active"
        BY DEF RunInv, HolderFits, Owns, At, Processes
    <2> QED  BY <2>1 DEF RunInv, RowOK
<1> QED  BY <1>1, RunInvariant, PTL

\* The outcome "success" and the reports are committed together, once
\* (complete_active_verification_run).
THEOREM OutcomeIsHonest == Spec => []SuccessMeansReports
<1>1. RunInv => SuccessMeansReports
    BY DEF RunInv, RowOK
<1> QED  BY <1>1, RunInvariant, PTL

-----------------------------------------------------------------------------
(* The run implements TransientUse. *)

LEMMA PhaseOfStatus ==
    /\ status \in Open => Phase = "open"
    /\ status \in Unfinished => Phase = "closed"
    /\ status \in Cleaned => Phase = "gone"
BY DEF Phase, Open, Unfinished, Cleaned

LEMMA NextPhaseOfStatus ==
    /\ status' \in Open => Phase' = "open"
    /\ status' \in Unfinished => Phase' = "closed"
    /\ status' \in Cleaned => Phase' = "gone"
BY DEF Phase, Open, Unfinished, Cleaned

LEMMA EachStatus ==
    ASSUME RunInv PROVE status \in Open \cup Unfinished \cup Cleaned
BY DEF RunInv, TypeOK, Statuses, Cleanable, Open

\* What TransientUse sees of a step that neither changes the phase nor the
\* bytes nor the reports.
LEMMA Unseen ==
    ASSUME Phase' = Phase, stored' = stored, batches' = batches
    PROVE  UNCHANGED Promise!vars
BY DEF Promise!vars

LEMMA SamePhase ==
    ASSUME status' = status
    PROVE  Phase' = Phase
BY DEF Phase

LEMMA BeginPromise ==
    ASSUME RunInv, NEW w \in Workers, Begin(w)
    PROVE  UNCHANGED Promise!vars
<1>1. CASE PlanRun(w)
    BY <1>1, PhaseOfStatus, NextPhaseOfStatus, Unseen DEF PlanRun, Open, storage
<1>2. CASE RecordUpload(w)
    <2>1. status \in Open /\ status' \in Open
        BY <1>2 DEF RecordUpload, Owns, RunInv, HolderFits, Processes, Open
    <2> QED  BY <1>2, <2>1, PhaseOfStatus, NextPhaseOfStatus, Unseen DEF RecordUpload, storage
<1>3. CASE \/ StartUpload(w) \/ UploadRefused(w) \/ UploadReturns(w)
           \/ UploadRaises(w) \/ AdmitRun(w)
    BY <1>3, SamePhase, Unseen
    DEF StartUpload, UploadRefused, UploadReturns, UploadRaises, AdmitRun, row, storage
<1> QED  BY <1>1, <1>2, <1>3 DEF Begin

LEMMA UsePromise ==
    ASSUME RunInv, NEW w \in Workers, Use(w)
    PROVE  [Promise!Next]_Promise!vars
<1>1. CASE PersistReports(w)
    <2>1. status = "active"
        BY <1>1 DEF PersistReports, Owns, RunInv, HolderFits, Processes
    <2>2. Source \in stored /\ batches = 0
        BY <2>1, OutcomeAssumption DEF RunInv, RowOK, Open, SuccessMeansReports, Outcomes
    <2>3. Phase = "open" /\ Phase' = "closed" /\ batches' = 1 /\ stored' = stored
        BY <1>1, <2>1, <2>2, PhaseOfStatus, NextPhaseOfStatus
        DEF PersistReports, Open, Unfinished, storage
    <2>4. Promise!Report
        BY <2>2, <2>3 DEF Promise!Report
    <2> QED  BY <2>4 DEF Promise!Next
<1>2. CASE RenewLease(w) \/ LoadSource(w) \/ LoadFails(w) \/ ProcessingRaises(w)
    BY <1>2, SamePhase, Unseen
    DEF RenewLease, LoadSource, LoadFails, ProcessingRaises, row, storage
<1>3. ASSUME NEW k \in Derived, AddArtifact(w, k) PROVE UNCHANGED Promise!vars
    BY <1>3, SamePhase, Unseen DEF AddArtifact
<1> QED  BY <1>1, <1>2, <1>3 DEF Use

\* A deletion, also by a process that lost the lock, meets a closed run, or a
\* run that is gone and has no object left.
LEMMA DeletionPromise ==
    ASSUME RunInv, NEW p \in Processes, NEW k \in Roles, At(p, "deleting"),
           stored' \in {stored, stored \ {k}}, UNCHANGED row
    PROVE  [Promise!Next]_Promise!vars
<1>1. Phase' = Phase /\ batches' = batches
    BY SamePhase DEF row
<1>2. CASE stored' = stored
    BY <1>1, <1>2, Unseen
<1>3. CASE stored' = stored \ {k} /\ status \in Unfinished
    <2>1. Promise!Discard(k)
        BY <1>1, <1>3, PhaseOfStatus DEF Promise!Discard
    <2> QED  BY <2>1 DEF Promise!Next
<1>4. CASE stored' = stored \ {k} /\ status \in Cleaned
    <2>1. stored = {}
        BY <1>4 DEF RunInv, RowOK, NoOrphan
    <2> QED  BY <1>2, <1>4, <2>1
<1>5. status \notin Open
    BY DEF RunInv, Fits
<1> QED  BY <1>2, <1>3, <1>4, <1>5, EachStatus

LEMMA CleanPromise ==
    ASSUME RunInv, NEW p \in Processes, Clean(p)
    PROVE  [Promise!Next]_Promise!vars
<1>1. CASE SkipCleanup(p)
    BY <1>1, SamePhase, Unseen DEF SkipCleanup, row, storage
<1>2. CASE StartCleanup(p)
    <2>1. Phase' = "closed" /\ stored' = stored /\ batches' = batches
        BY <1>2, NextPhaseOfStatus DEF StartCleanup, Unfinished, storage
    <2>2. CASE status \in Open
        <3>1. Promise!Close
            BY <2>1, <2>2, PhaseOfStatus DEF Promise!Close
        <3> QED  BY <3>1 DEF Promise!Next
    <2>3. CASE status \in Unfinished
        BY <2>1, <2>3, PhaseOfStatus, Unseen
    <2> QED  BY <1>2, <2>2, <2>3, EachStatus DEF StartCleanup
<1>3. CASE FinishCleanup(p)
    <2>1. /\ status = "cleanup_pending" /\ stored \subseteq proc[p].left
          /\ stored' = stored /\ batches' = batches
        BY <1>3 DEF FinishCleanup, Owns, RunInv, HolderFits, storage
    <2>2. Phase = "closed" /\ terminal \in Outcomes
        BY <2>1, PhaseOfStatus DEF Unfinished, RunInv, RowOK, TypeOK, Open
    <2>3. CASE proc[p].left = {}
        <3>1. status' \in Cleaned
            BY <1>3, <2>2, <2>3 DEF FinishCleanup, CleanedAs, Outcomes, Cleaned
        <3>2. Promise!Finish
            BY <2>1, <2>2, <2>3, <3>1, NextPhaseOfStatus DEF Promise!Finish
        <3> QED  BY <3>2 DEF Promise!Next
    <2>4. CASE proc[p].left # {}
        <3>1. status' = status
            BY <1>3, <2>1, <2>4 DEF FinishCleanup
        <3> QED  BY <2>1, <3>1, SamePhase, Unseen
    <2> QED  BY <2>3, <2>4
<1>4. ASSUME NEW k \in Roles, DeleteObject(p, k) \/ DeletionFails(p, k)
      PROVE  [Promise!Next]_Promise!vars
    BY <1>4, DeletionPromise DEF DeleteObject, DeletionFails
<1> QED  BY <1>1, <1>2, <1>3, <1>4 DEF Clean

LEMMA EnvironmentPromise ==
    ASSUME RunInv,
           \/ ScanRun \/ Tick \/ WatchEnds
           \/ \E p \in Processes : Fault(p)
           \/ \E k \in Roles : UploadLands(k) \/ UploadEnds(k)
    PROVE  [Promise!Next]_Promise!vars
<1>1. ASSUME NEW k \in Roles, UploadLands(k) PROVE [Promise!Next]_Promise!vars
    <2>1. Phase' = Phase /\ batches' = batches /\ stored' = stored \cup {k}
        BY <1>1, SamePhase DEF UploadLands, row
    <2>2. status \notin Cleaned
        BY <1>1 DEF UploadLands, RunInv, RowOK, NoOrphan
    <2>3. Promise!Arrive(k)
        BY <2>1, <2>2, EachStatus, PhaseOfStatus DEF Promise!Arrive
    <2> QED  BY <2>3 DEF Promise!Next
<1>2. CASE \/ ScanRun \/ Tick \/ WatchEnds
           \/ \E p \in Processes : Fault(p)
           \/ \E k \in Roles : UploadEnds(k)
    BY <1>2, SamePhase, Unseen
    DEF ScanRun, Tick, WatchEnds, Fault, LoseConnection, LoseOwnership, Crash, UploadEnds,
        row, storage
<1> QED  BY <1>1, <1>2

LEMMA StepKeepsPromise == RunInv /\ [Next]_vars => [Promise!Next]_Promise!vars
<1>1. ASSUME UNCHANGED vars PROVE UNCHANGED Promise!vars
    BY <1>1, SamePhase, Unseen DEF vars, row, storage
<1> QED  BY <1>1, BeginPromise, UsePromise, CleanPromise, EnvironmentPromise DEF Next

\* Every step of the run is a step that TransientUse allows, or one it does
\* not see: bytes are deleted only from a closed run, reported on once and
\* while they exist, and none is left or comes back when the run is gone.
THEOREM RunKeepsPromise == Spec => KeepsPromise
<1>1. Init => Promise!Init
    BY PhaseOfStatus DEF Init, Promise!Init, Open
<1> QED  BY <1>1, StepKeepsPromise, RunInvariant, PTL DEF Spec, KeepsPromise, Promise!Spec

-----------------------------------------------------------------------------
(* A renewed run stays. *)

\* What the Cleaner saw when it scanned still holds, unless the lease was
\* renewed since or the run is closed; and only the Cleaner abandons a run.
ScanFits ==
    /\ \A p \in Processes : At(p, "closing") => proc[p].outcome # "abandoned"
    /\ At(Cleaner, "selected") =>
          /\ status # "absent" /\ proc[Cleaner].seen <= renewed
          /\ proc[Cleaner].seen = renewed /\ status \in Open => lease <= Skew

\* A step of a process that is not the Cleaner's scan: the Cleaner stays where
\* it is or leaves "selected", and p closes the run only with its own outcome.
LEMMA ScanStays ==
    ASSUME RunInv, ScanFits, NEW p \in Processes, NEW e \in Execution,
           proc' = [proc EXCEPT ![p] = e],
           e.pc # "selected", e.pc = "closing" => e.outcome # "abandoned",
           status' # "absent" \/ status = "absent",
           status' \in Open => status \in Open, lease' = lease, renewed' = renewed
    PROVE  ScanFits'
<1>1. Cleaner \in Processes
    BY DEF Processes
<1>2. proc' [p] = e /\ \A q \in Processes : q # p => proc'[q] = proc[q]
    BY OneMoves DEF RunInv
<1> QED  BY <1>1, <1>2 DEF ScanFits, At

\* As ScanStays, for a step that moves no process.
LEMMA ScanWaits ==
    ASSUME ScanFits, UNCHANGED <<proc, status, renewed>>,
           lease <= Skew => lease' <= Skew
    PROVE  ScanFits'
BY DEF ScanFits, At

LEMMA InitScan == Init => ScanFits
BY IdleType DEF Init, ScanFits, At, Processes

LEMMA NextScan == RunInv /\ ScanFits /\ [Next]_vars => ScanFits'
<1> SUFFICES ASSUME RunInv, ScanFits, [Next]_vars PROVE ScanFits'
    OBVIOUS
<1>0. /\ \A p \in Processes : proc[p] \in Execution
      /\ renewed \in Nat /\ lease \in Nat
      /\ Idle \in Execution /\ Idle.pc = "idle"
      /\ \A o \in {"failed", "success"} :
            Closing(o) \in Execution /\ Closing(o).pc = "closing" /\ Closing(o).outcome # "abandoned"
    BY IdleType, ClosingType DEF RunInv, TypeOK, Outcomes
<1>1. ASSUME NEW w \in Workers, Begin(w) PROVE ScanFits'
    <2> USE DEF Processes
    <2>1. CASE PlanRun(w)
        <3> DEFINE e == [Idle EXCEPT !.pc = "planned"]
        <3>1. e \in Execution /\ e.pc = "planned"
            BY IdleType DEF Idle, Execution, PCs
        <3>2. proc' = [proc EXCEPT ![w] = e] /\ status = "absent"
            BY <2>1 DEF PlanRun, Move
        <3> HIDE DEF e
        <3>3. proc'[w] = e /\ \A q \in Processes : q # w => proc'[q] = proc[q]
            BY <3>1, <3>2, OneMoves DEF RunInv
        <3> QED  BY <3>1, <3>2, <3>3, RunProcessAssumption DEF ScanFits, At
    <2>2. CASE StartUpload(w)
        <3>1. Source \in Roles
            BY DEF Roles
        <3> QED  BY <2>2, <3>1, UploadingType, ScanStays DEF StartUpload, Take, row
    <2>3. CASE UploadReturns(w)
        <3>1. PICK receipt \in BOOLEAN :
                 Move(w, [proc[w] EXCEPT !.pc = "stored", !.receipt = receipt])
            BY <2>3 DEF UploadReturns
        <3> DEFINE e == [proc[w] EXCEPT !.pc = "stored", !.receipt = receipt]
        <3>2. e \in Execution /\ e.pc = "stored"
            BY <1>0 DEF Execution, PCs, Holding
        <3>3. proc' = [proc EXCEPT ![w] = e] /\ UNCHANGED row
            BY <2>3, <3>1 DEF UploadReturns, Move
        <3> HIDE DEF e
        <3> QED  BY <3>2, <3>3, ScanStays DEF row
    <2>4. CASE RecordUpload(w)
        <3> DEFINE e == IF proc[w].role = Source THEN [Idle EXCEPT !.pc = "admitted"] ELSE Idle
        <3>1. e \in Execution /\ e.pc \in {"idle", "admitted"}
            BY IdleType DEF Idle, Execution, PCs
        <3>2. proc' = [proc EXCEPT ![w] = e] /\ UNCHANGED <<lease, renewed>>
            BY <2>4 DEF RecordUpload, Release
        <3>3. status \in Open /\ status' # "absent"
            BY <2>4 DEF RecordUpload, Owns, RunInv, HolderFits, Open
        <3> HIDE DEF e
        <3> QED  BY <3>1, <3>2, <3>3, ScanStays
    <2>5. CASE UploadRefused(w) \/ UploadRaises(w) \/ AdmitRun(w)
        BY <1>0, <2>5, ScanStays
        DEF UploadRefused, UploadRaises, AdmitRun, Move, Release, row
    <2> QED  BY <1>1, <2>1, <2>2, <2>3, <2>4, <2>5 DEF Begin
<1>2. ASSUME NEW w \in Workers, Use(w) PROVE ScanFits'
    <2> USE DEF Processes
    <2>1. CASE RenewLease(w)
        <3>1. proc[Cleaner].seen \in Nat
            BY <1>0, LeaseAssumption DEF Execution
        <3>2. UNCHANGED <<proc, status>> /\ renewed' = renewed + 1
            BY <2>1 DEF RenewLease
        <3> QED  BY <1>0, <3>1, <3>2 DEF ScanFits, At
    <2>2. CASE LoadSource(w)
        <3> DEFINE e == [Idle EXCEPT !.pc = "processing"]
        <3>1. e \in Execution /\ e.pc = "processing"
            BY IdleType DEF Idle, Execution, PCs, Holding
        <3>2. proc' = [proc EXCEPT ![w] = e] /\ UNCHANGED row
            BY <2>2 DEF LoadSource, Take
        <3> HIDE DEF e
        <3> QED  BY <3>1, <3>2, ScanStays DEF row
    <2>3. CASE PersistReports(w)
        BY <1>0, <2>3, ScanStays DEF PersistReports, Release, Open
    <2>4. CASE LoadFails(w) \/ ProcessingRaises(w)
        BY <1>0, <2>4, ScanStays DEF LoadFails, ProcessingRaises, Move, Release, row
    <2>5. ASSUME NEW k \in Derived, AddArtifact(w, k) PROVE ScanFits'
        <3>1. k \in Roles
            BY DEF Roles
        <3> QED  BY <2>5, <3>1, UploadingType, ScanStays DEF AddArtifact, Take
    <2> QED  BY <1>2, <2>1, <2>2, <2>3, <2>4, <2>5 DEF Use
<1>3. ASSUME NEW p \in Processes, Clean(p) PROVE ScanFits'
    <2>1. CASE SkipCleanup(p)
        BY <1>0, <2>1, ScanStays DEF SkipCleanup, Move, row
    <2>2. CASE StartCleanup(p)
        <3> DEFINE e == [proc[p] EXCEPT !.pc = "deleting", !.todo = objects]
        <3>1. e \in Execution /\ e.pc = "deleting"
            BY <1>0 DEF RunInv, TypeOK, Execution, PCs, Holding
        <3>2. proc' = [proc EXCEPT ![p] = e] /\ status' = "cleanup_pending"
              /\ UNCHANGED <<lease, renewed>>
            BY <2>2 DEF StartCleanup, Take
        <3> HIDE DEF e
        <3> QED  BY <3>1, <3>2, ScanStays DEF Open
    <2>3. CASE FinishCleanup(p)
        <3>1. status' \notin Open
            <4>1. terminal \in Outcomes
                BY <2>3 DEF FinishCleanup, Owns, RunInv, HolderFits, RowOK, TypeOK, Open
            <4> QED  BY <2>3, <4>1 DEF FinishCleanup, CleanedAs, Outcomes, Open
        <3> QED  BY <1>0, <2>3, <3>1, ScanStays DEF FinishCleanup, Release, Open
    <2>4. ASSUME NEW k \in Roles, DeleteObject(p, k) \/ DeletionFails(p, k) PROVE ScanFits'
        <3>1. PICK e : /\ e \in Execution /\ e.pc = "deleting"
                       /\ proc' = [proc EXCEPT ![p] = e]
            <4>1. CASE DeleteObject(p, k)
                <5> DEFINE e == [proc[p] EXCEPT !.todo = @ \ {k},
                                    !.left = IF Resolved(k) THEN @ ELSE @ \cup {k}]
                <5>1. e \in Execution /\ e.pc = proc[p].pc
                    BY <1>0 DEF Execution
                <5>2. proc' = [proc EXCEPT ![p] = e] /\ proc[p].pc = "deleting"
                    BY <4>1 DEF DeleteObject, Move, At
                <5> HIDE DEF e
                <5> QED  BY <5>1, <5>2
            <4>2. CASE DeletionFails(p, k)
                <5> DEFINE e == [proc[p] EXCEPT !.todo = @ \ {k}, !.left = @ \cup {k},
                                                !.error = TRUE]
                <5>1. e \in Execution /\ e.pc = proc[p].pc
                    BY <1>0 DEF Execution
                <5>2. proc' = [proc EXCEPT ![p] = e] /\ proc[p].pc = "deleting"
                    BY <4>2 DEF DeletionFails, Move, At
                <5> HIDE DEF e
                <5> QED  BY <5>1, <5>2
            <4> QED  BY <2>4, <4>1, <4>2
        <3>2. UNCHANGED <<status, lease, renewed>>
            BY <2>4 DEF DeleteObject, DeletionFails, row
        <3> QED  BY <3>1, <3>2, ScanStays
    <2> QED  BY <1>3, <2>1, <2>2, <2>3, <2>4 DEF Clean
<1>4. CASE ScanRun
    <2> DEFINE e == [Idle EXCEPT !.pc = "selected", !.outcome = "abandoned", !.seen = renewed]
    <2>1. e \in Execution /\ e.pc = "selected" /\ e.seen = renewed
        BY IdleType DEF Idle, Execution, PCs, Outcomes, RunInv, TypeOK
    <2>2. /\ proc' = [proc EXCEPT ![Cleaner] = e] /\ UNCHANGED row
          /\ status # "absent" /\ (status \in Open => lease <= Skew)
        BY <1>4 DEF ScanRun, Move, Expired, Cleanable, Unfinished, Open
    <2> HIDE DEF e
    <2>3. proc'[Cleaner] = e /\ \A q \in Processes : q # Cleaner => proc'[q] = proc[q]
        BY <2>1, <2>2, OneMoves DEF RunInv, Processes
    <2> QED  BY <1>0, <2>1, <2>2, <2>3 DEF ScanFits, At, row
<1>5. ASSUME NEW p \in Processes, Fault(p) PROVE ScanFits'
    <2>1. CASE LoseConnection(p)
        BY <2>1, ScanWaits DEF LoseConnection, row
    <2>2. CASE LoseOwnership(p) \/ Crash(p)
        BY <1>0, <2>2, ScanStays DEF LoseOwnership, Crash, Move, row
    <2> QED  BY <1>5, <2>1, <2>2 DEF Fault
<1>6. CASE Tick
    BY <1>0, <1>6, LeaseAssumption, ScanWaits DEF Tick
<1>7. CASE WatchEnds \/ (\E k \in Roles : UploadLands(k) \/ UploadEnds(k)) \/ UNCHANGED vars
    BY <1>7, ScanWaits DEF WatchEnds, UploadLands, UploadEnds, vars, row
<1> QED  BY <1>1, <1>2, <1>3, <1>4, <1>5, <1>6, <1>7 DEF Next

\* Only the Cleaner closes a run as abandoned, and what it saw still holds.
LEMMA OnlyExpired ==
    ASSUME RunInv, ScanFits, Next, terminal' = "abandoned",
           status \in {"allocating", "active"}
    PROVE  lease <= Skew
<1>1. terminal = None /\ "abandoned" # None
    BY OutcomeAssumption DEF RunInv, RowOK, Open, Outcomes
<1>2. PICK p \in Processes : StartCleanup(p)
    BY <1>1, RunProcessAssumption
    DEF Next, Begin, Use, Clean, Fault, PlanRun, StartUpload, UploadRefused, UploadReturns,
        RecordUpload, UploadRaises, AdmitRun, RenewLease, AddArtifact, LoadSource, LoadFails,
        PersistReports, ProcessingRaises, ScanRun, SkipCleanup, DeleteObject, DeletionFails,
        FinishCleanup, Tick, WatchEnds, UploadLands, UploadEnds, LoseConnection,
        LoseOwnership, Crash, row
<1>3. proc[p].outcome = "abandoned"
    BY <1>1, <1>2 DEF StartCleanup, OutcomeOf
<1>4. p = Cleaner /\ At(Cleaner, "selected") /\ StillExpired
    BY <1>2, <1>3 DEF StartCleanup, Wants, ScanFits
<1> QED  BY <1>4 DEF StillExpired, Unfinished, ScanFits, Open

\* No run is abandoned whose lease has time left by the Cleaner's own clock,
\* however its scan and the renewals interleave (the second look of
\* cleanup_verification_run).
THEOREM NoRenewedRunAbandoned == Spec => RenewedRunStays
<1> DEFINE A == terminal' = "abandoned" /\ status \in {"allocating", "active"} => lease <= Skew
<1>1. RunInv /\ ScanFits /\ [Next]_vars => [A]_vars
    BY OnlyExpired
<1>2. Spec => []ScanFits
    BY InitScan, NextScan, RunInvariant, PTL DEF Spec
<1> QED  BY <1>1, <1>2, RunInvariant, PTL DEF Spec, RenewedRunStays
=============================================================================
