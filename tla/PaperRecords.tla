---------------------------- MODULE PaperRecords ----------------------------
(***************************************************************************)
(* The records of one submission, in a scope that keeps only the latest    *)
(* report and keeps it for a period: the first check and the Check Again   *)
(* runs linked to it, their report versions, the addresses of deleted      *)
(* versions, the submitted file and the paper copy in storage, and the     *)
(* scheduled sweep that deletes what is expired or replaced.               *)
(*                                                                         *)
(* The sweep reads which records to delete and deletes them one after the  *)
(* other; it locks no row until a deletion is committed.                   *)
(***************************************************************************)
EXTENDS Integers, FiniteSets

CONSTANTS
    Visitors,       \* viewers who press Check Again
    None,           \* "no value"
    MaxJobs,        \* bound: checks of the submission
    MaxVersions,    \* bound: report versions of one check
    MaxReports,     \* bound: report versions of all checks
    MaxFaults       \* bound: deletions that fail, checks that fail, deaths

Jobs    == 1 .. MaxJobs             \* in the order of created_at
Reports == Jobs \X (1 .. MaxVersions)

ASSUME BoundAssumption == /\ MaxJobs \in Nat \ {0} /\ MaxVersions \in Nat \ {0}
                          /\ MaxReports \in Nat /\ MaxFaults \in Nat
                          /\ None \notin Jobs \cup Reports

VARIABLES
    created,    \* checks created so far
    job,        \* their rows
    versions,   \* report versions of each check that have a row
    made,       \* versions of each check published so far
    file,       \* checks whose submitted file is in storage
    copy,       \* checks whose paper copy is in storage
    redirect,   \* report_redirects: where a deleted report's address leads
    expired,    \* reports whose record was deleted at the end of its period,
                \* and deleted reports whose address led to one of them
    visitor,    \* what each visitor's request is doing
    sweep,      \* what the sweep is doing
    faults

objects == <<file, copy>>
reports == <<versions, made, redirect, expired>>
vars == <<created, job, reports, objects, visitor, sweep, faults>>

-----------------------------------------------------------------------------
Finished == {"completed", "failed"}

Job == [status : {"none", "working", "gone"} \cup Finished,
        marker : BOOLEAN,               \* targeted_source_refresh
        kept   : BOOLEAN,               \* the row says the file is kept
        next   : Jobs \cup {None},      \* recheck_job_id
        judged : BOOLEAN]               \* a judgment run is active
NoJob == [status |-> "none", marker |-> FALSE, kept |-> FALSE, next |-> None,
          judged |-> FALSE]

Visitor == [step : {"idle", "chosen", "created"}, from : Jobs \cup {None},
            new : Jobs \cup {None}]
Away == [step |-> "idle", from |-> None, new |-> None]

Sweep == [step : {"idle", "expiring", "keeping", "older", "ids", "file", "copy", "record"},
          phase : {"expiring", "keeping"}, todo : SUBSET Jobs, job : Jobs \cup {None},
          latest : Reports \cup {None}, ids : SUBSET Reports]
NoSweep == [step |-> "idle", phase |-> "expiring", todo |-> {}, job |-> None,
            latest |-> None, ids |-> {}]

TypeOK ==
    /\ created \in 1 .. MaxJobs
    /\ job \in [Jobs -> Job]
    /\ versions \in [Jobs -> SUBSET (1 .. MaxVersions)]
    /\ made \in [Jobs -> 0 .. MaxVersions]
    /\ file \subseteq Jobs /\ copy \subseteq Jobs
    /\ redirect \in [Reports -> Reports \cup {None}]
    /\ expired \subseteq Reports
    /\ visitor \in [Visitors -> Visitor] /\ sweep \in Sweep
    /\ faults \in 0 .. MaxFaults

\* A new row.
Submitted == [NoJob EXCEPT !.status = "working"]

Init ==
    /\ created = 1
    /\ job = [j \in Jobs |-> IF j = 1 THEN Submitted ELSE NoJob]
    /\ versions = [j \in Jobs |-> {}] /\ made = [j \in Jobs |-> 0]
    /\ file = {1} /\ copy = {}
    /\ redirect = [r \in Reports |-> None] /\ expired = {}
    /\ visitor = [v \in Visitors |-> Away]
    /\ sweep = NoSweep
    /\ faults = 0

Fault       == faults < MaxFaults /\ faults' = faults + 1
Is(j, s)    == job[j].status = s
Exists(j)   == job[j].status \notin {"none", "gone"}
Rows(j)     == {<<j, v>> : v \in versions[j]}
Published   == {r \in Reports : r[2] <= made[r[1]]}

\* The bounds leave room for one more report than those on the way.
Room        == Cardinality(Published) + Cardinality({j \in Jobs : Is(j, "working")}) < MaxReports
Opens(r)    == r[2] \in versions[r[1]]
Largest(s)  == CHOOSE n \in s : \A m \in s : m <= n
Smallest(s) == CHOOSE n \in s : \A m \in s : m >= n
\* latest_report
Latest(j)   == IF versions[j] = {} THEN None ELSE <<j, Largest(versions[j])>>

\* lineage: the check and those after it. A link is only ever to a later
\* check, so the number of a check is its place in the chain.
Chain(j) == LET Reach[k \in Jobs] == k = j \/ \E i \in 1 .. (k - 1) :
                    Reach[i] /\ Exists(i) /\ job[i].next = k /\ Exists(k)
            IN  {k \in Jobs : Reach[k]}

-----------------------------------------------------------------------------
(* The checks and refreshes, as far as the records see them *)

\* A version is published: the end of a check, or of a targeted refresh,
\* which found a report; its judgment may be scheduled with it. The first
\* report decides whether the file is kept.
WorkPublishes(j) ==
    /\ Is(j, "working")
    /\ made' = [made EXCEPT ![j] = @ + 1]
    /\ versions' = [versions EXCEPT ![j] = @ \cup {made[j] + 1}]
    /\ copy' = copy \cup {j}
    /\ \E kept \in IF made[j] = 0 THEN BOOLEAN ELSE {job[j].kept}, judged \in BOOLEAN :
          /\ job' = [job EXCEPT ![j].status = "completed", ![j].marker = FALSE,
                                ![j].kept = kept, ![j].judged = judged]
          /\ file' = IF kept THEN file ELSE file \ {j}
    /\ UNCHANGED <<created, redirect, expired, visitor, sweep, faults>>

\* A refresh is rolled back, any other check fails, and its file goes.
WorkFails(j) ==
    /\ Is(j, "working")
    /\ IF job[j].marker
       THEN /\ job' = [job EXCEPT ![j].status = "completed", ![j].marker = FALSE]
            /\ UNCHANGED file /\ Fault
       ELSE /\ job' = [job EXCEPT ![j].status = "failed", ![j].kept = FALSE]
            /\ file' = file \ {j} /\ UNCHANGED faults
    /\ UNCHANGED <<created, reports, copy, visitor, sweep>>

BeginRefresh(j) ==
    /\ Is(j, "completed") /\ versions[j] # {} /\ made[j] < MaxVersions /\ Room
    /\ job' = [job EXCEPT ![j].status = "working", ![j].marker = TRUE]
    /\ UNCHANGED <<created, reports, objects, visitor, sweep, faults>>

\* refresh_evidence_report_projection: a version in one transaction.
Project(j) ==
    /\ Is(j, "completed") /\ versions[j] # {} /\ made[j] < MaxVersions /\ Room
    /\ made' = [made EXCEPT ![j] = @ + 1]
    /\ versions' = [versions EXCEPT ![j] = @ \cup {made[j] + 1}]
    /\ UNCHANGED <<created, job, redirect, expired, objects, visitor, sweep, faults>>

JudgmentEnds(j) ==
    /\ job[j].judged
    /\ job' = [job EXCEPT ![j].judged = FALSE]
    /\ UNCHANGED <<created, reports, objects, visitor, sweep, faults>>

\* The kept file's own period ends.
FileExpires(j) ==
    /\ Is(j, "completed") /\ job[j].kept
    /\ job' = [job EXCEPT ![j].kept = FALSE] /\ file' = file \ {j}
    /\ UNCHANGED <<created, reports, copy, visitor, sweep, faults>>

-----------------------------------------------------------------------------
(* start_recheck *)

Available(j) == Is(j, "completed") /\ job[j].kept

\* The chain, the newest kept file and its evidence are read. Nothing is
\* locked; storage must have the file.
CheckAgain(v, j) ==
    LET kept == {k \in Chain(j) : Available(k)}
    IN  /\ visitor[v].step = "idle" /\ versions[j] # {}
        /\ job[Largest(Chain(j))].status \in Finished
        /\ kept # {} /\ Largest(kept) \in file
        /\ visitor' = [visitor EXCEPT ![v] = [Away EXCEPT !.step = "chosen",
               !.from = Largest(kept)]]
        /\ UNCHANGED <<created, job, reports, objects, sweep, faults>>

\* create_paper_job commits the new check, which the workers may then start.
CreateJob(v) ==
    /\ visitor[v].step = "chosen" /\ created < MaxJobs /\ Room
    /\ created' = created + 1
    /\ job' = [job EXCEPT ![created + 1] = Submitted]
    /\ file' = file \cup {created + 1}
    /\ visitor' = [visitor EXCEPT ![v].step = "created", ![v].new = created + 1]
    /\ UNCHANGED <<reports, copy, sweep, faults>>

\* The evidence as it was read, when no refresh was running, with the link. A
\* row that is gone refuses it.
Link(v) ==
    LET from == visitor[v].from
    IN  /\ visitor[v].step = "created"
        /\ job' = IF Exists(from)
                  THEN [job EXCEPT ![from].next = visitor[v].new,
                                   ![from].marker = FALSE]
                  ELSE job
        /\ visitor' = [visitor EXCEPT ![v] = Away]
        /\ UNCHANGED <<created, reports, objects, sweep, faults>>

\* The request dies between two commits.
RequestDies(v) ==
    /\ visitor[v].step # "idle" /\ Fault
    /\ visitor' = [visitor EXCEPT ![v] = Away]
    /\ UNCHANGED <<created, job, reports, objects, sweep>>

-----------------------------------------------------------------------------
(* expire_paper_records, then keep_latest_reports *)

Sweeping(s) == sweep' = s /\ UNCHANGED <<created, visitor>>
Go(step)    == Sweeping([sweep EXCEPT !.step = step])
NextJob     == [NoSweep EXCEPT !.step = sweep.phase, !.phase = sweep.phase, !.todo = sweep.todo]
Still       == UNCHANGED <<job, reports, objects, faults>>

\* expired_jobs: the whole list is read before the first deletion, and what
\* is returned again or refreshed meanwhile stays in it. Any finished record
\* may be one whose period has ended.
SelectExpired ==
    /\ sweep.step = "idle"
    /\ \E old \in SUBSET {j \in Jobs : job[j].status \in Finished} :
          Sweeping([NoSweep EXCEPT !.step = "expiring", !.todo = old])
    /\ Still

SelectFinished ==
    /\ sweep.step = "expiring" /\ sweep.todo = {}
    /\ Sweeping([NoSweep EXCEPT !.step = "keeping", !.phase = "keeping",
           !.todo = {j \in Jobs : job[j].status \in Finished}])
    /\ Still

EndSweep == sweep.step = "keeping" /\ sweep.todo = {} /\ Sweeping(NoSweep) /\ Still

Expire(j) ==
    /\ sweep.step = "expiring" /\ sweep.todo # {} /\ j = Smallest(sweep.todo)
    /\ Sweeping([sweep EXCEPT !.step = "ids", !.job = j, !.todo = @ \ {j}])
    /\ Still

Busy(j) == job[j].status \notin Finished \/ job[j].marker \/ job[j].judged

\* _replacing_check: the last finished check after this one that has a
\* report; none while a later one is working. The defect looks at the last.
ReplacingLast(j) ==
    LET last == Largest(Chain(j))
    IN  IF last = j \/ ~Is(last, "completed") THEN None ELSE Latest(last)
Replacing(j) ==
    LET after == Chain(j) \ {j}
        done  == {k \in after : Is(k, "completed") /\ versions[k] # {}}
    IN  IF done = {} \/ \E k \in after : job[k].status \notin Finished
        THEN None ELSE Latest(Largest(done))

\* One check of the list, as its row, its chain and its judgments are read.
Considered(j) == sweep.step = "keeping" /\ sweep.todo # {} /\ j = Smallest(sweep.todo)
Idle(j)       == Exists(j) /\ ~Busy(j)
Take(j, step, latest) ==
    Sweeping([sweep EXCEPT !.step = step, !.job = j, !.latest = latest, !.todo = @ \ {j}])

\* A finished check replaced it: the record goes.
Replace(j) ==
    /\ Considered(j) /\ Idle(j) /\ Replacing(j) # None /\ ~Busy(Replacing(j)[1])
    /\ Take(j, "ids", Replacing(j)) /\ Still

\* Nothing replaced it: its older versions go.
KeepLatest(j) ==
    /\ Considered(j) /\ Idle(j) /\ Replacing(j) = None /\ Latest(j) # None
    /\ Take(j, "older", Latest(j)) /\ Still

LeaveAlone(j) ==
    /\ Considered(j)
    /\ \/ ~Idle(j)
       \/ Replacing(j) # None /\ Busy(Replacing(j)[1])
       \/ Replacing(j) = None /\ Latest(j) = None
    /\ Sweeping([NextJob EXCEPT !.todo = @ \ {j}]) /\ Still

\* _redirect: the addresses of the reports, and those that lead to one of
\* them. The defect forgets the latter, which go with the row they name.
RedirectedAlone(old, target) ==
    [r \in Reports |-> IF r \in old THEN target ELSE IF redirect[r] \in old THEN None ELSE redirect[r]]
Redirected(old, target) ==
    [r \in Reports |-> IF r \in old \/ redirect[r] \in old THEN target ELSE redirect[r]]

\* delete_older_versions, whose two reads are not of the same moment.
DeleteOlder ==
    LET j == sweep.job
        older == Rows(j) \ {sweep.latest}
    IN  /\ sweep.step = "older"
        /\ redirect' = Redirected(older, sweep.latest)
        /\ versions' = [versions EXCEPT ![j] = {v \in @ : <<j, v>> \notin older}]
        /\ Sweeping(NextJob)
        /\ UNCHANGED <<job, made, expired, objects, faults>>

\* delete_paper_record: the reports, the file, the copy, then the record.
ReadIds ==
    /\ sweep.step = "ids"
    /\ Sweeping([sweep EXCEPT !.step = "file", !.ids = Rows(sweep.job)])
    /\ Still

\* The row goes on saying that the file is kept.
DeleteFile ==
    /\ sweep.step = "file" /\ file' = file \ {sweep.job}
    /\ Go("copy") /\ UNCHANGED <<job, reports, copy, faults>>

\* The copy's deletion commits what the session has, the redirects with it.
Replaces == sweep.phase = "keeping"
DeleteCopy ==
    /\ sweep.step = "copy" /\ copy' = copy \ {sweep.job}
    /\ redirect' = IF Replaces /\ sweep.job \in copy
                   THEN Redirected(sweep.ids, sweep.latest) ELSE redirect
    /\ Go("record") /\ UNCHANGED <<job, versions, made, expired, file, faults>>

\* Storage fails, before or after it deleted the object: the record stays.
DeletionFails ==
    /\ sweep.step \in {"file", "copy"} /\ Fault
    /\ \/ UNCHANGED objects
       \/ sweep.step = "file" /\ file' = file \ {sweep.job} /\ UNCHANGED copy
       \/ sweep.step = "copy" /\ copy' = copy \ {sweep.job} /\ UNCHANGED file
    /\ Sweeping(NextJob)
    /\ UNCHANGED <<job, reports>>

\* The reports that were read go, then the job; a report published since
\* then refers to the job, and refuses the transaction. The defect deletes
\* whatever reports there are.
UnreadAny == {}
Unread    == Rows(sweep.job) \ sweep.ids
Gone      == {r \in Reports : r \in sweep.ids \/ redirect[r] \in sweep.ids}

DeleteRecord ==
    LET j == sweep.job
    IN  /\ sweep.step = "record" /\ Unread = {}
        /\ versions' = [versions EXCEPT ![j] = {}]
        /\ job' = [job EXCEPT ![j] = [NoJob EXCEPT !.status = "gone"]]
        /\ IF Replaces
           THEN redirect' = Redirected(sweep.ids, sweep.latest) /\ UNCHANGED expired
           ELSE /\ redirect' = [r \in Reports |-> IF r \in Gone THEN None ELSE redirect[r]]
                /\ expired' = expired \cup Gone
        /\ Sweeping(NextJob)
        /\ UNCHANGED <<made, objects, faults>>

\* The exception ends the sweep.
DeletionRefused ==
    /\ sweep.step = "record" /\ Unread # {}
    /\ Sweeping(NoSweep)
    /\ Still

SweepDies ==
    /\ sweep.step # "idle" /\ Fault
    /\ Sweeping(NoSweep)
    /\ UNCHANGED <<job, reports, objects>>

-----------------------------------------------------------------------------
SweepGoesOn ==
    \/ SelectExpired \/ SelectFinished \/ EndSweep
    \/ \E j \in Jobs : Expire(j) \/ Replace(j) \/ KeepLatest(j) \/ LeaveAlone(j)
    \/ DeleteOlder \/ ReadIds \/ DeleteFile \/ DeleteCopy
    \/ DeleteRecord \/ DeletionRefused

Works(j) == WorkPublishes(j) \/ WorkFails(j)

Next ==
    \/ \E j \in Jobs : \/ Works(j) \/ BeginRefresh(j) \/ Project(j) \/ JudgmentEnds(j)
                       \/ FileExpires(j)
    \/ \E v \in Visitors : \/ \E j \in Jobs : CheckAgain(v, j)
                           \/ CreateJob(v) \/ Link(v) \/ RequestDies(v)
    \/ SweepGoesOn \/ DeletionFails \/ SweepDies

Spec == Init /\ [][Next]_vars

\* The sweep is scheduled again and again and goes on; checks, refreshes and
\* judgments end.
FairSpec == /\ Spec /\ WF_vars(SweepGoesOn)
            /\ \A j \in Jobs : WF_vars(Works(j)) /\ WF_vars(JudgmentEnds(j))

-----------------------------------------------------------------------------
(* Properties *)

\* The address of every report that was ever published opens a report: its
\* own, or, once that was replaced, the one kept in its place, however many
\* deletions it went through and whatever was published, linked or failed between their
\* steps - until the record it belongs to is deleted at the end of its period
\* (_redirect, delete_older_versions, keep_latest_reports).
AddressesOpen ==
    \A r \in Published \ expired :
        Opens(r) \/ (redirect[r] # None /\ Opens(redirect[r]))

\* No bytes of a paper outlive its record: the file and the copy are deleted
\* first, and a copy that a refresh attached since then keeps the record
\* (delete_paper_record).
NoBytesWithoutRecord == \A j \in Jobs : j \in file \cup copy => Exists(j)

\* Only the latest report is kept: a version that is not the latest of its
\* check, and every version of a check that a later one of its chain replaced,
\* goes in the end, whichever deletion failed or was refused on the way and
\* whichever later check failed (keep_latest_reports, _replacing_check). That a
\* check is the replacement is judged here from the chain alone.
Replaced(j)   == \E k \in Chain(j) \ {j} : Is(k, "completed") /\ versions[k] # {}
Superseded(r) == Opens(r) /\ (r # Latest(r[1]) \/ Replaced(r[1]))
SupersededGo  == []<>(\A r \in Reports : ~Superseded(r))
=============================================================================
