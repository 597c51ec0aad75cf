----------------------------- MODULE SearchReuse -----------------------------
(***************************************************************************)
(* Searches for one cited work in one authorization scope: the checks that *)
(* look for its source, the earlier results and the memo of a completed    *)
(* paid search they may take instead of paying again, and the uploads that *)
(* put the source into the scope's library.                                *)
(*                                                                         *)
(* The references of a check are resolved on threads of their own: what    *)
(* such a thread wants to write to the memo waits until the check's thread *)
(* commits it with the reference's result.                                 *)
(***************************************************************************)
EXTENDS Integers

CONSTANTS
    None,           \* "no value"
    MaxJobs,        \* bound: checks of papers that cite the work
    MaxDay,         \* bound: days
    Pause,          \* SEARCH_REUSE_PAUSE_DAYS
    RerunDays,      \* SEARCH_RERUN_REUSE_DAYS
    MaxRefreshes,   \* bound: searches asked for again
    MaxFaults       \* bound: deaths, failures, copies that expire

Jobs == 1 .. MaxJobs                \* in the order of created_at
Days == 0 .. MaxDay

ASSUME BoundAssumption ==
    /\ {MaxJobs, MaxDay, RerunDays, MaxRefreshes, MaxFaults} \subseteq Nat
    /\ Pause \in Nat \ {0}

VARIABLES
    day,
    library,        \* the scope's library has an accepted copy
    memo,           \* the committed row of search_memos
    job,            \* the checks, as far as the work is concerned
    refreshes, faults

counts == <<refreshes, faults>>
vars == <<day, library, memo, job, counts>>

-----------------------------------------------------------------------------
Found    == {"stored", "public", "transient"}   \* the source was acquired
NotFound == {"nothing", "possible"}             \* the search completed

\* What source_results says, and the day of the search it rests on.
Result == [kind : Found \cup NotFound \cup {"incomplete"}, day : Days]
Memo   == [made : Days, result : Result]
Write  == [do : {"put", "delete"}, made : Days]

Steps == {"none", "queued", "indexed", "searching", "unlocated", "paying", "answered",
          "recorded", "done", "failed"}
Job == [step     : Steps,
        created  : Days,
        prior    : Result \cup {None},      \* an earlier check's, as it was read
        result   : Result \cup {None},
        write    : Write \cup {None},       \* what waits for the memo
        refresh  : BOOLEAN,                 \* targeted_source_refresh
        forced   : BOOLEAN,                 \* its force_search
        before   : Result \cup {None},      \* its previous_source_results
        assured  : BOOLEAN]                 \* the library had it when it was planned, and has
NoJob == [step |-> "none", created |-> 0, prior |-> None, result |-> None, write |-> None,
          refresh |-> FALSE, forced |-> FALSE, before |-> None, assured |-> FALSE]

ASSUME NoneAssumption == None \notin Result \cup Memo \cup Write

TypeOK ==
    /\ day \in Days
    /\ library \in BOOLEAN
    /\ memo \in Memo \cup {None}
    /\ job \in [Jobs -> Job]
    /\ refreshes \in 0 .. MaxRefreshes /\ faults \in 0 .. MaxFaults

Init ==
    /\ day = 0
    /\ library = FALSE /\ memo = None
    /\ job = [j \in Jobs |-> NoJob]
    /\ refreshes = 0 /\ faults = 0

At(j, step) == job[j].step = step
Fault       == faults < MaxFaults /\ faults' = faults + 1 /\ UNCHANGED refreshes

Tick        == day < MaxDay /\ day' = day + 1
               /\ UNCHANGED <<library, memo, job, counts>>

-----------------------------------------------------------------------------
(* A check *)

Submit(j) ==
    /\ At(j, "none") /\ \A i \in 1 .. (j - 1) : ~At(i, "none")
    /\ job' = [job EXCEPT ![j].step = "queued", ![j].created = day]
    /\ UNCHANGED <<day, library, memo, counts>>

\* earlier_result: an incomplete search and a text that was not kept are not
\* taken over.
Reusable(r) == r # None /\ r.kind \in NotFound \cup {"stored", "public"}

\* prior_results_index: the newest completed check whose result may be taken.
Earlier(j) ==
    {i \in Jobs \ {j} : At(i, "done") /\ job[i].created + RerunDays >= day
                        /\ Reusable(job[i].result)}

\* It is read when the stage starts, by a check that does not search again on
\* purpose. The other paper may cite the work in another form.
Index(j) ==
    /\ At(j, "queued")
    /\ \E prior \in {None} \cup {job[i].result : i \in
               {i \in Earlier(j) : ~job[j].refresh /\ \A k \in Earlier(j) : k <= i}} :
          job' = [job EXCEPT ![j].step = "indexed", ![j].prior = prior]
    /\ UNCHANGED <<day, library, memo, counts>>

\* An earlier result stands when its stored copy can still be authorized, or
\* when the library has not come to hold a copy since. The defect does not look.
StandsBlind(r) == r.kind = "stored" => library
Stands(r) == (r.kind = "stored" => library) /\ (r.kind \in NotFound => ~library)

\* The plan for the reference, which takes the earlier result as it is,
\* downloads the public copy it names, or searches.
Plan(j) ==
    LET r == job[j].prior
        planned == [job EXCEPT ![j].assured = library]
    IN  /\ At(j, "indexed")
        /\ job' = IF r # None /\ Stands(r)
                  THEN IF r.kind = "public" THEN [planned EXCEPT ![j].step = "searching"]
                       ELSE [planned EXCEPT ![j].step = "recorded", ![j].result = r]
                  ELSE [planned EXCEPT ![j].step = "searching", ![j].prior = None]
        /\ UNCHANGED <<day, library, memo, counts>>

\* _update_search_memo: what the reference's end means for the memo. The
\* defect lets an answer that repeats the memo record it anew.
Today(do) == [do |-> do, made |-> day]
WriteAlways(kind, replayed) ==
    CASE kind \in Found -> Today("delete") [] kind = "nothing" -> Today("put") [] OTHER -> None
WriteFor(kind, replayed) ==
    CASE kind \in Found -> Today("delete")
      [] kind = "nothing" /\ ~replayed -> Today("put")
      [] OTHER -> None

\* The thread ends with a result; a source it found may be admitted to the
\* library at once (retain_validated_copy).
Answer(j, result, write) ==
    /\ job' = [job EXCEPT ![j].step = "answered", ![j].result = result, ![j].write = write]
    /\ library' = (library \/ result.kind = "stored")
    /\ UNCHANGED <<day, memo, counts>>

\* refetch_public_source: the same bytes, or a search.
Download(j) ==
    /\ At(j, "searching") /\ job[j].prior # None
    /\ \/ \E kind \in {"public", "stored"} : Answer(j, [job[j].prior EXCEPT !.kind = kind], None)
       \/ /\ job' = [job EXCEPT ![j].prior = None]
          /\ UNCHANGED <<day, library, memo, counts>>

\* A search's own result.
Own(kind) == [kind |-> kind, day |-> day]
Search(j, kind) == Answer(j, Own(kind), WriteFor(kind, FALSE))

\* The library and the free routes come first.
Locate(j) ==
    /\ At(j, "searching") /\ job[j].prior = None
    /\ \E kind \in IF library THEN {"stored"} ELSE Found : Search(j, kind)
Miss(j) ==
    /\ At(j, "searching") /\ job[j].prior = None /\ ~library
    /\ job' = [job EXCEPT ![j].step = "unlocated"]
    /\ UNCHANGED <<day, library, memo, counts>>

\* reusable_memo: not for a search that is to be repeated.
Usable(j) == memo # None /\ memo.made + Pause > day /\ ~job[j].forced

\* The paid tier is skipped; later routes may still find the source, and
\* another route may have failed.
Replay(j) ==
    /\ At(j, "unlocated") /\ Usable(j)
    /\ \/ \E kind \in NotFound \cup {"incomplete"} :
             Answer(j, [memo.result EXCEPT !.kind = kind], WriteFor(kind, TRUE))
       \/ \E kind \in Found : Answer(j, Own(kind), WriteFor(kind, TRUE))

Pay(j) ==
    /\ At(j, "unlocated") /\ ~Usable(j)
    /\ job' = [job EXCEPT ![j].step = "paying"]
    /\ UNCHANGED <<day, library, memo, counts>>
Paid(j) ==
    /\ At(j, "paying")
    /\ \E kind \in Found \cup NotFound \cup {"incomplete"} : Search(j, kind)

\* The check's thread applies what waits for the memo, admits the source and
\* commits. The write may fail, which is only logged, and so may the admission.
Record(j) ==
    LET w == job[j].write
        r == job[j].result
    IN  /\ At(j, "answered")
        /\ \/ memo' = CASE w = None -> memo
                        [] w # None /\ w.do = "put" -> [made |-> w.made, result |-> r]
                        [] OTHER -> None
           \/ UNCHANGED memo
        /\ \E kind \in {r.kind} \cup {k \in {"incomplete"} : r.kind \in Found}
                               \cup {k \in {"possible"} : w # None /\ r.kind \in Found \ {"stored"}} :
              /\ kind = "stored" => library
              /\ job' = [job EXCEPT ![j].step = "recorded", ![j].result.kind = kind,
                                    ![j].prior = None, ![j].write = None]
        /\ UNCHANGED <<day, library, counts>>

\* The report is published.
Finish(j) ==
    /\ At(j, "recorded")
    /\ job' = [job EXCEPT ![j].step = "done", ![j].refresh = FALSE, ![j].forced = FALSE,
                          ![j].before = None, ![j].assured = FALSE]
    /\ UNCHANGED <<day, library, memo, counts>>

Resolving == {"indexed", "searching", "unlocated", "paying", "answered"}
Working   == Resolving \cup {"queued", "recorded"}

\* The worker dies before the reference's checkpoint; the stage starts again.
Crash(j) ==
    /\ job[j].step \in Resolving /\ Fault
    /\ job' = [job EXCEPT ![j].step = "queued", ![j].prior = None, ![j].result = None,
                          ![j].write = None, ![j].assured = FALSE]
    /\ UNCHANGED <<day, library, memo>>

\* A check fails; a refresh is rolled back.
Fail(j) ==
    /\ job[j].step \in Working /\ Fault
    /\ job' = [job EXCEPT ![j] =
           [NoJob EXCEPT !.step = IF job[j].refresh THEN "done" ELSE "failed",
                         !.created = job[j].created, !.result = job[j].before]]
    /\ UNCHANGED <<day, library, memo>>

-----------------------------------------------------------------------------
(* Refreshes and uploads *)

\* An incomplete search is repeated, after a delay, when its provider is back,
\* or by force.
Refresh(j, forced) ==
    /\ At(j, "done") /\ job[j].result.kind = "incomplete"
    /\ refreshes < MaxRefreshes /\ refreshes' = refreshes + 1
    /\ job' = [job EXCEPT ![j].step = "queued", ![j].refresh = TRUE, ![j].forced = forced,
                          ![j].before = job[j].result, ![j].result = None, ![j].assured = FALSE]
    /\ UNCHANGED <<day, library, memo, faults>>

\* The source comes to the library, and the report takes it when it is free.
AdmitUpload ==
    /\ ~library /\ library' = TRUE
    /\ UNCHANGED <<day, memo, job, counts>>

UseUpload(j) ==
    /\ At(j, "done") /\ library /\ job[j].result.kind # "stored"
    /\ memo' \in {memo, None}
    /\ job' = [job EXCEPT ![j].step = "recorded", ![j].refresh = TRUE,
                          ![j].before = job[j].result, ![j].result.kind = "stored"]
    /\ UNCHANGED <<day, library, counts>>

CopyGoes ==
    /\ library /\ library' = FALSE /\ Fault
    /\ job' = [j \in Jobs |-> [job[j] EXCEPT !.assured = FALSE]]
    /\ UNCHANGED <<day, memo>>

-----------------------------------------------------------------------------
Check(j) ==
    \/ Submit(j) \/ Index(j) \/ Plan(j) \/ Download(j) \/ Locate(j) \/ Miss(j)
    \/ Replay(j) \/ Pay(j) \/ Paid(j) \/ Record(j) \/ Finish(j) \/ Crash(j) \/ Fail(j)

Next ==
    \/ Tick \/ AdmitUpload \/ CopyGoes
    \/ \E j \in Jobs : Check(j) \/ UseUpload(j) \/ \E forced \in BOOLEAN : Refresh(j, forced)

Spec == Init /\ [][Next]_vars

-----------------------------------------------------------------------------
(* Properties *)

\* A check that skips the paid search repeats one that was made within the
\* pause, however many checks repeated it before,
\* and whichever threads wrote the memo late (search_memo.py:312).
ReplayedWithinPause ==
    [][\A j \in Jobs : /\ job[j].step = "unlocated" /\ job'[j].step = "answered"
                       /\ job'[j].result.kind \in NotFound
                       => day - job'[j].result.day < Pause]_vars

\* A check that was planned when the library had the source never reports that
\* none was found, whatever earlier checks of the scope, the memo or a start
\* again after a death say (stored_copy_available, paper_workflow.py:653).
CopyIsUsed ==
    \A j \in Jobs : job[j].assured /\ job[j].step \in {"answered", "recorded"}
                    => job[j].result.kind \notin NotFound
=============================================================================
