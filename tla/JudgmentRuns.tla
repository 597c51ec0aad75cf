---------------------------- MODULE JudgmentRuns ----------------------------
(***************************************************************************)
(* Judgment runs: the rows of judgment_runs and judgment_candidate_results *)
(* of one authorization scope, the requests, the check and the retry scan  *)
(* that create runs, the workers of the judgment queue that execute them,  *)
(* the answers kept for reuse, and the report pages that poll the results. *)
(*                                                                         *)
(* Rows are committed one by one, so others see a run while it is walked.  *)
(* Only the claim locks a run's row; nothing locks a report.               *)
(***************************************************************************)
EXTENDS Integers, Sequences, FiniteSets

CONSTANTS
    Reports,        \* report versions of the scope
    Pages,          \* report pages open in a browser
    Workers,        \* processes of the judgment queue
    Scanner, Check, \* the retry_failed_judgments task; finalize_paper_job
    None,           \* "no value"
    Items,          \* number of statement parts in a report, in paper order
    Judged,         \* the parts that are put to a judge
    Sources,        \* the parts at which the walk reaches a new source
    RunLimit, DayLimit,     \* JUDGMENT_MAX_USD_PER_REPORT and _PER_DAY
    Costs, OwnCosts,        \* what one part's calls, one own-work call may cost
    MaxCost,                \* the most that one part's calls cost
    MaxFailures,    \* _FAILURES_BEFORE_STOPPING
    MaxRetries,     \* MAX_AUTO_RETRIES
    PageSize,       \* results in one answer to a page
    MaxRuns,        \* bound: runs
    MaxFaults       \* bound: exceptions, deaths, and messages delivered twice

Parts  == 1 .. Items
Runs   == 1 .. MaxRuns
Askers == Pages \cup {Scanner, Check}

ASSUME PartsAssumption == /\ Items \in Nat \ {0} /\ Judged \subseteq Parts
                           /\ Sources \subseteq Parts /\ 1 \in Sources
ASSUME LimitAssumption == RunLimit \in Nat /\ DayLimit \in Nat \ {0}
ASSUME CostAssumption  == /\ MaxCost \in Nat /\ Costs \subseteq 0 .. MaxCost
                          /\ OwnCosts \subseteq Nat
ASSUME BoundAssumption == /\ MaxFailures \in Nat /\ MaxRetries \in Nat /\ MaxRuns \in Nat
                          /\ MaxFaults \in Nat /\ PageSize \in Nat \ {0}
ASSUME AskerAssumption == /\ Scanner \notin Pages /\ Check \notin Pages /\ Scanner # Check
                          /\ None \notin Nat /\ None \notin Reports
ASSUME WorkerAssumption == IsFiniteSet(Workers) /\ None \notin Workers

VARIABLES
    checked,    \* report versions whose check has published them
    created,    \* runs created so far; a run's number is its place in time
    run,        \* the runs: report, who asked, status, recorded spend
    rows,       \* their results, in seq order
    answers,    \* parts of a report whose valid answers are stored
    holder,     \* worker with a run's row locked
    messages,   \* runs with a message waiting at the broker
    request,    \* what each asker is doing
    worker,     \* what each worker is doing
    page,       \* what each page has read and shows
    spent,      \* sum of the runs' recorded spend
    billed,     \* what the providers of judges were paid
    lost,       \* calls to judges whose cost was never recorded
    faults,     \* what has gone wrong so far
    killed      \* whether a worker died

asking  == <<checked, created, request>>
counts  == <<faults, killed>>
working == <<rows, answers, holder, worker, billed, lost>>
vars == <<checked, created, run, rows, answers, holder, messages, request,
          worker, page, spent, billed, lost, counts>>

-----------------------------------------------------------------------------
Active == {"queued", "running"}
Ended  == {"completed", "unavailable", "failed"}

\* judgment_reasons._RETRY: a judge failed, or was not asked because others did.
Outcomes     == {"judged", "failed", "skipped", "unjudged"}
Retryable(o) == o \in {"failed", "skipped"}

Run     == [report : Reports \cup {None}, auto : BOOLEAN, spend : Nat,
            status : Active \cup Ended \cup {"none"}]
Row     == [part : Parts, outcome : Outcomes]
Request == [step : {"none", "reading", "creating", "sending"},
            report : Reports \cup {None}, force : BOOLEAN, run : Runs \cup {None}]
Worker  == [step : {"idle", "taken", "locked", "started", "source", "walking",
                    "asked", "ending", "raised", "marking"},
            run : Runs \cup {None}, part : Nat, failures : Nat, unsaved : Nat]
Page    == [step : {"closed", "asking", "polling", "reading", "finished"},
            report : Reports \cup {None}, since : Nat, after : Nat,
            shown : [Parts -> Outcomes \cup {None}],
            run : Runs \cup {None}, ended : BOOLEAN]

NoRun     == [report |-> None, auto |-> FALSE, spend |-> 0, status |-> "none"]
NoRequest == [step |-> "none", report |-> None, force |-> FALSE, run |-> None]
Idle      == [step |-> "idle", run |-> None, part |-> 1, failures |-> 0, unsaved |-> 0]
Nothing   == [k \in Parts |-> None]
Closed    == [step |-> "closed", report |-> None, since |-> 0, after |-> 0,
              shown |-> Nothing, run |-> None, ended |-> FALSE]

TypeOK ==
    /\ checked \in SUBSET Reports
    /\ created \in 0 .. MaxRuns
    /\ run \in [Runs -> Run] /\ rows \in [Runs -> Seq(Row)]
    /\ answers \in [Reports -> SUBSET Parts]
    /\ holder \in [Runs -> Workers \cup {None}]
    /\ messages \in SUBSET Runs
    /\ request \in [Askers -> Request]
    /\ worker \in [Workers -> Worker] /\ page \in [Pages -> Page]
    /\ spent \in Nat /\ billed \in Nat /\ lost \in Nat
    /\ faults \in 0 .. MaxFaults /\ killed \in BOOLEAN

Init ==
    /\ checked \in SUBSET Reports
    /\ created = 0
    /\ run = [i \in Runs |-> NoRun] /\ rows = [i \in Runs |-> <<>>]
    /\ answers = [r \in Reports |-> {}]
    /\ holder = [i \in Runs |-> None]
    /\ messages = {}
    /\ request = [a \in Askers |-> NoRequest]
    /\ worker = [w \in Workers |-> Idle]
    /\ page = [p \in Pages |-> Closed]
    /\ spent = 0 /\ billed = 0 /\ lost = 0
    /\ faults = 0 /\ killed = FALSE

RunsOf(r) == {i \in 1 .. created : run[i].report = r}
Fault     == faults < MaxFaults /\ faults' = faults + 1

\* latest_run: the newest run of the report in the scope, if there is one.
Latest(r) == IF RunsOf(r) = {} THEN None
             ELSE CHOOSE i \in RunsOf(r) : \A j \in RunsOf(r) : j <= i

-----------------------------------------------------------------------------
(* create_run, and the requests, the scan and the check that call it *)

Ask(a, q) == request' = [request EXCEPT ![a] = q]

\* finalize_paper_job commits the report and then schedules its judgment.
PaperChecked(r) ==
    /\ r \notin checked /\ request[Check].step = "none"
    /\ checked' = checked \cup {r}
    /\ Ask(Check, [NoRequest EXCEPT !.step = "creating", !.report = r])
    /\ UNCHANGED <<created, run, working, messages, page, spent, counts>>

\* A page posts "start" when it is opened, and "retry" when its reader asks.
OpenPage(p, r) ==
    /\ page[p].step = "closed" /\ r \in checked
    /\ page' = [page EXCEPT ![p].step = "asking", ![p].report = r]
    /\ Ask(p, [NoRequest EXCEPT !.step = "reading", !.report = r])
    /\ UNCHANGED <<checked, created, run, working, messages, spent, counts>>

RetryPage(p) ==
    /\ page[p].step = "finished"
    /\ page' = [page EXCEPT ![p].step = "asking"]
    /\ Ask(p, [NoRequest EXCEPT !.step = "reading", !.report = page[p].report, !.force = TRUE])
    /\ UNCHANGED <<checked, created, run, working, messages, spent, counts>>

\* A run that failed, or has a part whose judge failed.
LeftFailures(i) == \/ run[i].status = "failed"
                   \/ \E n \in DOMAIN rows[i] : Retryable(rows[i][n].outcome)
Retries(r)      == {i \in RunsOf(r) : run[i].auto}
MayRetry(r)     == Cardinality(Retries(r)) < MaxRetries

\* One report of auto_retry_failed_runs. That a run ended long enough ago, and
\* that no newer version replaced the report, only keeps the scan from it.
ScanReport(r) ==
    /\ request[Scanner].step = "none"
    /\ Latest(r) # None
    /\ run[Latest(r)].status \in Ended /\ LeftFailures(Latest(r)) /\ MayRetry(r)
    /\ Ask(Scanner, [NoRequest EXCEPT !.step = "reading", !.report = r, !.force = TRUE])
    /\ UNCHANGED <<checked, created, run, working, messages, page, spent, counts>>

\* create_run's answer: an active run, or a completed one nobody asked to renew.
Reused(a) == LET i == Latest(request[a].report) IN
    /\ i # None
    /\ run[i].status \in IF request[a].force THEN Active ELSE Active \cup {"completed"}

\* The answer reaches the page, which shows results from the first again.
\* A page whose retry failed stays as it was.
Answered(a, ok) ==
    page' = IF a \notin Pages THEN page
            ELSE IF ok \/ ~request[a].force
                 THEN [page EXCEPT ![a] = [Closed EXCEPT !.step = "polling",
                          !.report = request[a].report, !.since = created']]
                 ELSE [page EXCEPT ![a].step = "finished"]

ReuseRun(a) ==
    /\ request[a].step = "reading" /\ Reused(a)
    /\ Ask(a, NoRequest) /\ UNCHANGED created /\ Answered(a, TRUE)
    /\ UNCHANGED <<checked, run, working, messages, spent, counts>>

NoRunToReuse(a) ==
    /\ request[a].step = "reading" /\ ~Reused(a)
    /\ Ask(a, [request[a] EXCEPT !.step = "creating"])
    /\ UNCHANGED <<checked, created, run, working, messages, page, spent, counts>>

CreateRun(a) ==
    /\ request[a].step = "creating" /\ created < MaxRuns
    /\ created' = created + 1
    /\ run' = [run EXCEPT ![created + 1] = [NoRun EXCEPT !.report = request[a].report,
                  !.auto = (a = Scanner), !.status = "queued"]]
    /\ Ask(a, [request[a] EXCEPT !.step = "sending", !.run = created + 1])
    /\ UNCHANGED <<checked, working, messages, page, spent, counts>>

\* dispatch_report_judgment, after the commit.
SendRun(a) ==
    /\ request[a].step = "sending"
    /\ messages' = messages \cup {request[a].run}
    /\ Ask(a, NoRequest) /\ UNCHANGED created /\ Answered(a, TRUE)
    /\ UNCHANGED <<checked, run, working, spent, counts>>

\* The asker dies or an exception ends it; a page hears that its call failed.
RequestFails(a) ==
    /\ request[a].step # "none" /\ Fault
    /\ Ask(a, NoRequest) /\ UNCHANGED created /\ Answered(a, FALSE)
    /\ UNCHANGED <<checked, run, working, messages, spent, killed>>

-----------------------------------------------------------------------------
(* run_report_judgment and execute_run *)

At(w, step) == worker[w].step = step
Become(w, r) == worker' = [worker EXCEPT ![w] = r]
Go(w, step) == Become(w, [worker[w] EXCEPT !.step = step])
Mine(w)     == run[worker[w].run]

\* acks_late: the message is gone only when the task has ended.
TakeMessage(w) == \E i \in messages :
    /\ At(w, "idle")
    /\ messages' = messages \ {i}
    /\ Become(w, [Idle EXCEPT !.step = "taken", !.run = i])
    /\ UNCHANGED <<asking, run, rows, answers, holder, page, spent, billed, lost, counts>>

\* The broker's visibility timeout passed while the task was still running.
DeliverAgain == \E i \in Runs \ messages :
    /\ \E w \in Workers : ~At(w, "idle") /\ worker[w].run = i
    /\ Fault
    /\ messages' = messages \cup {i}
    /\ UNCHANGED <<asking, run, working, page, spent, killed>>

\* SELECT ... FOR UPDATE; the defect reads the row without locking it.
ReadUnlocked(w) ==
    /\ At(w, "taken") /\ Go(w, "locked")
    /\ run[worker[w].run].status = "queued" /\ UNCHANGED holder
    /\ UNCHANGED <<asking, run, rows, answers, messages, page, spent, billed, lost, counts>>
LockRun(w) ==
    /\ At(w, "taken") /\ holder[worker[w].run] = None
    /\ run[worker[w].run].status = "queued"
    /\ Go(w, "locked") /\ holder' = [holder EXCEPT ![worker[w].run] = w]
    /\ UNCHANGED <<asking, run, rows, answers, messages, page, spent, billed, lost, counts>>

NotQueued(w) ==
    /\ At(w, "taken") /\ holder[worker[w].run] = None
    /\ run[worker[w].run].status # "queued"
    /\ Become(w, Idle)
    /\ UNCHANGED <<asking, run, rows, answers, holder, messages, page, spent, billed, lost, counts>>

\* The status is running and committed, which releases the row.
ClaimRun(w) ==
    /\ At(w, "locked")
    /\ run' = [run EXCEPT ![worker[w].run].status = "running"]
    /\ holder' = [holder EXCEPT ![worker[w].run] = None]
    /\ Go(w, "started")
    /\ UNCHANGED <<asking, rows, answers, messages, page, spent, billed, lost, counts>>

\* What this session has recorded and not yet committed.
Saved(w, c) ==
    /\ run' = [run EXCEPT ![worker[w].run].spend = @ + worker[w].unsaved + c]
    /\ spent' = spent + worker[w].unsaved + c

\* finish: the run's ending and what it has not yet committed of its spend.
Finish(w, status) ==
    /\ run' = [run EXCEPT ![worker[w].run].status = status,
                          ![worker[w].run].spend = @ + worker[w].unsaved]
    /\ spent' = spent + worker[w].unsaved
    /\ Become(w, Idle)
    /\ UNCHANGED <<asking, rows, answers, holder, messages, page, billed, lost, counts>>

\* The policy gate refuses the judges.
PanelUnavailable(w) == At(w, "started") /\ Finish(w, "unavailable")

\* _writer_own_work, once for each source; its cost is not yet committed.
OwnWork(w) == \E c \in OwnCosts :
    /\ worker[w].step \in {"started", "source"}
    /\ Become(w, [worker[w] EXCEPT !.step = "walking", !.unsaved = @ + c])
    /\ UNCHANGED <<asking, run, rows, answers, holder, messages, page, spent, billed, lost, counts>>

\* write: one row, and everything else the session holds, in one commit; the
\* walk goes on to the next part.
Write(w, outcome, cost, failures) ==
    LET k == worker[w].part IN
    /\ rows' = [rows EXCEPT ![worker[w].run] = Append(@, [part |-> k, outcome |-> outcome])]
    /\ Saved(w, cost)
    /\ Become(w, [worker[w] EXCEPT !.unsaved = 0, !.failures = failures, !.part = k + 1,
                     !.step = IF k = Items THEN "ending"
                              ELSE IF k + 1 \in Sources THEN "source" ELSE "walking"])
    /\ UNCHANGED <<asking, holder, messages, page, lost, counts>>

\* A part that is not put to a judge.
WriteUnjudged(w) ==
    /\ At(w, "walking") /\ worker[w].part \notin Judged
    /\ Write(w, "unjudged", 0, worker[w].failures)
    /\ UNCHANGED <<answers, billed>>

\* _spend_limit_reached: this run's spend, and the sum over the scope's runs.
\* The query flushes what this session has not committed, and sees it.
\* The defect sums over this run alone.
OwnLimitReached(w) == \/ Mine(w).spend + worker[w].unsaved >= RunLimit
                      \/ Mine(w).spend + worker[w].unsaved >= DayLimit
LimitReached(w) == \/ Mine(w).spend + worker[w].unsaved >= RunLimit
                   \/ spent + worker[w].unsaved >= DayLimit

StopAtLimit(w) ==
    /\ At(w, "walking") /\ worker[w].part \in Judged /\ LimitReached(w)
    /\ Finish(w, "completed")

WithinLimit(w) == ~LimitReached(w)

SkipJudge(w) ==
    /\ At(w, "walking") /\ worker[w].part \in Judged /\ WithinLimit(w)
    /\ worker[w].failures >= MaxFailures
    /\ Write(w, "skipped", 0, worker[w].failures)
    /\ UNCHANGED <<answers, billed>>

\* judge_candidate: look-ups first; the judge is then asked for what is missing.
AskJudge(w) ==
    /\ At(w, "walking") /\ worker[w].part \in Judged /\ WithinLimit(w)
    /\ worker[w].failures < MaxFailures
    /\ IF worker[w].part \in answers[Mine(w).report]
       THEN /\ Write(w, "judged", 0, 0) /\ UNCHANGED <<answers, billed>>
       ELSE /\ Go(w, "asked")
            /\ UNCHANGED <<asking, run, rows, answers, holder, messages, page, spent,
                           billed, lost, counts>>

\* The result, with its cost and the answers that are valid. Another run may
\* have stored the same answers meanwhile: the first are kept.
JudgeAnswers(w) == \E c \in Costs :
    /\ At(w, "asked") /\ billed' = billed + c
    /\ \/ /\ Write(w, "judged", c, 0)
          /\ answers' = [answers EXCEPT ![Mine(w).report] = @ \cup {worker[w].part}]
       \/ /\ Write(w, "failed", c, worker[w].failures + 1)
          /\ UNCHANGED answers

FinishRun(w) == At(w, "ending") /\ Finish(w, "completed")

-----------------------------------------------------------------------------
(* What can go wrong in a worker *)

\* The call under way is billed, and nothing of it is recorded.
Unrecorded(w) ==
    IF At(w, "asked") THEN /\ \E c \in Costs : billed' = billed + c
                           /\ lost' = lost + 1
                      ELSE UNCHANGED <<billed, lost>>
Released(w) == holder' = [i \in Runs |-> IF holder[i] = w THEN None ELSE holder[i]]

\* The defect: only a run that was never claimed is marked.
NeverClaimed == {"queued"}
ToBeMarked   == Active

\* An exception in execute_run: the task rolls back and reads the run again,
\* to mark it failed if it is active. It is not retried.
Raise(w) ==
    /\ worker[w].step \notin {"idle", "raised", "marking"} /\ Fault
    /\ Unrecorded(w) /\ Released(w)
    /\ Become(w, [Idle EXCEPT !.step = "raised", !.run = worker[w].run])
    /\ UNCHANGED <<asking, run, rows, answers, messages, page, spent, killed>>

ReadRaised(w) ==
    /\ At(w, "raised")
    /\ IF Mine(w).status \in ToBeMarked THEN Go(w, "marking") ELSE Become(w, Idle)
    /\ UNCHANGED <<asking, run, rows, answers, holder, messages, page, spent, billed, lost, counts>>

MarkFailed(w) ==
    /\ At(w, "marking") /\ holder[worker[w].run] = None
    /\ run' = [run EXCEPT ![worker[w].run].status = "failed"]
    /\ Become(w, Idle)
    /\ UNCHANGED <<asking, rows, answers, holder, messages, page, spent, billed, lost, counts>>

\* The process dies: the database rolls back, the broker delivers again.
Die(w) ==
    /\ ~At(w, "idle") /\ Fault /\ killed' = TRUE
    /\ Unrecorded(w) /\ Released(w)
    /\ messages' = messages \cup {worker[w].run}
    /\ Become(w, Idle)
    /\ UNCHANGED <<asking, run, rows, answers, page, spent>>

-----------------------------------------------------------------------------
(* The results endpoint, and the page that polls it *)

\* latest_run, whose status the answer will carry.
PollRun(p) == LET i == Latest(page[p].report) IN
    /\ page[p].step = "polling"
    /\ page' = [page EXCEPT ![p].step = "reading", ![p].run = i,
                            ![p].ended = (i # None /\ run[i].status \in Ended)]
    /\ UNCHANGED <<asking, run, working, messages, spent, counts>>

\* results_after: the rows after the page's cursor. The page is finished when
\* an ended run has none.
Fresh(p) == IF page[p].run = None THEN {}
            ELSE {n \in DOMAIN rows[page[p].run] :
                     n > page[p].after /\ n <= page[p].after + PageSize}

\* The page stops at the first empty answer; the defect, at any answer.
AnyAnswer(fresh)  == TRUE
LastAnswer(fresh) == fresh = {}

PollRows(p) ==
    LET fresh == Fresh(p) IN
    /\ page[p].step = "reading"
    /\ page' = [page EXCEPT
          ![p].shown = [k \in Parts |->
              IF \E n \in fresh : rows[page[p].run][n].part = k
              THEN rows[page[p].run][CHOOSE n \in fresh : rows[page[p].run][n].part = k].outcome
              ELSE page[p].shown[k]],
          ![p].after = @ + Cardinality(fresh),
          ![p].step = IF page[p].ended /\ LastAnswer(fresh) THEN "finished" ELSE "polling",
          ![p].run = None, ![p].ended = FALSE]
    /\ UNCHANGED <<asking, run, working, messages, spent, counts>>

-----------------------------------------------------------------------------
Asks(a) == ReuseRun(a) \/ NoRunToReuse(a) \/ CreateRun(a) \/ SendRun(a) \/ RequestFails(a)

Executes(w) ==
    \/ LockRun(w) \/ NotQueued(w) \/ ClaimRun(w) \/ PanelUnavailable(w)
    \/ OwnWork(w) \/ WriteUnjudged(w) \/ StopAtLimit(w) \/ SkipJudge(w)
    \/ AskJudge(w) \/ JudgeAnswers(w) \/ FinishRun(w) \/ ReadRaised(w) \/ MarkFailed(w)

Next ==
    \/ \E r \in Reports : PaperChecked(r) \/ ScanReport(r)
    \/ \E p \in Pages, r \in Reports : OpenPage(p, r)
    \/ \E p \in Pages : RetryPage(p) \/ PollRun(p) \/ PollRows(p)
    \/ \E a \in Askers : Asks(a)
    \/ \E w \in Workers : TakeMessage(w) \/ Executes(w) \/ Raise(w) \/ Die(w)
    \/ DeliverAgain

Spec == Init /\ [][Next]_vars

\* The queue's workers go on, the broker delivers, and a request that has
\* begun goes on; a run that is locked is free again in the end.
FairSpec == /\ Spec
            /\ \A w \in Workers : WF_vars(TakeMessage(w)) /\ WF_vars(Executes(w))
            /\ \A a \in Askers : WF_vars(Asks(a))

-----------------------------------------------------------------------------
(* Properties *)

\* execute_run is safe to call twice: however often a run's message is
\* delivered, one worker at a time walks the run, so that its rows are in
\* paper order and each part has at most one (judgment_runs.py:314, :351).
Walking(w) == worker[w].step \in {"locked", "started", "source", "walking", "asked", "ending"}
WalkedByOne ==
    /\ \A v, w \in Workers : v # w /\ Walking(v) /\ Walking(w) => worker[v].run # worker[w].run
    /\ \A i \in Runs : \A n \in DOMAIN rows[i] : rows[i][n].part = n

\* The day's limit is read before a call and written after it, by all workers
\* of the scope at once, and a call that fails is never recorded. Judges are
\* still never paid more than the limit, one call for each worker, and one for
\* each call that was lost (judgment_runs.py:220, :401, :468).
BilledWithinDay ==
    billed <= (DayLimit - 1) + MaxCost * (Cardinality(Workers) + lost)

\* A page that stops polling shows every result of the run it read, if no run
\* was created since the page began and the run was not marked failed while it
\* was walked (judgment_results.py, report_judgment.js:327).
Complete(p) == LET i == page[p].run IN
    i # None => \A k \in Parts : page'[p].shown[k] =
        IF k \in DOMAIN rows[i] THEN rows[i][k].outcome ELSE None
Undisturbed(p) == LET i == page[p].run IN
    created <= page[p].since /\ (i # None => run[i].status # "failed")
FinishedPageIsComplete ==
    [][\A p \in Pages : /\ page[p].step = "reading" /\ page'[p].step = "finished"
                        /\ Undisturbed(p)
                        => /\ Complete(p)
                           /\ \A w \in Workers : Walking(w) => worker[w].run # page[p].run]_vars

\* While no worker dies, every run whose message is sent ends, also when its
\* task raises (tasks/judgment.py:20).
RunsEndUnlessKilled ==
    [](~killed) => \A i \in Runs : i \in messages ~> run[i].status \in Ended
=============================================================================
