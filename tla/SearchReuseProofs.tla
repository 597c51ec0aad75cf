------------------------- MODULE SearchReuseProofs --------------------------
(***************************************************************************)
(* Proofs about SearchReuse, for any numbers of checks, days, refreshes    *)
(* and faults, and any periods of reuse.                                   *)
(***************************************************************************)
EXTENDS SearchReuse, TLAPS

\* What is true of a check's record r, where lib says whether the library has
\* the source: a result is there when it is needed, only a public copy is
\* downloaded, a check that is assured of the copy has not missed it, and what
\* waits for the memo is dated by its search.
JobOK(r, lib) ==
    /\ r \in Job
    /\ r.refresh => r.before # None
    /\ r.step \in {"answered", "recorded", "done"} => r.result # None
    /\ r.step = "searching" /\ r.prior # None => r.prior.kind = "public"
    /\ r.assured => lib /\ r.step \in {"searching", "answered", "recorded"}
    /\ r.assured /\ r.step \in {"answered", "recorded"} => r.result.kind \notin NotFound
    /\ r.assured /\ r.write # None => r.result.kind = "stored"
    /\ r.write # None => r.step = "answered"
    /\ r.write # None /\ r.write.do = "put" => r.result.day = r.write.made

\* A memo is as old as the search it tells of.
MemoOK == memo \in Memo \cup {None} /\ (memo # None => memo.result.day = memo.made)

ReuseInv ==
    /\ day \in Days
    /\ library \in BOOLEAN
    /\ MemoOK
    /\ job \in [Jobs -> Job] /\ \A j \in Jobs : JobOK(job[j], library)
    /\ refreshes \in 0 .. MaxRefreshes /\ faults \in 0 .. MaxFaults

\* The library never loses its copy except by CopyGoes, so a step of one check
\* keeps what is true of the others.
LEMMA OneMoves ==
    ASSUME job \in [Jobs -> Job], \A i \in Jobs : JobOK(job[i], library),
           NEW j \in Jobs, NEW r, job' = [job EXCEPT ![j] = r],
           library => library', JobOK(r, library')
    PROVE  job' \in [Jobs -> Job] /\ \A i \in Jobs : JobOK(job'[i], library')
  BY DEF JobOK

\* The end of a reference's thread: the result and what it means for the memo.
LEMMA AnswerOK ==
    ASSUME ReuseInv, NEW j \in Jobs, NEW result \in Result, NEW write \in Write \cup {None},
           Answer(j, result, write),
           job[j].assured => result.kind \notin NotFound,
           job[j].assured /\ write # None => result.kind = "stored",
           write # None /\ write.do = "put" => result.day = write.made
    PROVE  ReuseInv'
  <1>. DEFINE r == [job[j] EXCEPT !.step = "answered", !.result = result, !.write = write]
  <1>1. job' = [job EXCEPT ![j] = r] /\ library' \in BOOLEAN /\ (library => library')
    BY DEF Answer, ReuseInv
  <1>2. JobOK(r, library')
    BY <1>1, NoneAssumption DEF ReuseInv, JobOK, Job, Steps
  <1>. QED  BY <1>1, <1>2, OneMoves DEF Answer, ReuseInv, MemoOK, counts

LEMMA WriteForType ==
    ASSUME day \in Days, NEW kind, NEW replayed \in BOOLEAN
    PROVE  /\ WriteFor(kind, replayed) \in Write \cup {None}
           /\ WriteFor(kind, replayed) # None => WriteFor(kind, replayed).made = day
           /\ WriteFor(kind, TRUE) # None => WriteFor(kind, TRUE).do = "delete"
  BY NoneAssumption DEF WriteFor, Today, Write

LEMMA OwnType ==
    ASSUME day \in Days, NEW kind \in Found \cup NotFound \cup {"incomplete"}
    PROVE  Own(kind) \in Result /\ Own(kind).day = day /\ Own(kind).kind = kind
  BY DEF Own, Result

\* A check that searched found the source, or was never assured of it.
LEMMA SearchOK ==
    ASSUME ReuseInv, NEW j \in Jobs, NEW kind \in Found \cup NotFound \cup {"incomplete"},
           Search(j, kind), job[j].assured => kind = "stored"
    PROVE  ReuseInv'
  BY AnswerOK, OwnType, WriteForType DEF Search, ReuseInv, NotFound

LEMMA InitReuse == Init => ReuseInv
  <1>1. 0 \in Days /\ 0 \in 0 .. MaxRefreshes /\ 0 \in 0 .. MaxFaults
    BY BoundAssumption DEF Days
  <1>2. NoJob \in Job /\ JobOK(NoJob, FALSE)
    BY <1>1, NoneAssumption DEF JobOK, NoJob, Job, Steps
  <1>3. ASSUME Init PROVE job \in [Jobs -> Job] /\ \A j \in Jobs : JobOK(job[j], library)
    BY <1>2, <1>3 DEF Init
  <1>. QED  BY <1>1, <1>3 DEF Init, ReuseInv, MemoOK

-----------------------------------------------------------------------------
(* One check *)

LEMMA SubmitOK == ASSUME ReuseInv, NEW j \in Jobs, Submit(j) PROVE ReuseInv'
  <1>. DEFINE r == [job[j] EXCEPT !.step = "queued", !.created = day]
  <1>1. job' = [job EXCEPT ![j] = r]  BY DEF Submit, ReuseInv
  <1>2. JobOK(r, library')  BY DEF Submit, At, ReuseInv, JobOK, Job, Steps
  <1>. QED  BY <1>1, <1>2, OneMoves DEF Submit, ReuseInv, MemoOK, counts

LEMMA IndexOK == ASSUME ReuseInv, NEW j \in Jobs, Index(j) PROVE ReuseInv'
  <1>0. \A i \in Earlier(j) : job[i].result \in Result \cup {None}
    BY DEF Earlier, ReuseInv, Job
  <1>1. PICK prior \in Result \cup {None} :
             /\ job' = [job EXCEPT ![j].step = "indexed", ![j].prior = prior]
             /\ UNCHANGED <<day, library, memo, counts>>
    <2>1. PICK prior \in {None} \cup {job[i].result : i \in
              {i \in Earlier(j) : ~job[j].refresh /\ \A k \in Earlier(j) : k <= i}} :
              job' = [job EXCEPT ![j].step = "indexed", ![j].prior = prior]
      BY DEF Index
    <2>2. prior \in Result \cup {None}  BY <1>0
    <2>. QED  BY <2>1, <2>2 DEF Index
  <1>. DEFINE r == [job[j] EXCEPT !.step = "indexed", !.prior = prior]
  <1>2. job' = [job EXCEPT ![j] = r]  BY <1>1 DEF ReuseInv
  <1>3. JobOK(r, library')
    <2>1. JobOK(job[j], library) /\ job[j].step = "queued"  BY DEF Index, At, ReuseInv
    <2>2. r \in Job  BY <2>1, <1>1 DEF JobOK, Job, Steps
    <2>3. /\ r.step = "indexed" /\ r.assured = job[j].assured /\ r.write = job[j].write
          /\ r.refresh = job[j].refresh /\ r.before = job[j].before
      BY <2>1 DEF JobOK, Job
    <2>. QED  BY <2>1, <2>2, <2>3, <1>1 DEF JobOK
  <1>. QED  BY <1>1, <1>2, <1>3, OneMoves DEF ReuseInv, MemoOK, counts

LEMMA PlanOK == ASSUME ReuseInv, NEW j \in Jobs, Plan(j) PROVE ReuseInv'
  <1>. DEFINE p == job[j].prior
              q == [job[j] EXCEPT !.assured = library, !.step = "searching"]
              a == [job[j] EXCEPT !.assured = library, !.step = "recorded", !.result = p]
              n == [job[j] EXCEPT !.assured = library, !.step = "searching", !.prior = None]
  <1>. UNCHANGED <<day, library, memo, counts>> /\ job[j].step = "indexed"  BY DEF Plan, At
  <1>. JobOK(job[j], library) /\ job \in [Jobs -> Job]  BY DEF ReuseInv
  <1>1. CASE p # None /\ Stands(p) /\ p.kind = "public"
    <2>1. job' = [job EXCEPT ![j] = q]  BY <1>1 DEF Plan
    <2>2. JobOK(q, library')  BY <1>1 DEF ReuseInv, JobOK, Job, Steps
    <2>. QED  BY <2>1, <2>2, OneMoves DEF ReuseInv, MemoOK, counts
  <1>2. CASE p # None /\ Stands(p) /\ p.kind # "public"
    <2>1. job' = [job EXCEPT ![j] = a]  BY <1>2 DEF Plan
    <2>2. JobOK(a, library')  BY <1>2 DEF ReuseInv, JobOK, Job, Steps, Stands
    <2>. QED  BY <2>1, <2>2, OneMoves DEF ReuseInv, MemoOK, counts
  <1>3. CASE ~(p # None /\ Stands(p))
    <2>1. job' = [job EXCEPT ![j] = n]  BY <1>3 DEF Plan
    <2>2. JobOK(n, library')  BY DEF ReuseInv, JobOK, Job, Steps
    <2>. QED  BY <2>1, <2>2, OneMoves DEF ReuseInv, MemoOK, counts
  <1>. QED  BY <1>1, <1>2, <1>3

LEMMA DownloadOK == ASSUME ReuseInv, NEW j \in Jobs, Download(j) PROVE ReuseInv'
  <1>. JobOK(job[j], library) /\ job \in [Jobs -> Job]  BY DEF ReuseInv
  <1>1. CASE \E kind \in {"public", "stored"} : Answer(j, [job[j].prior EXCEPT !.kind = kind], None)
    <2>1. PICK kind \in {"public", "stored"} : Answer(j, [job[j].prior EXCEPT !.kind = kind], None)
      BY <1>1
    <2>2. [job[j].prior EXCEPT !.kind = kind] \in Result
          /\ [job[j].prior EXCEPT !.kind = kind].kind = kind
      BY DEF Download, JobOK, Job, Result, Found
    <2>. QED  BY <2>1, <2>2, AnswerOK DEF NotFound
  <1>2. CASE job' = [job EXCEPT ![j].prior = None] /\ UNCHANGED <<day, library, memo, counts>>
    <2>. DEFINE r == [job[j] EXCEPT !.prior = None]
    <2>1. job' = [job EXCEPT ![j] = r]  BY <1>2
    <2>2. JobOK(r, library')  BY <1>2 DEF JobOK, Job
    <2>. QED  BY <1>2, <2>1, <2>2, OneMoves DEF ReuseInv, MemoOK, counts
  <1>. QED  BY <1>1, <1>2 DEF Download

LEMMA LocateOK == ASSUME ReuseInv, NEW j \in Jobs, Locate(j) PROVE ReuseInv'
  <1>1. PICK kind \in Found : Search(j, kind) /\ (library => kind = "stored")
    BY DEF Locate, Found
  <1>. QED  BY <1>1, SearchOK DEF ReuseInv, JobOK

LEMMA MissOK == ASSUME ReuseInv, NEW j \in Jobs, Miss(j) PROVE ReuseInv'
  <1>. DEFINE r == [job[j] EXCEPT !.step = "unlocated"]
  <1>1. job' = [job EXCEPT ![j] = r]  BY DEF Miss, ReuseInv
  <1>2. JobOK(r, library')  BY DEF Miss, At, ReuseInv, JobOK, Job, Steps
  <1>. QED  BY <1>1, <1>2, OneMoves DEF Miss, ReuseInv, MemoOK, counts

LEMMA ReplayOK == ASSUME ReuseInv, NEW j \in Jobs, Replay(j) PROVE ReuseInv'
  <1>. memo \in Memo /\ ~job[j].assured
    BY DEF Replay, Usable, At, ReuseInv, MemoOK, JobOK
  <1>1. CASE \E kind \in NotFound \cup {"incomplete"} :
               Answer(j, [memo.result EXCEPT !.kind = kind], WriteFor(kind, TRUE))
    <2>1. PICK kind \in NotFound \cup {"incomplete"} :
               Answer(j, [memo.result EXCEPT !.kind = kind], WriteFor(kind, TRUE))
      BY <1>1
    <2>2. [memo.result EXCEPT !.kind = kind] \in Result  BY DEF Memo, Result
    <2>. QED  BY <2>1, <2>2, AnswerOK, WriteForType DEF ReuseInv
  <1>2. CASE \E kind \in Found : Answer(j, Own(kind), WriteFor(kind, TRUE))
    BY <1>2, AnswerOK, OwnType, WriteForType DEF ReuseInv
  <1>. QED  BY <1>1, <1>2 DEF Replay

LEMMA PayOK == ASSUME ReuseInv, NEW j \in Jobs, Pay(j) PROVE ReuseInv'
  <1>. DEFINE r == [job[j] EXCEPT !.step = "paying"]
  <1>1. job' = [job EXCEPT ![j] = r]  BY DEF Pay, ReuseInv
  <1>2. JobOK(r, library')  BY DEF Pay, At, ReuseInv, JobOK, Job, Steps
  <1>. QED  BY <1>1, <1>2, OneMoves DEF Pay, ReuseInv, MemoOK, counts

LEMMA PaidOK == ASSUME ReuseInv, NEW j \in Jobs, Paid(j) PROVE ReuseInv'
  BY SearchOK DEF Paid, At, ReuseInv, JobOK

\* The memo takes a result with the date of its search, or goes, or stays.
LEMMA RecordOK == ASSUME ReuseInv, NEW j \in Jobs, Record(j) PROVE ReuseInv'
  <1>. JobOK(job[j], library) /\ job \in [Jobs -> Job] /\ job[j].step = "answered"
       /\ UNCHANGED <<day, library, counts>>
    BY DEF ReuseInv, Record, At
  <1>. DEFINE w == job[j].write
              q == job[j].result
  <1>1. PICK kind \in {q.kind, "incomplete", "possible"} :
             /\ kind \in {q.kind, "incomplete"} \/ (w # None /\ q.kind # "stored")
             /\ job' = [job EXCEPT ![j].step = "recorded", ![j].result.kind = kind,
                                   ![j].prior = None, ![j].write = None]
    BY DEF Record, Found
  <1>. DEFINE r == [job[j] EXCEPT !.step = "recorded", !.result = [q EXCEPT !.kind = kind],
                                  !.prior = None, !.write = None]
  <1>2. q \in Result /\ kind \in Found \cup NotFound \cup {"incomplete"}
    BY <1>1 DEF JobOK, Job, Result, NotFound
  <1>3. [q EXCEPT !.kind = kind] \in Result /\ [q EXCEPT !.kind = kind].kind = kind
    BY <1>2 DEF Result
  <1>4. job' = [job EXCEPT ![j] = r]  BY <1>1
  <1>5. JobOK(r, library')
    BY <1>1, <1>2, <1>3, NoneAssumption DEF JobOK, Job, Steps, NotFound
  <1>6. MemoOK'
    <2>1. CASE memo' = memo  BY <2>1 DEF ReuseInv, MemoOK
    <2>2. CASE memo' = None  BY <2>2 DEF MemoOK
    <2>3. CASE w # None /\ w.do = "put" /\ memo' = [made |-> w.made, result |-> q]
      BY <1>2, <2>3 DEF MemoOK, Memo, JobOK, Job, Write
    <2>. QED  BY <2>1, <2>2, <2>3 DEF Record
  <1>. QED  BY <1>4, <1>5, <1>6, OneMoves DEF ReuseInv, counts

LEMMA FinishOK == ASSUME ReuseInv, NEW j \in Jobs, Finish(j) PROVE ReuseInv'
  <1>. DEFINE r == [job[j] EXCEPT !.step = "done", !.refresh = FALSE, !.forced = FALSE,
                                  !.before = None, !.assured = FALSE]
  <1>1. job' = [job EXCEPT ![j] = r]  BY DEF Finish, ReuseInv
  <1>2. JobOK(r, library')  BY DEF Finish, At, ReuseInv, JobOK, Job, Steps
  <1>. QED  BY <1>1, <1>2, OneMoves DEF Finish, ReuseInv, MemoOK, counts

LEMMA FaultType == ASSUME ReuseInv, Fault PROVE UNCHANGED refreshes /\ faults' \in 0 .. MaxFaults
  BY BoundAssumption DEF ReuseInv, Fault

LEMMA CrashOK == ASSUME ReuseInv, NEW j \in Jobs, Crash(j) PROVE ReuseInv'
  <1>. DEFINE r == [job[j] EXCEPT !.step = "queued", !.prior = None, !.result = None,
                                  !.write = None, !.assured = FALSE]
  <1>1. job' = [job EXCEPT ![j] = r]  BY DEF Crash, ReuseInv
  <1>2. JobOK(r, library')  BY DEF Crash, ReuseInv, JobOK, Job, Steps
  <1>. QED  BY <1>1, <1>2, FaultType, OneMoves DEF Crash, ReuseInv, MemoOK

LEMMA FailOK == ASSUME ReuseInv, NEW j \in Jobs, Fail(j) PROVE ReuseInv'
  <1>. DEFINE r == [NoJob EXCEPT !.step = IF job[j].refresh THEN "done" ELSE "failed",
                                 !.created = job[j].created, !.result = job[j].before]
  <1>1. job' = [job EXCEPT ![j] = r]  BY DEF Fail, ReuseInv
  <1>2. JobOK(r, library')  BY NoneAssumption DEF ReuseInv, JobOK, Job, Steps, NoJob
  <1>. QED  BY <1>1, <1>2, FaultType, OneMoves DEF Fail, ReuseInv, MemoOK

-----------------------------------------------------------------------------
(* Refreshes, uploads and the rest *)

LEMMA RefreshOK ==
    ASSUME ReuseInv, NEW j \in Jobs, NEW forced \in BOOLEAN, Refresh(j, forced) PROVE ReuseInv'
  <1>. DEFINE r == [job[j] EXCEPT !.step = "queued", !.refresh = TRUE, !.forced = forced,
                                  !.before = job[j].result, !.result = None, !.assured = FALSE]
  <1>1. job' = [job EXCEPT ![j] = r]  BY DEF Refresh, ReuseInv
  <1>2. JobOK(r, library')  BY DEF Refresh, At, ReuseInv, JobOK, Job, Steps
  <1>3. refreshes' \in 0 .. MaxRefreshes  BY BoundAssumption DEF Refresh, ReuseInv
  <1>. QED  BY <1>1, <1>2, <1>3, OneMoves DEF Refresh, ReuseInv, MemoOK

LEMMA UseUploadOK == ASSUME ReuseInv, NEW j \in Jobs, UseUpload(j) PROVE ReuseInv'
  <1>. JobOK(job[j], library) /\ job \in [Jobs -> Job] /\ job[j].step = "done"
    BY DEF ReuseInv, UseUpload, At
  <1>. DEFINE q == [job[j].result EXCEPT !.kind = "stored"]
              r == [job[j] EXCEPT !.step = "recorded", !.refresh = TRUE,
                                  !.before = job[j].result, !.result = q]
  <1>1. job' = [job EXCEPT ![j] = r]  BY DEF UseUpload
  <1>2. q \in Result  BY DEF JobOK, Job, Result, Found
  <1>3. JobOK(r, library')  BY <1>2, NoneAssumption DEF UseUpload, JobOK, Job, Steps
  <1>4. MemoOK'  BY DEF UseUpload, ReuseInv, MemoOK
  <1>. QED  BY <1>1, <1>3, <1>4, OneMoves DEF UseUpload, ReuseInv, counts

LEMMA CopyGoesOK == ASSUME ReuseInv, CopyGoes PROVE ReuseInv'
  <1>1. ASSUME NEW j \in Jobs
        PROVE  job'[j] = [job[j] EXCEPT !.assured = FALSE] /\ JobOK(job'[j], library')
    BY <1>1 DEF CopyGoes, ReuseInv, JobOK, Job
  <1>2. job' \in [Jobs -> Job]  BY <1>1 DEF CopyGoes, JobOK
  <1>. QED  BY <1>1, <1>2, FaultType DEF CopyGoes, ReuseInv, MemoOK

LEMMA AdmitUploadOK == ASSUME ReuseInv, AdmitUpload PROVE ReuseInv'
  <1>1. \A j \in Jobs : JobOK(job[j], library')  BY DEF AdmitUpload, ReuseInv, JobOK
  <1>. QED  BY <1>1 DEF AdmitUpload, ReuseInv, MemoOK, counts

LEMMA TickOK == ASSUME ReuseInv, Tick PROVE ReuseInv'
  BY BoundAssumption DEF Tick, ReuseInv, MemoOK, Days, counts

LEMMA StepReuse == ReuseInv /\ [Next]_vars => ReuseInv'
  <1>. SUFFICES ASSUME ReuseInv, [Next]_vars PROVE ReuseInv'
    OBVIOUS
  <1>1. CASE UNCHANGED vars  BY <1>1 DEF vars, ReuseInv, MemoOK, counts
  <1>2. CASE Tick  BY <1>2, TickOK
  <1>3. CASE AdmitUpload  BY <1>3, AdmitUploadOK
  <1>4. CASE CopyGoes  BY <1>4, CopyGoesOK
  <1>5. ASSUME NEW j \in Jobs, Check(j) PROVE ReuseInv'
    BY <1>5, SubmitOK, IndexOK, PlanOK, DownloadOK, LocateOK, MissOK, ReplayOK, PayOK, PaidOK,
       RecordOK, FinishOK, CrashOK, FailOK DEF Check
  <1>6. ASSUME NEW j \in Jobs, UseUpload(j) PROVE ReuseInv'  BY <1>6, UseUploadOK
  <1>7. ASSUME NEW j \in Jobs, NEW forced \in BOOLEAN, Refresh(j, forced) PROVE ReuseInv'
    BY <1>7, RefreshOK
  <1>. QED  BY <1>1, <1>2, <1>3, <1>4, <1>5, <1>6, <1>7 DEF Next

\* Results, memos and what threads still hold agree in every reachable state.
THEOREM ReuseInvariant == Spec => []ReuseInv
  BY InitReuse, StepReuse, PTL DEF Spec

\* A check that was planned when the library had the source never reports that
\* none was found (stored_copy_available, paper_workflow.py:671).
THEOREM StoredCopyIsUsed == Spec => []CopyIsUsed
  <1>1. ReuseInv => CopyIsUsed  BY DEF ReuseInv, JobOK, CopyIsUsed
  <1>. QED  BY <1>1, ReuseInvariant, PTL

-----------------------------------------------------------------------------
(* The pause *)

\* Of all steps only Replay takes a check from "unlocated" to a result that
\* says that nothing was found.
LEMMA ReplayInPause ==
    ASSUME ReuseInv, [Next]_vars, NEW j \in Jobs, job[j].step = "unlocated",
           job'[j].step = "answered", job'[j].result.kind \in NotFound
    PROVE  day - job'[j].result.day < Pause
  <1>. job \in [Jobs -> Job] /\ job[j] \in Job  BY DEF ReuseInv
  <1>1. Replay(j)
    <2>1. CASE UNCHANGED vars  BY <2>1 DEF vars
    <2>2. CASE Tick \/ AdmitUpload  BY <2>2 DEF Tick, AdmitUpload
    <2>3. CASE CopyGoes
      <3>1. job'[j].step = job[j].step  BY <2>3 DEF CopyGoes, Job
      <3>. QED  BY <3>1
    <2>4. ASSUME NEW i \in Jobs, Check(i) PROVE Replay(j)
      <3>1. i = j
        BY <2>4 DEF Check, Submit, Index, Plan, Download, Locate, Search, Miss, Replay, Pay, Paid,
                    Answer, Record, Finish, Crash, Fail
      <3>2. Replay(j) \/ Pay(j) \/ Crash(j) \/ Fail(j)
        BY <2>4, <3>1 DEF Check, At, Submit, Index, Plan, Download, Locate, Miss, Paid,
                    Record, Finish
      <3>3. ~Pay(j) /\ ~Crash(j)  BY DEF Pay, Crash, Job
      <3>4. ~Fail(j)  BY DEF Fail, NoJob
      <3>. QED  BY <3>2, <3>3, <3>4
    <2>5. ASSUME NEW i \in Jobs, NEW forced \in BOOLEAN, UseUpload(i) \/ Refresh(i, forced)
          PROVE  FALSE
      BY <2>5 DEF UseUpload, Refresh, At
    <2>. QED  BY <2>1, <2>2, <2>3, <2>4, <2>5 DEF Next
  <1>2. memo \in Memo /\ memo.result.day = memo.made /\ memo.made + Pause > day
    BY <1>1 DEF Replay, Usable, ReuseInv, MemoOK
  <1>3. PICK kind \in NotFound \cup {"incomplete"} :
            job'[j].result = [memo.result EXCEPT !.kind = kind]
    <2>1. ASSUME NEW kind, NEW write, Answer(j, Own(kind), write) PROVE kind \in NotFound
      BY <2>1 DEF Answer, Own, Job
    <2>2. ASSUME NEW kind, NEW write, Answer(j, [memo.result EXCEPT !.kind = kind], write)
          PROVE  job'[j].result = [memo.result EXCEPT !.kind = kind]
      BY <2>2 DEF Answer, Job
    <2>3. Found \cap NotFound = {}  BY DEF Found, NotFound
    <2>. QED  BY <1>1, <2>1, <2>2, <2>3 DEF Replay
  <1>4. job'[j].result.day = memo.made  BY <1>2, <1>3 DEF Memo, Result
  <1>. QED  BY <1>2, <1>4, BoundAssumption DEF Memo, Days, ReuseInv

\* A check that skips the paid search repeats one made within the pause, for any
\* number of checks (search_memo.py:311, source_resolver.py:2639).
THEOREM ReplaysAreRecent == Spec => ReplayedWithinPause
  <1>1. ReuseInv /\ [Next]_vars =>
            [\A j \in Jobs : /\ job[j].step = "unlocated" /\ job'[j].step = "answered"
                             /\ job'[j].result.kind \in NotFound
                             => day - job'[j].result.day < Pause]_vars
    BY ReplayInPause
  <1>. QED  BY <1>1, ReuseInvariant, PTL DEF Spec, ReplayedWithinPause
=============================================================================
