-------------------------- MODULE JudgmentRunsProofs --------------------------
(* Proofs about JudgmentRuns, for every value of its constants. *)
EXTENDS JudgmentRuns, FiniteSetTheorems, WellFoundedInduction, TLAPS

-----------------------------------------------------------------------------
(* The inductive invariant *)

OnItsWay == {"started", "source", "walking", "asked", "ending"}
AtAPart  == {"started", "source", "walking", "asked"}

\* A row of a run that is not claimed yet is nobody's, and rows are in order.
RunOK(i) ==
    /\ i <= created => run[i].report \in Reports /\ run[i].status # "none"
    /\ i > created => run[i].status = "none"
    /\ run[i].status \in {"none", "queued"} => rows[i] = <<>>
    /\ \A n \in DOMAIN rows[i] : rows[i][n].part = n
    /\ holder[i] # None => worker[holder[i]].step = "locked" /\ worker[holder[i]].run = i

\* A worker on its way through a run has written all parts before its own.
Standing(w) ==
    /\ worker[w].step # "idle" => worker[w].run \in 1 .. created
    /\ worker[w].step \in {"taken", "locked", "started"} => worker[w].part = 1
    /\ worker[w].step = "locked" => /\ holder[worker[w].run] = w
                                    /\ run[worker[w].run].status = "queued"
    /\ worker[w].step \in OnItsWay =>
          /\ run[worker[w].run].status \in {"running", "failed"}
          /\ Len(rows[worker[w].run]) = worker[w].part - 1
    /\ worker[w].step \in AtAPart => worker[w].part \in Parts

Alone == \A v, w \in Workers :
    v # w /\ Walking(v) /\ Walking(w) => worker[v].run # worker[w].run

Addressed ==
    /\ messages \subseteq 1 .. created
    /\ \A a \in Askers :
          /\ request[a].step # "none" => request[a].report \in Reports
          /\ request[a].step = "sending" => request[a].run \in 1 .. created
    /\ \A p \in Pages :
          /\ page[p].step # "closed" => page[p].report \in Reports
          /\ request[p].step # "none" => page[p].step = "asking"

JudgmentInv ==
    /\ TypeOK
    /\ \A i \in Runs : RunOK(i)
    /\ \A w \in Workers : Standing(w)
    /\ Alone
    /\ Addressed

-----------------------------------------------------------------------------
LEMMA Numbers ==
    /\ Runs \subseteq Nat /\ None \notin Runs /\ None \notin Parts
    /\ Parts \subseteq Nat /\ 1 \in Parts /\ 1 \in Nat
BY PartsAssumption, BoundAssumption, AskerAssumption DEF Runs, Parts

LEMMA RecordTypes ==
    /\ NoRun \in Run /\ Idle \in Worker /\ NoRequest \in Request /\ Closed \in Page
<1>1. NoRun \in Run
    BY DEF NoRun, Run, Active, Ended
<1>2. Idle \in Worker
    BY DEF Idle, Worker
<1>3. NoRequest \in Request
    BY DEF NoRequest, Request
<1>4. Nothing \in [Parts -> Outcomes \cup {None}]
    BY DEF Nothing
<1>5. Closed \in Page
    BY <1>4 DEF Closed, Page
<1> QED  BY <1>1, <1>2, <1>3, <1>5

LEMMA InitJudgment == Init => JudgmentInv
<1> SUFFICES ASSUME Init PROVE JudgmentInv
    OBVIOUS
<1> USE RecordTypes, Numbers
<1>1. TypeOK
    <2>1. rows \in [Runs -> Seq(Row)] /\ holder \in [Runs -> Workers \cup {None}]
        BY DEF Init
    <2>2. 0 \in 0 .. MaxRuns /\ 0 \in 0 .. MaxFaults
        BY BoundAssumption
    <2> QED  BY <2>1, <2>2 DEF Init, TypeOK
<1>2. \A i \in Runs : RunOK(i)
    <2> SUFFICES ASSUME NEW i \in Runs PROVE RunOK(i)
        OBVIOUS
    <2>1. run[i] = NoRun /\ rows[i] = <<>> /\ holder[i] = None /\ ~(i <= created) /\ i > created
        BY DEF Init, Runs
    <2> QED  BY <2>1 DEF RunOK, NoRun
<1>3. \A w \in Workers : Standing(w)
    BY DEF Init, Standing, Idle, OnItsWay, AtAPart
<1>4. Alone
    BY DEF Init, Alone, Idle, Walking
<1>5. Addressed
    BY DEF Init, Addressed, NoRequest, Closed, Askers
<1> QED  BY <1>1, <1>2, <1>3, <1>4, <1>5 DEF JudgmentInv

-----------------------------------------------------------------------------
(* A worker's step changes one worker and, if anything, that worker's run. *)

\* The others stand where they stood when nothing they rely on is written.
LEMMA OthersStand ==
    ASSUME JudgmentInv, NEW w \in Workers, NEW t \in Worker,
           worker' = [worker EXCEPT ![w] = t], created' = created,
           \A i \in Runs : /\ rows'[i] = rows[i] \/ (Walking(w) /\ worker[w].run = i)
                           /\ \/ run'[i].status = run[i].status
                              \/ Walking(w) /\ worker[w].run = i
                              \/ run'[i].status = "failed" /\ holder[i] = None
                           /\ holder'[i] = holder[i] \/ holder[i] \in {w, None}
    PROVE  \A v \in Workers : v # w => Standing(v)'
<1> SUFFICES ASSUME NEW v \in Workers, v # w PROVE Standing(v)'
    OBVIOUS
<1>1. worker'[v] = worker[v] /\ Standing(v)
    BY DEF JudgmentInv, TypeOK
<1>2. CASE ~Walking(v)
    BY <1>1, <1>2 DEF Standing, Walking, OnItsWay, AtAPart
<1>3. CASE Walking(v)
    <2>1. worker[v].run \in Runs
        BY <1>1, <1>3, BoundAssumption DEF Standing, Walking, Runs, JudgmentInv, TypeOK
    <2>2. ~(Walking(w) /\ worker[w].run = worker[v].run)
        BY <1>3 DEF JudgmentInv, Alone
    <2>3. rows'[worker[v].run] = rows[worker[v].run]
        BY <2>1, <2>2
    <2>4. worker[v].step = "locked" => /\ holder[worker[v].run] = v /\ v # None
                                       /\ holder'[worker[v].run] = v
                                       /\ run'[worker[v].run].status = run[worker[v].run].status
        BY <1>1, <2>1, <2>2, WorkerAssumption DEF Standing
    <2>5. worker[v].step \in OnItsWay => run'[worker[v].run].status \in {"running", "failed"}
        BY <1>1, <2>1, <2>2 DEF Standing
    <2> QED  BY <1>1, <2>3, <2>4, <2>5 DEF Standing, OnItsWay, AtAPart
<1> QED  BY <1>2, <1>3

LEMMA WorkerMoves ==
    ASSUME JudgmentInv, NEW w \in Workers, NEW t \in Worker,
           worker' = [worker EXCEPT ![w] = t],
           UNCHANGED <<asking, page>>, messages' \subseteq 1 .. created, TypeOK',
           \A i \in Runs : run'[i].report = run[i].report,
           \A v \in Workers : v # w => Standing(v)',
           Standing(w)',
           \A i \in Runs : RunOK(i)',
           Walking(w)' => \A v \in Workers : v # w /\ Walking(v) => worker[v].run # t.run
    PROVE  JudgmentInv'
<1>1. \A v \in Workers : worker'[v] = IF v = w THEN t ELSE worker[v]
    BY DEF JudgmentInv, TypeOK
<1>2. Alone'
    BY <1>1 DEF JudgmentInv, Alone, Walking
<1>3. Addressed'
    BY DEF JudgmentInv, Addressed, asking
<1> QED  BY <1>2, <1>3 DEF JudgmentInv

\* A worker that keeps its hands off the tables.
LEMMA OnlyTheWorker ==
    ASSUME JudgmentInv, NEW w \in Workers, NEW t \in Worker,
           worker' = [worker EXCEPT ![w] = t],
           UNCHANGED <<asking, run, rows, answers, holder, page, spent>>,
           messages' \subseteq 1 .. created,
           billed' \in Nat, lost' \in Nat, faults' \in 0 .. MaxFaults, killed' \in BOOLEAN,
           worker[w].step = "locked" => t = worker[w],
           Standing(w)',
           Walking(w)' => Walking(w) /\ t.run = worker[w].run
    PROVE  JudgmentInv'
<1>1. \A v \in Workers : v # w => Standing(v)'
    BY OthersStand DEF asking
<1>2. TypeOK'
    <2>1. messages' \in SUBSET Runs
        BY BoundAssumption DEF JudgmentInv, TypeOK, Runs
    <2> QED  BY <2>1 DEF JudgmentInv, TypeOK, asking
<1>3. \A i \in Runs : RunOK(i)'
    <2> SUFFICES ASSUME NEW i \in Runs PROVE RunOK(i)'
        OBVIOUS
    <2>1. RunOK(i)
        BY DEF JudgmentInv
    <2>2. holder[i] # None => worker'[holder[i]] = worker[holder[i]]
        BY <2>1 DEF RunOK, JudgmentInv, TypeOK
    <2> QED  BY <2>1, <2>2 DEF RunOK, asking
<1>4. Walking(w)' => \A v \in Workers : v # w /\ Walking(v) => worker[v].run # t.run
    BY DEF JudgmentInv, Alone
<1> QED  BY <1>1, <1>2, <1>3, <1>4, WorkerMoves

LEMMA Quiet ==
    ASSUME JudgmentInv, NEW w \in Workers
    PROVE  /\ worker[w] \in Worker /\ Standing(w)
           /\ messages \subseteq 1 .. created /\ 1 .. created \subseteq Runs
           /\ billed \in Nat /\ lost \in Nat /\ spent \in Nat
           /\ faults \in 0 .. MaxFaults /\ killed \in BOOLEAN
           /\ \A t : worker' = [worker EXCEPT ![w] = t] => worker'[w] = t
BY BoundAssumption DEF JudgmentInv, TypeOK, Addressed, Runs

LEMMA StepTakeMessage ==
    ASSUME JudgmentInv, NEW w \in Workers, TakeMessage(w) PROVE JudgmentInv'
<1>1. PICK i \in messages : /\ At(w, "idle") /\ messages' = messages \ {i}
                            /\ Become(w, [Idle EXCEPT !.step = "taken", !.run = i])
                            /\ UNCHANGED <<asking, run, rows, answers, holder, page, spent, billed, lost, counts>>
    BY DEF TakeMessage
<1> DEFINE t == [Idle EXCEPT !.step = "taken", !.run = i]
<1>2. t \in Worker /\ t.step = "taken" /\ t.run = i /\ t.part = 1
    BY Quiet DEF Idle, Worker
<1>3. worker'[w] = t
    BY <1>1, Quiet DEF Become
<1>4. Standing(w)' /\ ~Walking(w)'
    BY <1>1, <1>2, <1>3, Quiet DEF Standing, Walking, OnItsWay, AtAPart, asking
<1> QED  BY <1>1, <1>2, <1>4, Quiet, OnlyTheWorker DEF Become, counts, At

LEMMA StepToIdle ==
    ASSUME JudgmentInv, NEW w \in Workers, worker[w].step # "locked", Become(w, Idle),
           UNCHANGED <<asking, run, rows, answers, holder, messages, page, spent, billed, lost, counts>>
    PROVE  JudgmentInv'
<1>1. worker'[w] = Idle /\ Idle.step = "idle" /\ Idle \in Worker
    BY RecordTypes, Quiet DEF Idle, Become
<1>2. Standing(w)' /\ ~Walking(w)'
    BY <1>1 DEF Standing, Walking, OnItsWay, AtAPart
<1> QED  BY <1>1, <1>2, Quiet, OnlyTheWorker DEF Become, counts

LEMMA StepOwnWork ==
    ASSUME JudgmentInv, NEW w \in Workers, OwnWork(w) PROVE JudgmentInv'
<1>1. PICK c \in OwnCosts : /\ worker[w].step \in {"started", "source"}
                            /\ Become(w, [worker[w] EXCEPT !.step = "walking", !.unsaved = @ + c])
                            /\ UNCHANGED <<asking, run, rows, answers, holder, messages, page, spent, billed, lost, counts>>
    BY DEF OwnWork
<1> DEFINE t == [worker[w] EXCEPT !.step = "walking", !.unsaved = @ + c]
<1>2. /\ t \in Worker /\ t.step = "walking" /\ t.run = worker[w].run /\ t.part = worker[w].part
    <2>1. c \in Nat /\ worker[w] \in Worker
        BY Quiet, CostAssumption
    <2>2. worker[w].unsaved + c \in Nat
        BY <2>1 DEF Worker
    <2> QED  BY <2>1, <2>2 DEF Worker
<1>3. worker'[w] = t
    BY <1>1, Quiet DEF Become
<1>4. Standing(w)' /\ Walking(w)
    BY <1>1, <1>2, <1>3, Quiet DEF Standing, Walking, OnItsWay, AtAPart, asking
<1> QED  BY <1>1, <1>2, <1>4, Quiet, OnlyTheWorker DEF Become, counts

LEMMA StepAsked ==
    ASSUME JudgmentInv, NEW w \in Workers, At(w, "walking"), Go(w, "asked"),
           UNCHANGED <<asking, run, rows, answers, holder, messages, page, spent, billed, lost, counts>>
    PROVE  JudgmentInv'
<1> DEFINE t == [worker[w] EXCEPT !.step = "asked"]
<1>2. /\ t \in Worker /\ t.step = "asked" /\ t.run = worker[w].run /\ t.part = worker[w].part
    BY Quiet DEF Worker
<1>3. worker'[w] = t
    BY Quiet DEF Become, Go
<1>4. Standing(w)' /\ Walking(w)
    BY <1>2, <1>3, Quiet DEF Standing, Walking, OnItsWay, AtAPart, asking, At
<1> QED  BY <1>2, <1>4, Quiet, OnlyTheWorker DEF Become, Go, counts, At

LEMMA StepReadRaised ==
    ASSUME JudgmentInv, NEW w \in Workers, ReadRaised(w) PROVE JudgmentInv'
<1>1. CASE Become(w, Idle)
    BY <1>1, StepToIdle DEF ReadRaised, At
<1>2. CASE Go(w, "marking")
    <2> DEFINE t == [worker[w] EXCEPT !.step = "marking"]
    <2>2. /\ t \in Worker /\ t.step = "marking" /\ t.run = worker[w].run /\ t.part = worker[w].part
        BY Quiet DEF Worker
    <2>3. worker'[w] = t
        BY <1>2, Quiet DEF Become, Go
    <2>4. Standing(w)' /\ ~Walking(w)'
        BY <2>2, <2>3, Quiet DEF Standing, Walking, OnItsWay, AtAPart, asking, At, ReadRaised
    <2> QED  BY <1>2, <2>2, <2>4, Quiet, OnlyTheWorker DEF Become, Go, counts, At, ReadRaised
<1> QED  BY <1>1, <1>2 DEF ReadRaised

\* The row's lock goes to a worker, and comes back when its status is written.
LEMMA StepLockRun ==
    ASSUME JudgmentInv, NEW w \in Workers, LockRun(w) PROVE JudgmentInv'
<1> DEFINE t == [worker[w] EXCEPT !.step = "locked"]
           j == worker[w].run
<1>1. /\ t \in Worker /\ t.step = "locked" /\ t.run = j /\ t.part = worker[w].part
      /\ worker'[w] = t /\ worker' = [worker EXCEPT ![w] = t]
    BY Quiet DEF Worker, LockRun, Go, Become
<1>2. /\ j \in 1 .. created /\ j \in Runs /\ worker[w].part = 1 /\ worker[w].step = "taken"
      /\ holder[j] = None /\ run[j].status = "queued" /\ holder' = [holder EXCEPT ![j] = w]
    BY Quiet DEF LockRun, Standing, At
<1>3. /\ holder' \in [Runs -> Workers \cup {None}] /\ holder'[j] = w
      /\ \A i \in Runs : i # j => holder'[i] = holder[i]
    BY <1>2 DEF JudgmentInv, TypeOK
<1>4. Standing(w)'
    BY <1>1, <1>2, <1>3 DEF Standing, LockRun, OnItsWay, AtAPart, asking
<1>5. TypeOK'
    BY <1>1, <1>3 DEF JudgmentInv, TypeOK, LockRun, asking, counts
<1>6. \A v \in Workers : v # w => Standing(v)'
    <2>1. created' = created
        BY DEF LockRun, asking
    <2>2. \A i \in Runs : /\ rows'[i] = rows[i] /\ run'[i].status = run[i].status
                          /\ holder'[i] = holder[i] \/ holder[i] \in {w, None}
        BY <1>2, <1>3 DEF LockRun
    <2> QED  BY <1>1, <2>1, <2>2, OthersStand
<1>7. \A i \in Runs : RunOK(i)'
    <2> SUFFICES ASSUME NEW i \in Runs PROVE RunOK(i)'
        OBVIOUS
    <2>1. RunOK(i)
        BY DEF JudgmentInv
    <2>2. i # j /\ holder[i] # None => holder[i] # w /\ worker'[holder[i]] = worker[holder[i]]
        BY <1>1, <1>2, <2>1 DEF RunOK, JudgmentInv, TypeOK
    <2> QED  BY <1>1, <1>3, <2>1, <2>2 DEF RunOK, LockRun, asking
<1>8. \A v \in Workers : v # w /\ Walking(v) => worker[v].run # j
    <2> SUFFICES ASSUME NEW v \in Workers, v # w, Walking(v), worker[v].run = j PROVE FALSE
        OBVIOUS
    <2>1. Standing(v) /\ v # None
        BY WorkerAssumption DEF JudgmentInv
    <2> QED  BY <2>1, <1>2 DEF Standing, Walking, OnItsWay
<1> QED  BY <1>1, <1>4, <1>5, <1>6, <1>7, <1>8, Quiet, WorkerMoves DEF LockRun

LEMMA StepClaimRun ==
    ASSUME JudgmentInv, NEW w \in Workers, ClaimRun(w) PROVE JudgmentInv'
<1> DEFINE t == [worker[w] EXCEPT !.step = "started"]
           j == worker[w].run
<1>1. /\ t \in Worker /\ t.step = "started" /\ t.run = j /\ t.part = worker[w].part
      /\ worker'[w] = t /\ worker' = [worker EXCEPT ![w] = t]
    BY Quiet DEF Worker, ClaimRun, Go, Become
<1>2. /\ j \in 1 .. created /\ j \in Runs /\ worker[w].part = 1 /\ worker[w].step = "locked"
      /\ holder[j] = w /\ run[j].status = "queued" /\ run[j].report \in Reports /\ rows[j] = <<>>
    BY Quiet DEF ClaimRun, Standing, At, JudgmentInv, RunOK
<1>3. /\ run' \in [Runs -> Run] /\ run'[j].status = "running"
      /\ \A i \in Runs : run'[i].report = run[i].report /\ (i # j => run'[i] = run[i])
    <2>1. run \in [Runs -> Run]
        BY <1>2 DEF JudgmentInv, TypeOK
    <2>2. run' = [run EXCEPT ![j] = [run[j] EXCEPT !.status = "running"]]
        BY <2>1, <1>2 DEF ClaimRun, Mine
    <2>3. [run[j] EXCEPT !.status = "running"] \in Run
        BY <2>1, <1>2 DEF Run, Active
    <2> QED  BY <2>1, <2>2, <2>3, <1>2 DEF Run
<1>4. /\ holder' \in [Runs -> Workers \cup {None}] /\ holder'[j] = None
      /\ \A i \in Runs : i # j => holder'[i] = holder[i]
    BY <1>2 DEF JudgmentInv, TypeOK, ClaimRun
<1>5. Standing(w)'
    BY <1>1, <1>2, <1>3, Numbers DEF Standing, ClaimRun, OnItsWay, AtAPart, asking
<1>6. TypeOK'
    BY <1>1, <1>3, <1>4 DEF JudgmentInv, TypeOK, ClaimRun, asking, counts
<1>7. \A v \in Workers : v # w => Standing(v)'
    <2>1. Walking(w) /\ created' = created
        BY <1>2 DEF ClaimRun, asking, Walking
    <2>2. \A i \in Runs : /\ rows'[i] = rows[i]
                          /\ run'[i].status = run[i].status \/ (Walking(w) /\ worker[w].run = i)
                          /\ holder'[i] = holder[i] \/ holder[i] \in {w, None}
        BY <1>2, <1>3, <1>4, <2>1 DEF ClaimRun
    <2> QED  BY <1>1, <2>1, <2>2, OthersStand
<1>8. \A i \in Runs : RunOK(i)'
    <2> SUFFICES ASSUME NEW i \in Runs PROVE RunOK(i)'
        OBVIOUS
    <2>1. RunOK(i)
        BY DEF JudgmentInv
    <2>2. i # j /\ holder[i] # None => holder[i] # w /\ worker'[holder[i]] = worker[holder[i]]
        BY <1>1, <1>2, <2>1 DEF RunOK, JudgmentInv, TypeOK
    <2> QED  BY <1>2, <1>3, <1>4, <2>1, <2>2 DEF RunOK, ClaimRun, asking
<1>9. \A v \in Workers : v # w /\ Walking(v) => worker[v].run # j
    BY <1>2 DEF JudgmentInv, Alone, Walking
<1>10. UNCHANGED <<asking, page>> /\ messages' \subseteq 1 .. created
    BY Quiet DEF ClaimRun
<1>11. \A i \in Runs : run'[i].report = run[i].report
    BY <1>3
<1>12. \A v \in Workers : v # w /\ Walking(v) => worker[v].run # t.run
    BY <1>1, <1>9
<1> HIDE DEF t, j
<1> QED  BY <1>1, <1>5, <1>6, <1>7, <1>8, <1>10, <1>11, <1>12, WorkerMoves

\* Only the run of the worker changes, in its status, its spend and its rows.
LEMMA RunMoves ==
    ASSUME JudgmentInv, NEW w \in Workers, NEW t \in Worker, t.step # "locked",
           NEW j, j = worker[w].run, worker[w].step \notin {"idle", "locked"},
           worker' = [worker EXCEPT ![w] = t],
           UNCHANGED <<asking, holder, messages, page, counts>>,
           run' \in [Runs -> Run], rows' \in [Runs -> Seq(Row)],
           answers' \in [Reports -> SUBSET Parts],
           spent' \in Nat, billed' \in Nat, lost' \in Nat,
           \A i \in Runs : /\ run'[i].report = run[i].report
                           /\ i # j => run'[i] = run[i] /\ rows'[i] = rows[i],
           \/ Walking(w)
           \/ rows' = rows /\ run'[j].status = "failed" /\ holder[j] = None,
           run'[j].status \in Active \cup Ended,
           run'[j].status = "queued" => rows'[j] = <<>>,
           \A n \in DOMAIN rows'[j] : rows'[j][n].part = n,
           Standing(w)', Walking(w)' => Walking(w) /\ t.run = j
    PROVE  JudgmentInv'
<1>1. /\ j \in 1 .. created /\ j \in Runs /\ worker'[w] = t
    BY Quiet DEF Standing
<1>2. TypeOK'
    BY DEF JudgmentInv, TypeOK, asking, counts
<1>3. \A v \in Workers : v # w => Standing(v)'
    <2>1. created' = created
        BY DEF asking
    <2>2. \A i \in Runs : /\ rows'[i] = rows[i] \/ (Walking(w) /\ worker[w].run = i)
                          /\ \/ run'[i].status = run[i].status
                             \/ Walking(w) /\ worker[w].run = i
                             \/ run'[i].status = "failed" /\ holder[i] = None
                          /\ holder'[i] = holder[i] \/ holder[i] \in {w, None}
        OBVIOUS
    <2> QED  BY <2>1, <2>2, OthersStand
<1>4. \A i \in Runs : RunOK(i)'
    <2> SUFFICES ASSUME NEW i \in Runs PROVE RunOK(i)'
        OBVIOUS
    <2>1. RunOK(i)
        BY DEF JudgmentInv
    <2>2. holder[i] # None => holder[i] # w /\ worker'[holder[i]] = worker[holder[i]]
        BY <1>1, <2>1 DEF RunOK, JudgmentInv, TypeOK
    <2>3. CASE i = j
        <3>1. run'[j].status \notin {"none"} /\ ~(j > created) /\ j <= created
            <4>1. created \in Int
                BY DEF JudgmentInv, TypeOK
            <4> QED  BY <1>1, <4>1 DEF Active, Ended
        <3>2. run'[j].report \in Reports
            BY <1>1, <2>1, <2>3 DEF RunOK
        <3> QED  BY <2>1, <2>2, <2>3, <3>1, <3>2 DEF RunOK, asking
    <2>4. CASE i # j
        BY <2>1, <2>2, <2>4 DEF RunOK, asking
    <2> QED  BY <2>3, <2>4
<1>5. Walking(w)' => \A v \in Workers : v # w /\ Walking(v) => worker[v].run # t.run
    BY DEF JudgmentInv, Alone
<1> QED  BY <1>2, <1>3, <1>4, <1>5, Quiet, WorkerMoves

LEMMA StepFinish ==
    ASSUME JudgmentInv, NEW w \in Workers, worker[w].step \in OnItsWay,
           NEW status \in Ended, Finish(w, status)
    PROVE  JudgmentInv'
<1> DEFINE j == worker[w].run
<1>1. /\ j \in 1 .. created /\ j \in Runs /\ RunOK(j) /\ worker[w].unsaved \in Nat
      /\ run \in [Runs -> Run] /\ worker[w].step \notin {"idle", "locked"} /\ Walking(w)
    BY Quiet DEF Standing, OnItsWay, JudgmentInv, TypeOK, Worker, Walking
<1>2. /\ run' \in [Runs -> Run] /\ run'[j].status = status
      /\ \A i \in Runs : run'[i].report = run[i].report /\ (i # j => run'[i] = run[i])
    <2> DEFINE f == [run[j] EXCEPT !.status = status, !.spend = @ + worker[w].unsaved]
    <2>1. run[j].spend + worker[w].unsaved \in Nat
        BY <1>1 DEF Run
    <2>2. f \in Run /\ f.status = status /\ f.report = run[j].report
        BY <1>1, <2>1 DEF Run
    <2>3. run' = [run EXCEPT ![j] = f]
        BY <1>1 DEF Finish
    <2> QED  BY <1>1, <2>2, <2>3
<1>3. /\ Idle \in Worker /\ worker'[w] = Idle /\ Idle.step = "idle" /\ worker' = [worker EXCEPT ![w] = Idle]
    BY RecordTypes, Quiet DEF Idle, Become, Finish
<1>4. Standing(w)' /\ ~Walking(w)'
    BY <1>3 DEF Standing, Walking, OnItsWay, AtAPart
<1>5. /\ UNCHANGED <<asking, holder, messages, page, counts, rows, answers, billed, lost>>
      /\ spent' \in Nat /\ rows' \in [Runs -> Seq(Row)]
      /\ answers' \in [Reports -> SUBSET Parts] /\ billed' \in Nat /\ lost' \in Nat
    BY <1>1, Quiet DEF Finish, JudgmentInv, TypeOK
<1>6. /\ run'[j].status \in Active \cup Ended /\ run'[j].status # "queued"
      /\ \A n \in DOMAIN rows'[j] : rows'[j][n].part = n
    BY <1>1, <1>2, <1>5 DEF RunOK, Ended
<1> QED  BY <1>1, <1>2, <1>3, <1>4, <1>5, <1>6, RunMoves

LEMMA StepMarkFailed ==
    ASSUME JudgmentInv, NEW w \in Workers, MarkFailed(w) PROVE JudgmentInv'
<1> DEFINE j == worker[w].run
<1>1. /\ j \in 1 .. created /\ j \in Runs /\ RunOK(j) /\ holder[j] = None
      /\ run \in [Runs -> Run] /\ worker[w].step = "marking"
    BY Quiet DEF Standing, MarkFailed, At, JudgmentInv, TypeOK
<1>2. /\ run' \in [Runs -> Run] /\ run'[j].status = "failed"
      /\ \A i \in Runs : run'[i].report = run[i].report /\ (i # j => run'[i] = run[i])
    BY <1>1 DEF MarkFailed, Run, Ended
<1>3. /\ Idle \in Worker /\ worker'[w] = Idle /\ Idle.step = "idle" /\ worker' = [worker EXCEPT ![w] = Idle]
    BY RecordTypes, Quiet DEF Idle, Become, MarkFailed
<1>4. Standing(w)' /\ ~Walking(w)'
    BY <1>3 DEF Standing, Walking, OnItsWay, AtAPart
<1>5. /\ UNCHANGED <<asking, holder, messages, page, counts, rows, answers, billed, lost>>
      /\ spent' \in Nat /\ rows' \in [Runs -> Seq(Row)] /\ rows' = rows
      /\ answers' \in [Reports -> SUBSET Parts] /\ billed' \in Nat /\ lost' \in Nat
    BY <1>1, Quiet DEF MarkFailed, JudgmentInv, TypeOK
<1>6. /\ run'[j].status \in Active \cup Ended /\ run'[j].status # "queued"
      /\ \A n \in DOMAIN rows'[j] : rows'[j][n].part = n
    BY <1>1, <1>2, <1>5 DEF RunOK, Ended
<1> QED  BY <1>1, <1>2, <1>3, <1>4, <1>5, <1>6, RunMoves

\* A row that is written is the next one, and the walk goes on behind it.
LEMMA StepWrite ==
    ASSUME JudgmentInv, NEW w \in Workers, worker[w].step \in {"walking", "asked"},
           NEW outcome \in Outcomes, NEW cost \in Nat, NEW failures \in Nat,
           Write(w, outcome, cost, failures), billed' \in Nat,
           answers' \in [Reports -> SUBSET Parts]
    PROVE  JudgmentInv'
<1> DEFINE j == worker[w].run
           k == worker[w].part
           row == [part |-> k, outcome |-> outcome]
           t == [worker[w] EXCEPT !.unsaved = 0, !.failures = failures, !.part = k + 1,
                    !.step = IF k = Items THEN "ending"
                             ELSE IF k + 1 \in Sources THEN "source" ELSE "walking"]
<1>1. /\ j \in 1 .. created /\ j \in Runs /\ RunOK(j) /\ worker[w].unsaved \in Nat
      /\ run \in [Runs -> Run] /\ worker[w].step \notin {"idle", "locked"} /\ Walking(w)
      /\ run[j].status \in {"running", "failed"} /\ Len(rows[j]) = k - 1 /\ k \in Parts
      /\ rows \in [Runs -> Seq(Row)] /\ rows[j] \in Seq(Row) /\ worker[w] \in Worker
    BY Quiet DEF Standing, OnItsWay, AtAPart, JudgmentInv, TypeOK, Worker, Walking
<1>k. k \in Nat /\ k + 1 \in Nat /\ (k + 1) - 1 = k /\ (k - 1) + 1 = k
    <2>1. k \in Nat
        BY Quiet DEF Worker
    <2> QED  BY <2>1
<1>2. /\ run' \in [Runs -> Run] /\ run'[j].status = run[j].status
      /\ \A i \in Runs : run'[i].report = run[i].report /\ (i # j => run'[i] = run[i])
    <2> DEFINE f == [run[j] EXCEPT !.spend = @ + worker[w].unsaved + cost]
    <2>1. run[j].spend + worker[w].unsaved + cost \in Nat
        BY <1>1 DEF Run
    <2>2. f \in Run /\ f.status = run[j].status /\ f.report = run[j].report
        BY <1>1, <2>1 DEF Run
    <2>3. run' = [run EXCEPT ![j] = f]
        BY <1>1 DEF Write, Saved
    <2> QED  BY <1>1, <2>2, <2>3
<1>3. /\ rows' \in [Runs -> Seq(Row)] /\ rows'[j] = Append(rows[j], row)
      /\ \A i \in Runs : i # j => rows'[i] = rows[i]
    <2>1. row \in Row
        BY <1>1 DEF Row
    <2>2. Append(rows[j], row) \in Seq(Row)
        BY <1>1, <2>1
    <2>3. rows' = [rows EXCEPT ![j] = Append(rows[j], row)]
        BY <1>1 DEF Write
    <2> QED  BY <1>1, <2>2, <2>3
<1>4. /\ Len(rows'[j]) = k /\ \A n \in DOMAIN rows'[j] : rows'[j][n].part = n
    <2>0. row \in Row /\ row.part = k
        BY <1>1 DEF Row
    <2> DEFINE q == rows[j]
    <2>a. q \in Seq(Row) /\ rows'[j] = Append(q, row)
        BY <1>1, <1>3
    <2>b. /\ Len(Append(q, row)) = Len(q) + 1
          /\ \A n \in 1 .. Len(q) : Append(q, row)[n] = q[n]
          /\ Append(q, row)[Len(q) + 1] = row
          /\ Append(q, row) \in Seq(Row)
        <3> HIDE DEF q, row
        <3> QED  BY <2>a, <2>0
    <2>1. /\ Len(rows'[j]) = Len(rows[j]) + 1
          /\ \A n \in 1 .. Len(rows[j]) : rows'[j][n] = rows[j][n]
          /\ rows'[j][Len(rows[j]) + 1] = row
          /\ rows'[j] \in Seq(Row)
        BY <2>a, <2>b
    <2>2. DOMAIN rows'[j] = 1 .. Len(rows'[j]) /\ DOMAIN rows[j] = 1 .. Len(rows[j])
        BY <1>1, <2>1
    <2>3. \A n \in DOMAIN rows[j] : rows[j][n].part = n
        BY <1>1 DEF RunOK
    <2>4. k \in Nat /\ Len(rows'[j]) = k
        BY <1>1, <1>k, <2>1
    <2>5. ASSUME NEW n \in DOMAIN rows'[j] PROVE rows'[j][n].part = n
        <3>1. n \in 1 .. Len(rows[j]) \/ n = Len(rows[j]) + 1
            <4>1. Len(rows[j]) \in Nat
                BY <1>1
            <4> QED  BY <4>1, <2>1, <2>2
        <3>2. Len(rows[j]) + 1 = k
            BY <1>1, <2>4
        <3> QED  BY <2>0, <2>1, <2>2, <2>3, <3>1, <3>2
    <2> QED  BY <2>4, <2>5
<1>5. /\ t \in Worker /\ t.run = j /\ t.part = k + 1 /\ k + 1 \in Nat
      /\ t.step \in {"ending", "source", "walking"}
      /\ t.step # "ending" => k # Items
    <2>1. k + 1 \in Nat
        BY <1>k
    <2> QED  BY <1>1, <2>1 DEF Worker
<1>6. worker' = [worker EXCEPT ![w] = t] /\ worker'[w] = t
    BY Quiet DEF Write, Become
<1>7. Standing(w)'
    <2>1. t.step # "ending" => k + 1 \in Parts
        BY <1>1, <1>5, PartsAssumption DEF Parts
    <2>2. created' = created
        BY DEF Write, asking
    <2>3. k \in Nat /\ (k + 1) - 1 = k
        BY <1>k
    <2>4. /\ worker'[w].run = j /\ worker'[w].part = k + 1
          /\ worker'[w].step \in {"ending", "source", "walking"}
          /\ worker'[w].step # "ending" => k + 1 \in Parts
        BY <1>5, <1>6, <2>1
    <2> HIDE DEF t, j, k
    <2> QED  BY <1>1, <1>2, <1>4, <2>2, <2>3, <2>4 DEF Standing, OnItsWay, AtAPart
<1>8. /\ UNCHANGED <<asking, holder, messages, page, counts>>
      /\ spent' \in Nat /\ lost' \in Nat
    <2>1. spent \in Nat /\ worker[w].unsaved \in Nat /\ lost \in Nat
        BY <1>1, Quiet
    <2> HIDE DEF t, row, k, j
    <2> QED  BY <2>1 DEF Write, Saved
<1>9. run'[j].status \in Active \cup Ended /\ run'[j].status # "queued"
    BY <1>1, <1>2 DEF Active, Ended
<1>10. /\ \A i \in Runs : /\ run'[i].report = run[i].report
                          /\ i # j => run'[i] = run[i] /\ rows'[i] = rows[i]
    BY <1>2, <1>3
<1>11. t.step # "locked" /\ t \in Worker /\ t.run = j
    BY <1>5
<1>12. Walking(w) /\ rows' \in [Runs -> Seq(Row)] /\ run' \in [Runs -> Run]
      /\ worker[w].step \notin {"idle", "locked"} /\ worker' = [worker EXCEPT ![w] = t]
    BY <1>1, <1>2, <1>3, <1>6
<1>13. \A n \in DOMAIN rows'[j] : rows'[j][n].part = n
    BY <1>4
<1> HIDE DEF t, row, k
<1> QED  BY <1>7, <1>8, <1>9, <1>10, <1>11, <1>12, <1>13, RunMoves

LEMMA StepWalk ==
    ASSUME JudgmentInv, NEW w \in Workers,
           WriteUnjudged(w) \/ SkipJudge(w) \/ AskJudge(w) \/ JudgeAnswers(w)
    PROVE  JudgmentInv'
<1>1. /\ worker[w].failures \in Nat /\ worker[w].failures + 1 \in Nat
      /\ answers \in [Reports -> SUBSET Parts] /\ billed \in Nat /\ 0 \in Nat
      /\ "judged" \in Outcomes /\ "failed" \in Outcomes /\ "skipped" \in Outcomes
      /\ "unjudged" \in Outcomes
    <2>1. worker[w].failures \in Nat
        BY Quiet DEF Worker
    <2> QED  BY <2>1 DEF JudgmentInv, TypeOK, Outcomes
<1>2. CASE WriteUnjudged(w)
    <2>1. /\ worker[w].step = "walking" /\ Write(w, "unjudged", 0, worker[w].failures)
          /\ UNCHANGED <<answers, billed>>
        BY <1>2 DEF WriteUnjudged, At
    <2> QED  BY <1>1, <2>1, StepWrite
<1>3. CASE SkipJudge(w)
    <2>1. /\ worker[w].step = "walking" /\ Write(w, "skipped", 0, worker[w].failures)
          /\ UNCHANGED <<answers, billed>>
        BY <1>3 DEF SkipJudge, At
    <2> QED  BY <1>1, <2>1, StepWrite
<1>4. CASE AskJudge(w)
    <2>1. CASE worker[w].part \in answers[Mine(w).report]
        <3>1. /\ worker[w].step = "walking" /\ Write(w, "judged", 0, 0)
              /\ UNCHANGED <<answers, billed>>
            BY <1>4, <2>1 DEF AskJudge, At
        <3> QED  BY <1>1, <3>1, StepWrite
    <2>2. CASE worker[w].part \notin answers[Mine(w).report]
        BY <1>4, <2>2, StepAsked DEF AskJudge
    <2> QED  BY <2>1, <2>2
<1>5. CASE JudgeAnswers(w)
    <2>1. PICK c \in Costs :
          /\ At(w, "asked") /\ billed' = billed + c
          /\ \/ /\ Write(w, "judged", c, 0)
                /\ answers' = [answers EXCEPT ![Mine(w).report] = @ \cup {worker[w].part}]
             \/ /\ Write(w, "failed", c, worker[w].failures + 1)
                /\ UNCHANGED answers
        BY <1>5 DEF JudgeAnswers
    <2>2. c \in Nat /\ billed' \in Nat /\ worker[w].step = "asked"
        BY <1>1, <2>1, CostAssumption DEF At
    <2>3. worker[w].part \in Parts
        BY <2>2, Quiet DEF Standing, AtAPart
    <2>4. CASE /\ Write(w, "judged", c, 0)
               /\ answers' = [answers EXCEPT ![Mine(w).report] = @ \cup {worker[w].part}]
        <3>1. answers' \in [Reports -> SUBSET Parts]
            BY <1>1, <2>3, <2>4
        <3> QED  BY <1>1, <2>2, <2>4, <3>1, StepWrite
    <2>5. CASE Write(w, "failed", c, worker[w].failures + 1) /\ UNCHANGED answers
        BY <1>1, <2>2, <2>5, StepWrite
    <2> QED  BY <2>1, <2>4, <2>5
<1> QED  BY <1>2, <1>3, <1>4, <1>5

\* A worker that raises or dies lets go of the row it may have locked.
LEMMA Lets ==
    ASSUME JudgmentInv, NEW w \in Workers, Unrecorded(w), Released(w)
    PROVE  /\ billed' \in Nat /\ lost' \in Nat
           /\ holder' \in [Runs -> Workers \cup {None}]
           /\ \A i \in Runs : holder'[i] = IF holder[i] = w THEN None ELSE holder[i]
<1>1. billed' \in Nat /\ lost' \in Nat
    <2>1. CASE At(w, "asked")
        <3>1. PICK c \in Costs : billed' = billed + c
            BY <2>1 DEF Unrecorded
        <3>2. c \in Nat
            BY CostAssumption
        <3> QED  BY <2>1, <3>1, <3>2, Quiet DEF Unrecorded
    <2> QED  BY <2>1, Quiet DEF Unrecorded
<1>2. holder \in [Runs -> Workers \cup {None}]
    BY DEF JudgmentInv, TypeOK
<1> QED  BY <1>1, <1>2 DEF Released

LEMMA LetsGo ==
    ASSUME JudgmentInv, NEW w \in Workers, NEW t \in Worker, Unrecorded(w), Released(w),
           worker' = [worker EXCEPT ![w] = t],
           UNCHANGED <<asking, run, rows, answers, page, spent>>,
           messages' \subseteq 1 .. created,
           faults' \in 0 .. MaxFaults, killed' \in BOOLEAN,
           t.step \in {"idle", "raised"}, t.step = "raised" => t.run \in 1 .. created
    PROVE  JudgmentInv'
<1>1. worker'[w] = t /\ worker[w] \in Worker
    BY Quiet
<1>2. Standing(w)' /\ ~Walking(w)'
    BY <1>1 DEF Standing, Walking, OnItsWay, AtAPart, asking
<1>3. TypeOK'
    <2>1. messages' \in SUBSET Runs
        BY BoundAssumption DEF JudgmentInv, TypeOK, Runs
    <2> QED  BY <2>1, Lets DEF JudgmentInv, TypeOK, asking
<1>4. \A v \in Workers : v # w => Standing(v)'
    <2>1. created' = created
        BY DEF asking
    <2>2. \A i \in Runs : /\ rows'[i] = rows[i] /\ run'[i].status = run[i].status
                          /\ holder'[i] = holder[i] \/ holder[i] \in {w, None}
        BY Lets
    <2> QED  BY <2>1, <2>2, OthersStand
<1>5. \A i \in Runs : RunOK(i)'
    <2> SUFFICES ASSUME NEW i \in Runs PROVE RunOK(i)'
        OBVIOUS
    <2>1. RunOK(i)
        BY DEF JudgmentInv
    <2>2. holder'[i] # None => /\ holder'[i] = holder[i] /\ holder[i] # w
                               /\ worker'[holder[i]] = worker[holder[i]]
        BY <2>1, Lets DEF RunOK, JudgmentInv, TypeOK
    <2> QED  BY <2>1, <2>2 DEF RunOK, asking
<1>6. UNCHANGED <<asking, page>> /\ \A i \in Runs : run'[i].report = run[i].report
    OBVIOUS
<1> QED  BY <1>2, <1>3, <1>4, <1>5, <1>6, WorkerMoves

LEMMA StepRaise ==
    ASSUME JudgmentInv, NEW w \in Workers, Raise(w) PROVE JudgmentInv'
<1> DEFINE t == [Idle EXCEPT !.step = "raised", !.run = worker[w].run]
<1>1. t \in Worker /\ t.step = "raised" /\ t.run \in 1 .. created
    BY Quiet DEF Raise, Standing, Idle, Worker
<1>2. worker' = [worker EXCEPT ![w] = t]
    BY DEF Raise, Become
<1>3. faults' \in 0 .. MaxFaults /\ killed' \in BOOLEAN /\ messages' \subseteq 1 .. created
    BY Quiet, BoundAssumption DEF Raise, Fault
<1>4. Unrecorded(w) /\ Released(w) /\ UNCHANGED <<asking, run, rows, answers, page, spent>>
    BY DEF Raise
<1> HIDE DEF t
<1> QED  BY <1>1, <1>2, <1>3, <1>4, LetsGo

LEMMA StepDie ==
    ASSUME JudgmentInv, NEW w \in Workers, Die(w) PROVE JudgmentInv'
<1>1. Idle \in Worker /\ Idle.step = "idle" /\ worker' = [worker EXCEPT ![w] = Idle]
    BY RecordTypes DEF Die, Become, Idle
<1>2. faults' \in 0 .. MaxFaults /\ killed' \in BOOLEAN
    BY Quiet, BoundAssumption DEF Die, Fault
<1>3. messages' \subseteq 1 .. created
    BY Quiet DEF Die, Standing, At
<1>4. Unrecorded(w) /\ Released(w) /\ UNCHANGED <<asking, run, rows, answers, page, spent>>
    BY DEF Die
<1> QED  BY <1>1, <1>2, <1>3, <1>4, LetsGo

-----------------------------------------------------------------------------
(* Steps of askers, pages and the broker *)

\* Nothing of the runs' walks is written.
LEMMA WorkersStand ==
    ASSUME JudgmentInv, UNCHANGED <<created, run, rows, holder, worker>>
    PROVE  /\ \A i \in Runs : RunOK(i)'
           /\ \A w \in Workers : Standing(w)'
           /\ Alone'
BY DEF JudgmentInv, RunOK, Standing, Alone, Walking

LEMMA RequestMoves ==
    ASSUME JudgmentInv, NEW a \in Askers, NEW q \in Request,
           request' = [request EXCEPT ![a] = q],
           UNCHANGED <<created, run, working, spent>>, checked' \in SUBSET Reports,
           messages' \subseteq 1 .. created,
           page' \in [Pages -> Page], faults' \in 0 .. MaxFaults, killed' \in BOOLEAN,
           q.step # "none" => q.report \in Reports, q.step # "sending",
           \A p \in Pages : /\ page'[p].step # "closed" => page'[p].report \in Reports
                            /\ request'[p].step # "none" => page'[p].step = "asking"
    PROVE  JudgmentInv'
<1>1. messages' \in SUBSET Runs
    BY BoundAssumption DEF JudgmentInv, TypeOK, Runs
<1>2. /\ request' \in [Askers -> Request]
      /\ \A b \in Askers : request'[b] = IF b = a THEN q ELSE request[b]
    BY DEF JudgmentInv, TypeOK
<1>3. TypeOK'
    BY <1>1, <1>2 DEF JudgmentInv, TypeOK, working
<1>4. Addressed'
    BY <1>2 DEF JudgmentInv, Addressed
<1> QED  BY <1>3, <1>4, WorkersStand DEF JudgmentInv, working

LEMMA Asker ==
    ASSUME JudgmentInv, NEW a \in Askers
    PROVE  /\ request[a] \in Request /\ page \in [Pages -> Page]
           /\ checked \in SUBSET Reports /\ messages \subseteq 1 .. created
           /\ faults \in 0 .. MaxFaults /\ killed \in BOOLEAN /\ created \in 0 .. MaxRuns
           /\ created \in Nat
           /\ request[a].step # "none" => request[a].report \in Reports
           /\ request \in [Askers -> Request]
           /\ \A p \in Pages : /\ page[p] \in Page /\ p \in Askers
                               /\ page[p].step # "closed" => page[p].report \in Reports
                               /\ request[p].step # "none" => page[p].step = "asking"
           /\ Check \notin Pages /\ Scanner \notin Pages
BY BoundAssumption, AskerAssumption DEF JudgmentInv, TypeOK, Addressed, Askers

LEMMA StepPaperChecked ==
    ASSUME JudgmentInv, NEW r \in Reports, PaperChecked(r) PROVE JudgmentInv'
<1> DEFINE q == [NoRequest EXCEPT !.step = "creating", !.report = r]
<1>1. q \in Request /\ q.report \in Reports /\ q.step = "creating" /\ Check \in Askers
    BY DEF NoRequest, Request, Askers
<1>2. /\ request' = [request EXCEPT ![Check] = q]
      /\ \A p \in Pages : request'[p] = request[p]
    BY <1>1, Asker DEF PaperChecked, Ask
<1>3. /\ UNCHANGED <<created, run, working, spent>> /\ checked' \in SUBSET Reports
      /\ messages' \subseteq 1 .. created /\ page' \in [Pages -> Page] /\ page' = page
      /\ faults' \in 0 .. MaxFaults /\ killed' \in BOOLEAN
    BY <1>1, Asker DEF PaperChecked, counts
<1> HIDE DEF q
<1> QED  BY <1>1, <1>2, <1>3, Asker, RequestMoves

LEMMA StepScanReport ==
    ASSUME JudgmentInv, NEW r \in Reports, ScanReport(r) PROVE JudgmentInv'
<1> DEFINE q == [NoRequest EXCEPT !.step = "reading", !.report = r, !.force = TRUE]
<1>1. q \in Request /\ q.report \in Reports /\ q.step = "reading" /\ Scanner \in Askers
    BY DEF NoRequest, Request, Askers
<1>2. /\ request' = [request EXCEPT ![Scanner] = q]
      /\ \A p \in Pages : request'[p] = request[p]
    BY <1>1, Asker DEF ScanReport, Ask
<1>3. /\ UNCHANGED <<created, run, working, spent>> /\ checked' \in SUBSET Reports
      /\ messages' \subseteq 1 .. created /\ page' \in [Pages -> Page] /\ page' = page
      /\ faults' \in 0 .. MaxFaults /\ killed' \in BOOLEAN
    BY <1>1, Asker DEF ScanReport, counts
<1> HIDE DEF q
<1> QED  BY <1>1, <1>2, <1>3, Asker, RequestMoves

LEMMA StepOpenPage ==
    ASSUME JudgmentInv, NEW p \in Pages, NEW r \in Reports, OpenPage(p, r) PROVE JudgmentInv'
<1> DEFINE q == [NoRequest EXCEPT !.step = "reading", !.report = r]
           g == [page[p] EXCEPT !.step = "asking", !.report = r]
<1>1. q \in Request /\ q.report \in Reports /\ q.step = "reading" /\ p \in Askers
    BY DEF NoRequest, Request, Askers
<1>2. request' = [request EXCEPT ![p] = q]
    BY DEF OpenPage, Ask
<1>3. /\ UNCHANGED <<created, run, working, spent>> /\ checked' \in SUBSET Reports
      /\ messages' \subseteq 1 .. created
      /\ faults' \in 0 .. MaxFaults /\ killed' \in BOOLEAN
    BY <1>1, Asker DEF OpenPage, counts
<1>4. g \in Page /\ g.report \in Reports /\ g.step = "asking"
    <2>1. page[p] \in Page
        BY <1>1, Asker
    <2> QED  BY <2>1 DEF Page
<1>5. page' = [page EXCEPT ![p] = g]
    BY DEF OpenPage
<1> HIDE DEF q, g
<1>6. /\ page' \in [Pages -> Page]
      /\ \A o \in Pages : /\ page'[o].step # "closed" => page'[o].report \in Reports
                          /\ request'[o].step # "none" => page'[o].step = "asking"
    BY <1>1, <1>2, <1>4, <1>5, Asker
<1> QED  BY <1>1, <1>2, <1>3, <1>6, RequestMoves

LEMMA StepRetryPage ==
    ASSUME JudgmentInv, NEW p \in Pages, RetryPage(p) PROVE JudgmentInv'
<1> DEFINE q == [NoRequest EXCEPT !.step = "reading", !.report = page[p].report, !.force = TRUE]
           g == [page[p] EXCEPT !.step = "asking"]
<1>0. p \in Askers
    BY DEF Askers
<1>1. q \in Request /\ q.report \in Reports /\ q.step = "reading"
    BY <1>0, Asker DEF NoRequest, Request, RetryPage
<1>2. request' = [request EXCEPT ![p] = q]
    BY DEF RetryPage, Ask
<1>3. /\ UNCHANGED <<created, run, working, spent>> /\ checked' \in SUBSET Reports
      /\ messages' \subseteq 1 .. created
      /\ faults' \in 0 .. MaxFaults /\ killed' \in BOOLEAN
    BY <1>0, Asker DEF RetryPage, counts
<1>4. g \in Page /\ g.report \in Reports /\ g.step = "asking"
    BY <1>0, Asker DEF Page, RetryPage
<1>5. page' = [page EXCEPT ![p] = g]
    BY DEF RetryPage
<1> HIDE DEF q, g
<1>6. /\ page' \in [Pages -> Page]
      /\ \A o \in Pages : /\ page'[o].step # "closed" => page'[o].report \in Reports
                          /\ request'[o].step # "none" => page'[o].step = "asking"
    BY <1>0, <1>2, <1>4, <1>5, Asker
<1> QED  BY <1>0, <1>1, <1>2, <1>3, <1>6, RequestMoves

\* What the page holds after the answer.
LEMMA Answer ==
    ASSUME JudgmentInv, NEW a \in Askers, NEW ok \in BOOLEAN, request[a].step # "none",
           Answered(a, ok), created' = created
    PROVE  /\ page' \in [Pages -> Page]
           /\ \A p \in Pages : /\ page'[p].step # "closed" => page'[p].report \in Reports
                               /\ p # a => page'[p] = page[p]
<1>1. CASE a \notin Pages
    BY <1>1, Asker DEF Answered
<1>2. CASE a \in Pages
    <2> DEFINE g == [Closed EXCEPT !.step = "polling", !.report = request[a].report,
                        !.since = created']
               h == [page[a] EXCEPT !.step = "finished"]
    <2>1. request[a].report \in Reports /\ created' \in Nat
        BY Asker
    <2>2. g \in Page /\ g.report \in Reports
        BY <2>1, RecordTypes DEF Closed, Page, Nothing
    <2>3. h \in Page /\ h.report = page[a].report /\ h.step = "finished"
        BY <1>2, Asker DEF Page
    <2>4. page' = [page EXCEPT ![a] = g] \/ page' = [page EXCEPT ![a] = h]
        BY <1>2 DEF Answered
    <2>5. CASE page' = [page EXCEPT ![a] = g]
        <3> HIDE DEF g
        <3> QED  BY <1>2, <2>2, <2>5, Asker
    <2>6. CASE page' = [page EXCEPT ![a] = h]
        <3>1. page[a].step = "asking" /\ h.report \in Reports
            BY <1>2, <2>3, Asker
        <3> HIDE DEF h
        <3> QED  BY <1>2, <2>3, <2>6, <3>1, Asker
    <2> QED  BY <2>4, <2>5, <2>6
<1> QED  BY <1>1, <1>2

LEMMA StepAsks ==
    ASSUME JudgmentInv, NEW a \in Askers, ReuseRun(a) \/ NoRunToReuse(a)
    PROVE  JudgmentInv'
<1>1. CASE ReuseRun(a)
    <2>1. /\ request[a].step # "none" /\ Answered(a, TRUE) /\ created' = created
          /\ request' = [request EXCEPT ![a] = NoRequest]
          /\ UNCHANGED <<created, run, working, spent>> /\ checked' = checked
          /\ messages' = messages /\ faults' = faults /\ killed' = killed
        BY <1>1 DEF ReuseRun, Ask, counts
    <2>2. NoRequest \in Request /\ NoRequest.step = "none"
        BY RecordTypes DEF NoRequest
    <2>3. /\ page' \in [Pages -> Page]
          /\ \A p \in Pages : /\ page'[p].step # "closed" => page'[p].report \in Reports
                              /\ p # a => page'[p] = page[p]
        BY <2>1, Answer
    <2>4. \A p \in Pages : request'[p].step # "none" => page'[p].step = "asking"
        BY <2>1, <2>2, <2>3, Asker
    <2> QED  BY <2>1, <2>2, <2>3, <2>4, Asker, RequestMoves
<1>2. CASE NoRunToReuse(a)
    <2> DEFINE q == [request[a] EXCEPT !.step = "creating"]
    <2>1. /\ request[a].step # "none" /\ request' = [request EXCEPT ![a] = q]
          /\ UNCHANGED <<created, run, working, spent>> /\ checked' = checked
          /\ messages' = messages /\ faults' = faults /\ killed' = killed /\ page' = page
        BY <1>2 DEF NoRunToReuse, Ask, counts
    <2>2. q \in Request /\ q.step = "creating" /\ q.report \in Reports
        BY <2>1, Asker DEF Request
    <2> HIDE DEF q
    <2>4. \A p \in Pages : request'[p].step # "none" => page'[p].step = "asking"
        BY <2>1, <2>2, Asker
    <2> QED  BY <2>1, <2>2, <2>4, Asker, RequestMoves
<1> QED  BY <1>1, <1>2

LEMMA StepSendRun ==
    ASSUME JudgmentInv, NEW a \in Askers, SendRun(a) \/ RequestFails(a)
    PROVE  JudgmentInv'
<1>1. /\ request[a].step # "none" /\ created' = created
      /\ Answered(a, TRUE) \/ Answered(a, FALSE)
      /\ request' = [request EXCEPT ![a] = NoRequest]
      /\ UNCHANGED <<created, run, working, spent>> /\ checked' = checked
    BY DEF SendRun, RequestFails, Ask, counts
<1>2. NoRequest \in Request /\ NoRequest.step = "none"
    BY RecordTypes DEF NoRequest
<1>3. /\ page' \in [Pages -> Page]
      /\ \A p \in Pages : /\ page'[p].step # "closed" => page'[p].report \in Reports
                          /\ p # a => page'[p] = page[p]
    BY <1>1, Answer
<1>4. \A p \in Pages : request'[p].step # "none" => page'[p].step = "asking"
    BY <1>1, <1>2, <1>3, Asker
<1>5. messages' \subseteq 1 .. created /\ faults' \in 0 .. MaxFaults /\ killed' \in BOOLEAN
    <2>1. CASE SendRun(a)
        <3>1. request[a].run \in 1 .. created
            BY <2>1 DEF SendRun, JudgmentInv, Addressed
        <3> QED  BY <2>1, <3>1, Asker DEF SendRun, counts
    <2>2. CASE RequestFails(a)
        BY <2>2, Asker, BoundAssumption DEF RequestFails, Fault, counts
    <2> QED  BY <2>1, <2>2
<1> QED  BY <1>1, <1>2, <1>3, <1>4, <1>5, Asker, RequestMoves

\* A new run stands behind all others.
LEMMA StepCreateRun ==
    ASSUME JudgmentInv, NEW a \in Askers, CreateRun(a)
    PROVE  JudgmentInv'
<1> DEFINE n == created + 1
           q == [request[a] EXCEPT !.step = "sending", !.run = n]
           f == [NoRun EXCEPT !.report = request[a].report, !.auto = (a = Scanner),
                    !.status = "queued"]
<1>1. /\ request[a].step = "creating" /\ created < MaxRuns /\ created' = n
      /\ request' = [request EXCEPT ![a] = q] /\ run' = [run EXCEPT ![n] = f]
      /\ UNCHANGED <<checked, rows, answers, holder, worker, billed, lost, messages, page, spent, counts>>
    BY DEF CreateRun, Ask, working
<1>2. /\ created \in Nat /\ MaxRuns \in Nat /\ n \in Runs /\ n \in 0 .. MaxRuns
      /\ n \in 1 .. n /\ 1 .. created \subseteq 1 .. n /\ n \notin 1 .. created
      /\ 1 .. created \subseteq Runs
      /\ n > created /\ \A i \in Runs : i <= n <=> (i <= created \/ i = n)
      /\ \A i \in Runs : i > n => i > created /\ i # n
    BY <1>1, Asker, BoundAssumption DEF Runs
<1>3. q \in Request /\ q.step = "sending" /\ q.run = n /\ q.report \in Reports
    BY <1>1, <1>2, Asker DEF Request
<1>4. f \in Run /\ f.status = "queued" /\ f.report \in Reports
    <2>1. request[a].report \in Reports
        BY <1>1, Asker
    <2> QED  BY <2>1 DEF Run, NoRun, Active
<1>5. /\ run' \in [Runs -> Run] /\ run'[n] = f
      /\ \A i \in Runs : i # n => run'[i] = run[i]
    BY <1>1, <1>2, <1>4 DEF JudgmentInv, TypeOK
<1>6. /\ request' \in [Askers -> Request]
      /\ \A b \in Askers : request'[b] = IF b = a THEN q ELSE request[b]
    BY <1>1, <1>3, Asker
<1> HIDE DEF q, f, n
<1>7. TypeOK'
    BY <1>1, <1>2, <1>5, <1>6 DEF JudgmentInv, TypeOK, counts
<1>8. \A i \in Runs : RunOK(i)'
    <2> SUFFICES ASSUME NEW i \in Runs PROVE RunOK(i)'
        OBVIOUS
    <2>1. RunOK(i)
        BY DEF JudgmentInv
    <2>2. CASE i = n
        <3>1. i > created /\ ~(i > n)
            BY <1>2, <2>2
        <3> QED  BY <2>1, <2>2, <3>1, <1>1, <1>4, <1>5 DEF RunOK
    <2>3. CASE i # n
        <3>1. i <= n => i <= created
            BY <1>2, <2>3
        <3>2. i > n => i > created
            BY <1>2
        <3> QED  BY <2>1, <2>3, <3>1, <3>2, <1>1, <1>5 DEF RunOK
    <2> QED  BY <2>2, <2>3
<1>9. \A w \in Workers : Standing(w)'
    <2> SUFFICES ASSUME NEW w \in Workers PROVE Standing(w)'
        OBVIOUS
    <2>1. Standing(w)
        BY DEF JudgmentInv
    <2>2. worker[w].step # "idle" => run'[worker[w].run] = run[worker[w].run]
        BY <2>1, <1>2, <1>5 DEF Standing
    <2> QED  BY <2>1, <2>2, <1>1, <1>2 DEF Standing, OnItsWay, AtAPart
<1>10. Alone'
    BY <1>1 DEF JudgmentInv, Alone, Walking
<1>11. Addressed'
    BY <1>1, <1>2, <1>3, <1>6, Asker DEF JudgmentInv, Addressed
<1> QED  BY <1>7, <1>8, <1>9, <1>10, <1>11 DEF JudgmentInv

LEMMA StepDeliverAgain == JudgmentInv /\ DeliverAgain => JudgmentInv'
<1> SUFFICES ASSUME JudgmentInv, DeliverAgain PROVE JudgmentInv'
    OBVIOUS
<1>1. PICK i \in Runs \ messages :
          /\ \E w \in Workers : ~At(w, "idle") /\ worker[w].run = i
          /\ Fault /\ messages' = messages \cup {i}
          /\ UNCHANGED <<asking, run, working, page, spent, killed>>
    BY DEF DeliverAgain
<1>2. i \in 1 .. created
    BY <1>1 DEF At, JudgmentInv, Standing
<1>3. faults' \in 0 .. MaxFaults
    BY <1>1, BoundAssumption DEF Fault, JudgmentInv, TypeOK
<1>4. TypeOK'
    BY <1>1, <1>3 DEF JudgmentInv, TypeOK, asking, working
<1>5. Addressed'
    BY <1>1, <1>2 DEF JudgmentInv, Addressed, asking
<1> QED  BY <1>1, <1>4, <1>5, WorkersStand DEF JudgmentInv, asking, working

\* A page that polls.
LEMMA PageMoves ==
    ASSUME JudgmentInv, NEW p \in Pages, NEW g \in Page, page' = [page EXCEPT ![p] = g],
           UNCHANGED <<asking, run, working, messages, spent, counts>>,
           page[p].step \in {"polling", "reading"}, g.report = page[p].report
    PROVE  JudgmentInv'
<1>1. \A o \in Pages : page'[o] = IF o = p THEN g ELSE page[o]
    BY DEF JudgmentInv, TypeOK
<1>2. TypeOK'
    BY DEF JudgmentInv, TypeOK, asking, working, counts
<1>3. Addressed'
    BY <1>1 DEF JudgmentInv, Addressed, asking
<1> QED  BY <1>2, <1>3, WorkersStand DEF JudgmentInv, asking, working

LEMMA LatestIs ==
    ASSUME JudgmentInv, NEW r
    PROVE  Latest(r) = None \/ Latest(r) \in Runs
<1>1. RunsOf(r) \subseteq Runs /\ RunsOf(r) \subseteq Nat
    BY BoundAssumption DEF RunsOf, Runs, JudgmentInv, TypeOK
<1>2. CASE RunsOf(r) # {}
    <2> DEFINE Behind == {m \in Nat : created - m \in RunsOf(r)}
    <2>1. created \in Nat /\ \A i \in RunsOf(r) : i <= created /\ created - i \in Behind
        <3>1. created \in Nat /\ \A i \in RunsOf(r) : i \in 1 .. created
            BY BoundAssumption DEF RunsOf, JudgmentInv, TypeOK
        <3>2. ASSUME NEW i \in RunsOf(r) PROVE i <= created /\ created - i \in Behind
            <4>1. i \in Nat /\ i <= created /\ created - i \in Nat /\ created - (created - i) = i
                BY <3>1, <3>2
            <4> QED  BY <4>1
        <3> QED  BY <3>1, <3>2
    <2>2. PICK i \in RunsOf(r) : TRUE
        BY <1>2
    <2>3. PICK m \in Behind : \A n \in Behind : m <= n
        <3>1. Behind \subseteq Nat /\ Behind # {}
            BY <2>1, <2>2
        <3> HIDE DEF Behind
        <3>2. PICK m \in Behind : \A n \in Behind : ~(<<n, m>> \in OpToRel(<, Nat))
            BY <3>1, NatLessThanWellFounded, WFMin, Zenon
        <3>3. \A n \in Nat : <<n, m>> \notin OpToRel(<, Nat) => m <= n
            BY <3>1 DEF OpToRel
        <3> QED  BY <3>1, <3>2, <3>3
    <2>4. created - m \in RunsOf(r) /\ m \in Nat
        BY <2>3
    <2>5. \A j \in RunsOf(r) : j <= created - m
        <3> SUFFICES ASSUME NEW j \in RunsOf(r) PROVE j <= created - m
            OBVIOUS
        <3>1. j \in Nat /\ m <= created - j
            BY <1>1, <2>1, <2>3
        <3> QED  BY <2>1, <2>4, <3>1
    <2> HIDE DEF Behind
    <2> QED  BY <1>1, <1>2, <2>4, <2>5 DEF Latest
<1> QED  BY <1>2 DEF Latest

LEMMA StepPollRun ==
    ASSUME JudgmentInv, NEW p \in Pages, PollRun(p) PROVE JudgmentInv'
<1> DEFINE i == Latest(page[p].report)
           g == [page[p] EXCEPT !.step = "reading", !.run = i,
                    !.ended = (i # None /\ run[i].status \in Ended)]
<1>1. page[p] \in Page /\ i \in Runs \cup {None}
    BY LatestIs DEF JudgmentInv, TypeOK
<1> HIDE DEF i
<1>2. g \in Page /\ g.report = page[p].report
    BY <1>1 DEF Page
<1>3. /\ page' = [page EXCEPT ![p] = g] /\ page[p].step = "polling"
      /\ UNCHANGED <<asking, run, working, messages, spent, counts>>
    BY DEF PollRun, i
<1> HIDE DEF g
<1> QED  BY <1>2, <1>3, PageMoves

LEMMA FreshIs ==
    ASSUME JudgmentInv, NEW p \in Pages
    PROVE  /\ page[p].run # None => Fresh(p) \subseteq DOMAIN rows[page[p].run]
           /\ page[p].run = None => Fresh(p) = {}
           /\ Cardinality(Fresh(p)) \in Nat
<1>1. page[p] \in Page /\ rows \in [Runs -> Seq(Row)]
    BY DEF JudgmentInv, TypeOK
<1>2. CASE page[p].run = None
    BY <1>2, FS_EmptySet DEF Fresh
<1>3. CASE page[p].run # None
    <2>1. rows[page[p].run] \in Seq(Row)
        BY <1>1, <1>3 DEF Page
    <2>2. Fresh(p) \subseteq 1 .. Len(rows[page[p].run]) /\ Len(rows[page[p].run]) \in Nat
        BY <1>3, <2>1 DEF Fresh
    <2>3. IsFiniteSet(Fresh(p))
        <3> DEFINE all == 1 .. Len(rows[page[p].run])
        <3>1. IsFiniteSet(all) /\ Fresh(p) \in SUBSET all
            BY <2>2, FS_Interval
        <3> HIDE DEF all
        <3> QED  BY <3>1, FS_Subset
    <2> QED  BY <1>3, <2>3, FS_CardinalityType DEF Fresh
<1> QED  BY <1>2, <1>3

LEMMA StepPollRows ==
    ASSUME JudgmentInv, NEW p \in Pages, PollRows(p) PROVE JudgmentInv'
<1> DEFINE fresh == Fresh(p)
           shown == [k \in Parts |->
              IF \E n \in fresh : rows[page[p].run][n].part = k
              THEN rows[page[p].run][CHOOSE n \in fresh : rows[page[p].run][n].part = k].outcome
              ELSE page[p].shown[k]]
           step == IF page[p].ended /\ LastAnswer(fresh) THEN "finished" ELSE "polling"
           g == [page[p] EXCEPT !.shown = shown, !.after = @ + Cardinality(fresh),
                    !.step = step, !.run = None, !.ended = FALSE]
<1>1. page[p] \in Page /\ rows \in [Runs -> Seq(Row)]
    BY DEF JudgmentInv, TypeOK
<1>2. shown \in [Parts -> Outcomes \cup {None}]
    <2> SUFFICES ASSUME NEW k \in Parts PROVE shown[k] \in Outcomes \cup {None}
        OBVIOUS
    <2>1. CASE \E n \in fresh : rows[page[p].run][n].part = k
        <3>1. PICK n \in fresh : n = CHOOSE m \in fresh : rows[page[p].run][m].part = k
            BY <2>1
        <3>2. page[p].run \in Runs /\ rows[page[p].run] \in Seq(Row) /\ n \in DOMAIN rows[page[p].run]
            BY <1>1, <3>1, FreshIs DEF Page
        <3>3. rows[page[p].run][n] \in Row
            BY <3>2
        <3> HIDE DEF fresh
        <3> QED  BY <2>1, <3>1, <3>3 DEF Row
    <2>2. CASE ~ \E n \in fresh : rows[page[p].run][n].part = k
        BY <1>1, <2>2 DEF Page
    <2> QED  BY <2>1, <2>2
<1>3. page[p].after + Cardinality(fresh) \in Nat
    <2>1. page[p].after \in Nat /\ Cardinality(fresh) \in Nat
        BY <1>1, FreshIs DEF Page
    <2> QED  BY <2>1
<1>4. step \in {"finished", "polling"}
    OBVIOUS
<1>5. /\ page' = [page EXCEPT ![p] = g] /\ page[p].step = "reading"
      /\ UNCHANGED <<asking, run, working, messages, spent, counts>>
    BY DEF PollRows
<1> HIDE DEF shown, step, fresh
<1>6. g \in Page /\ g.report = page[p].report
    BY <1>1, <1>2, <1>3, <1>4 DEF Page
<1> HIDE DEF g
<1> QED  BY <1>5, <1>6, PageMoves

LEMMA StepExecutes ==
    ASSUME JudgmentInv, NEW w \in Workers, Executes(w) PROVE JudgmentInv'
<1>1. CASE LockRun(w)
    BY <1>1, StepLockRun
<1>2. CASE NotQueued(w)
    BY <1>2, StepToIdle DEF NotQueued, At
<1>3. CASE ClaimRun(w)
    BY <1>3, StepClaimRun
<1>4. CASE PanelUnavailable(w) \/ StopAtLimit(w) \/ FinishRun(w)
    <2>1. /\ worker[w].step \in OnItsWay
          /\ Finish(w, "unavailable") \/ Finish(w, "completed")
        BY <1>4 DEF PanelUnavailable, StopAtLimit, FinishRun, At, OnItsWay
    <2> QED  BY <2>1, StepFinish DEF Ended
<1>5. CASE OwnWork(w)
    BY <1>5, StepOwnWork
<1>6. CASE WriteUnjudged(w) \/ SkipJudge(w) \/ AskJudge(w) \/ JudgeAnswers(w)
    BY <1>6, StepWalk
<1>7. CASE ReadRaised(w)
    BY <1>7, StepReadRaised
<1>8. CASE MarkFailed(w)
    BY <1>8, StepMarkFailed
<1> QED  BY <1>1, <1>2, <1>3, <1>4, <1>5, <1>6, <1>7, <1>8 DEF Executes

-----------------------------------------------------------------------------
LEMMA StepJudgment == JudgmentInv /\ [Next]_vars => JudgmentInv'
<1> SUFFICES ASSUME JudgmentInv, [Next]_vars PROVE JudgmentInv'
    OBVIOUS
<1>1. ASSUME NEW r \in Reports, PaperChecked(r) \/ ScanReport(r) PROVE JudgmentInv'
    BY <1>1, StepPaperChecked, StepScanReport
<1>2. ASSUME NEW p \in Pages, NEW r \in Reports, OpenPage(p, r) PROVE JudgmentInv'
    BY <1>2, StepOpenPage
<1>3. ASSUME NEW p \in Pages, RetryPage(p) \/ PollRun(p) \/ PollRows(p) PROVE JudgmentInv'
    BY <1>3, StepRetryPage, StepPollRun, StepPollRows
<1>4. ASSUME NEW a \in Askers, Asks(a) PROVE JudgmentInv'
    BY <1>4, StepAsks, StepCreateRun, StepSendRun DEF Asks
<1>5. ASSUME NEW w \in Workers, TakeMessage(w) \/ Executes(w) \/ Raise(w) \/ Die(w)
      PROVE  JudgmentInv'
    BY <1>5, StepTakeMessage, StepExecutes, StepRaise, StepDie
<1>6. CASE DeliverAgain
    BY <1>6, StepDeliverAgain
<1>7. CASE UNCHANGED vars
    <2>1. TypeOK'
        BY <1>7 DEF vars, counts, JudgmentInv, TypeOK
    <2>2. Addressed'
        BY <1>7 DEF vars, JudgmentInv, Addressed
    <2> QED  BY <1>7, <2>1, <2>2, WorkersStand DEF vars, JudgmentInv
<1> QED  BY <1>1, <1>2, <1>3, <1>4, <1>5, <1>6, <1>7 DEF Next

\* The invariant that the claim and the walk keep.
THEOREM JudgmentInvariant == Spec => []JudgmentInv
<1>1. Init => JudgmentInv
    BY InitJudgment
<1>2. JudgmentInv /\ [Next]_vars => JudgmentInv'
    BY StepJudgment
<1> QED  BY <1>1, <1>2, PTL DEF Spec

\* execute_run is safe to call twice: a run is walked by one worker at a time,
\* and its rows are its parts in paper order (judgment_runs.py:314).
THEOREM RunsWalkedByOne == Spec => []WalkedByOne
<1>1. JudgmentInv => WalkedByOne
    BY DEF JudgmentInv, Alone, RunOK, WalkedByOne
<1> QED  BY <1>1, JudgmentInvariant, PTL

-----------------------------------------------------------------------------
(* The day's limit *)

Asking == {w \in Workers : worker[w].step = "asked"}

\* Every call under way was let through when the recorded spend was below the
\* limit, and all that was billed since is recorded, lost, or such a call.
Budget ==
    /\ billed <= spent + MaxCost * lost
    /\ billed + MaxCost * Cardinality(Asking)
         <= (DayLimit - 1) + MaxCost * (Cardinality(Workers) + lost)

LEMMA Times ==
    ASSUME NEW a \in Nat, NEW b \in Nat
    PROVE  /\ MaxCost * a \in Nat /\ MaxCost * (a + 1) = MaxCost * a + MaxCost
           /\ MaxCost * (a + b) = MaxCost * a + MaxCost * b
           /\ a <= b => MaxCost * a <= MaxCost * b
           /\ MaxCost \in Nat /\ DayLimit - 1 \in Nat /\ MaxCost * 0 = 0
<1>1. MaxCost \in Nat /\ DayLimit - 1 \in Nat
    BY CostAssumption, LimitAssumption
<1>2. MaxCost * a \in Nat /\ MaxCost * (a + 1) = MaxCost * a + MaxCost /\ MaxCost * 0 = 0
      /\ MaxCost * (a + b) = MaxCost * a + MaxCost * b
    BY <1>1
<1>3. ASSUME a <= b PROVE MaxCost * a <= MaxCost * b
    <2> DEFINE d == b - a
    <2>1. d \in Nat /\ b = a + d
        BY <1>3
    <2>2. MaxCost * d \in Nat /\ MaxCost * b = MaxCost * a + MaxCost * d
        <3> HIDE DEF d
        <3> QED  BY <1>1, <2>1
    <2> QED  BY <1>2, <2>2
<1> QED  BY <1>1, <1>2, <1>3

LEMMA AskingCount ==
    ASSUME JudgmentInv
    PROVE  /\ IsFiniteSet(Asking) /\ Cardinality(Asking) \in Nat
           /\ Cardinality(Asking) <= Cardinality(Workers) /\ Cardinality(Workers) \in Nat
           /\ billed \in Nat /\ spent \in Nat /\ lost \in Nat
<1>1. Asking \in SUBSET Workers
    BY DEF Asking
<1> QED  BY <1>1, WorkerAssumption, FS_Subset, FS_CardinalityType DEF JudgmentInv, TypeOK

LEMMA InitBudget == Init => Budget
<1> SUFFICES ASSUME Init PROVE Budget
    OBVIOUS
<1>1. Asking = {}
    BY DEF Init, Asking, Idle
<1>2. Cardinality(Asking) = 0
    BY <1>1, FS_EmptySet
<1>3. Cardinality(Workers) \in Nat
    BY WorkerAssumption, FS_CardinalityType
<1>4. MaxCost * (Cardinality(Workers) + 0) \in Nat /\ MaxCost * 0 = 0 /\ DayLimit - 1 \in Nat
    <2>1. Cardinality(Workers) + 0 = Cardinality(Workers)
        BY <1>3
    <2> QED  BY <1>3, <2>1, Times
<1> QED  BY <1>2, <1>4 DEF Init, Budget

\* Steps that no judge is paid for.
LEMMA NothingBilled ==
    ASSUME JudgmentInv, Budget, billed' = billed, lost' = lost,
           spent' \in Nat, spent' >= spent, Asking' = Asking
    PROVE  Budget'
<1>1. MaxCost * lost \in Nat
    BY AskingCount, Times
<1> QED  BY <1>1, AskingCount DEF Budget

LEMMA OneMoves ==
    ASSUME JudgmentInv, NEW w \in Workers, NEW t, worker' = [worker EXCEPT ![w] = t]
    PROVE  /\ t.step = "asked" => Asking' = Asking \cup {w}
           /\ t.step # "asked" => Asking' = Asking \ {w}
           /\ w \in Asking <=> At(w, "asked")
<1>1. \A v \in Workers : worker'[v] = IF v = w THEN t ELSE worker[v]
    BY DEF JudgmentInv, TypeOK
<1> QED  BY <1>1 DEF Asking, At

\* A call that begins was let through below the limit.
LEMMA BudgetAsked ==
    ASSUME JudgmentInv, Budget, NEW w \in Workers, Go(w, "asked"), WithinLimit(w),
           UNCHANGED <<billed, lost, spent>>
    PROVE  Budget'
<1>1. Asking' = Asking \cup {w} /\ IsFiniteSet(Asking)
    <2> DEFINE t == [worker[w] EXCEPT !.step = "asked"]
    <2>1. t.step = "asked"
        BY Quiet DEF Worker
    <2>2. worker' = [worker EXCEPT ![w] = t]
        BY DEF Go, Become
    <2> HIDE DEF t
    <2> QED  BY <2>1, <2>2, OneMoves, AskingCount
<1>2. Cardinality(Asking') \in Nat /\ Cardinality(Asking') <= Cardinality(Workers)
    <2>1. Asking' \in SUBSET Workers
        BY DEF Asking
    <2> QED  BY <2>1, WorkerAssumption, FS_Subset, FS_CardinalityType
<1>3. spent <= DayLimit - 1
    <2>1. worker[w].unsaved \in Nat /\ spent \in Nat /\ ~(spent + worker[w].unsaved >= DayLimit)
        BY Quiet DEF Worker, WithinLimit, LimitReached
    <2> QED  BY <2>1, LimitAssumption
<1> DEFINE n == Cardinality(Asking')
           W == Cardinality(Workers)
<1>4. /\ MaxCost * n <= MaxCost * W /\ MaxCost * (W + lost) = MaxCost * W + MaxCost * lost
      /\ MaxCost * n \in Nat /\ MaxCost * W \in Nat /\ MaxCost * lost \in Nat
    <2>1. n \in Nat /\ W \in Nat /\ lost \in Nat /\ n <= W
        BY <1>2, AskingCount
    <2> HIDE DEF n, W
    <2> QED  BY <2>1, Times
<1>5. billed <= spent + MaxCost * lost
    BY DEF Budget
<1>6. billed + MaxCost * n <= (DayLimit - 1) + MaxCost * (W + lost)
    <2>1. billed \in Nat /\ spent \in Nat /\ DayLimit - 1 \in Nat
        BY AskingCount, LimitAssumption
    <2> HIDE DEF n, W
    <2> QED  BY <2>1, <1>3, <1>4, <1>5
<1> QED  BY <1>5, <1>6 DEF Budget

\* A call that ends is recorded, or lost.
LEMMA BudgetAnswered ==
    ASSUME JudgmentInv, Budget, NEW w \in Workers, At(w, "asked"),
           NEW t, t.step # "asked", worker' = [worker EXCEPT ![w] = t],
           NEW c \in Costs, billed' = billed + c,
           \/ lost' = lost /\ spent' \in Nat /\ spent' >= spent + c
           \/ lost' = lost + 1 /\ spent' = spent
    PROVE  Budget'
<1>1. Asking' = Asking \ {w} /\ IsFiniteSet(Asking) /\ w \in Asking
    BY OneMoves, AskingCount
<1> DEFINE n == Cardinality(Asking)
           m == Cardinality(Asking')
           W == Cardinality(Workers)
<1>2. n \in Nat /\ m \in Nat /\ n = m + 1 /\ W \in Nat /\ lost \in Nat
    <2>1. IsFiniteSet(Asking') /\ Cardinality(Asking') = Cardinality(Asking) - 1
        BY <1>1, FS_RemoveElement
    <2> QED  BY <2>1, AskingCount, FS_CardinalityType
<1>3. c \in Nat /\ c <= MaxCost /\ MaxCost \in Nat
    BY CostAssumption
<1> HIDE DEF n, m, W
<1>4. /\ MaxCost * n = MaxCost * m + MaxCost /\ MaxCost * m \in Nat
      /\ MaxCost * (W + lost) = MaxCost * W + MaxCost * lost
      /\ MaxCost * W \in Nat /\ MaxCost * lost \in Nat
    BY <1>2, Times
<1>5. /\ billed <= spent + MaxCost * lost
      /\ billed + MaxCost * n <= (DayLimit - 1) + MaxCost * (W + lost)
    BY DEF Budget, n, W
<1>6. billed \in Nat /\ spent \in Nat /\ DayLimit - 1 \in Nat
    BY AskingCount, LimitAssumption
<1>7. CASE lost' = lost /\ spent' \in Nat /\ spent' >= spent + c
    <2>1. /\ billed' <= spent' + MaxCost * lost
          /\ billed' + MaxCost * m <= (DayLimit - 1) + MaxCost * (W + lost)
        BY <1>3, <1>4, <1>5, <1>6, <1>7
    <2> QED  BY <1>7, <2>1 DEF Budget, m, W
<1>8. CASE lost' = lost + 1 /\ spent' = spent
    <2>1. /\ MaxCost * (lost + 1) = MaxCost * lost + MaxCost
          /\ MaxCost * (W + (lost + 1)) = MaxCost * W + MaxCost * (lost + 1)
        BY <1>2, Times
    <2>2. /\ billed' <= spent' + MaxCost * (lost + 1)
          /\ billed' + MaxCost * m <= (DayLimit - 1) + MaxCost * (W + (lost + 1))
        BY <1>3, <1>4, <1>5, <1>6, <1>8, <2>1
    <2> QED  BY <1>8, <2>2 DEF Budget, m, W
<1> QED  BY <1>7, <1>8

LEMMA StepBudget == JudgmentInv /\ Budget /\ [Next]_vars => Budget'
<1> SUFFICES ASSUME JudgmentInv, Budget, [Next]_vars PROVE Budget'
    OBVIOUS
<1>0. spent \in Nat /\ spent >= spent
    BY AskingCount
\* Steps that leave the workers and the money alone.
<1>1. ASSUME UNCHANGED <<worker, billed, lost, spent>> PROVE Budget'
    BY <1>0, <1>1, NothingBilled DEF Asking
<1>2. ASSUME NEW r \in Reports, PaperChecked(r) \/ ScanReport(r) PROVE Budget'
    BY <1>1, <1>2 DEF PaperChecked, ScanReport, working
<1>3. ASSUME NEW p \in Pages, NEW r \in Reports, OpenPage(p, r) PROVE Budget'
    BY <1>1, <1>3 DEF OpenPage, working
<1>4. ASSUME NEW p \in Pages, RetryPage(p) \/ PollRun(p) \/ PollRows(p) PROVE Budget'
    BY <1>1, <1>4 DEF RetryPage, PollRun, PollRows, working
<1>5. ASSUME NEW a \in Askers, Asks(a) PROVE Budget'
    BY <1>1, <1>5 DEF Asks, ReuseRun, NoRunToReuse, CreateRun, SendRun, RequestFails, working
<1>6. CASE DeliverAgain \/ UNCHANGED vars
    BY <1>1, <1>6 DEF DeliverAgain, working, vars
\* A worker that was not asking a judge, and is not.
<1>7. ASSUME NEW w \in Workers, NEW t, t.step # "asked", ~At(w, "asked"),
             worker' = [worker EXCEPT ![w] = t], UNCHANGED <<billed, lost>>,
             spent' \in Nat, spent' >= spent
      PROVE  Budget'
    <2>1. Asking' = Asking
        BY <1>7, OneMoves
    <2> QED  BY <1>7, <2>1, NothingBilled
<1>8. ASSUME NEW w \in Workers,
             \/ TakeMessage(w) \/ LockRun(w) \/ NotQueued(w) \/ ClaimRun(w) \/ OwnWork(w)
             \/ ReadRaised(w) \/ MarkFailed(w)
      PROVE  Budget'
    <2>1. /\ UNCHANGED <<billed, lost, spent>> /\ ~At(w, "asked")
        BY <1>8 DEF TakeMessage, LockRun, NotQueued, ClaimRun, OwnWork, ReadRaised, MarkFailed, At
    <2>2. \E t : t.step # "asked" /\ worker' = [worker EXCEPT ![w] = t]
        <3>1. Idle.step # "asked"
            BY DEF Idle
        <3>2. \A step, c : /\ step # "asked" => [worker[w] EXCEPT !.step = step].step # "asked"
                           /\ [worker[w] EXCEPT !.step = "walking", !.unsaved = c].step # "asked"
            BY Quiet DEF Worker
        <3>3. \A i : [Idle EXCEPT !.step = "taken", !.run = i].step # "asked"
            BY DEF Idle
        <3> QED  BY <1>8, <3>1, <3>2, <3>3
                 DEF TakeMessage, LockRun, NotQueued, ClaimRun, OwnWork, ReadRaised, MarkFailed, Go, Become
    <2> QED  BY <1>0, <1>7, <2>1, <2>2
\* A worker that saves what it has recorded.
<1>9. ASSUME NEW w \in Workers, NEW status, Finish(w, status), ~At(w, "asked") PROVE Budget'
    <2>1. worker[w].unsaved \in Nat /\ spent \in Nat
        BY Quiet DEF Worker
    <2>2. spent' \in Nat /\ spent' >= spent
        BY <1>9, <2>1 DEF Finish
    <2>3. Idle.step # "asked" /\ worker' = [worker EXCEPT ![w] = Idle] /\ UNCHANGED <<billed, lost>>
        BY <1>9 DEF Finish, Become, Idle
    <2> QED  BY <1>7, <1>9, <2>2, <2>3
<1>10. ASSUME NEW w \in Workers, NEW outcome, NEW c \in Nat, NEW failures, Write(w, outcome, c, failures)
       PROVE  /\ lost' = lost /\ spent' \in Nat /\ spent' >= spent + c /\ spent' >= spent
              /\ \E t : t.step # "asked" /\ worker' = [worker EXCEPT ![w] = t]
    <2>1. worker[w].unsaved \in Nat /\ spent \in Nat /\ spent' = spent + worker[w].unsaved + c
        BY <1>10, Quiet DEF Worker, Write, Saved
    <2> DEFINE step == IF worker[w].part = Items THEN "ending"
                       ELSE IF worker[w].part + 1 \in Sources THEN "source" ELSE "walking"
               t == [worker[w] EXCEPT !.unsaved = 0, !.failures = failures,
                        !.part = worker[w].part + 1, !.step = step]
    <2>2. step # "asked"
        OBVIOUS
    <2>3. worker' = [worker EXCEPT ![w] = t]
        BY <1>10 DEF Write, Become
    <2> HIDE DEF step
    <2>4. t.step # "asked"
        BY <2>2, Quiet DEF Worker
    <2> HIDE DEF t
    <2>5. spent' \in Nat /\ spent' >= spent + c /\ spent' >= spent
        BY <1>10, <2>1
    <2>6. lost' = lost
        BY <1>10 DEF Write
    <2> QED  BY <2>3, <2>4, <2>5, <2>6
<1>11. ASSUME NEW w \in Workers, Executes(w) PROVE Budget'
    <2>1. CASE LockRun(w) \/ NotQueued(w) \/ ClaimRun(w) \/ OwnWork(w) \/ ReadRaised(w) \/ MarkFailed(w)
        BY <1>8, <2>1
    <2>2. CASE PanelUnavailable(w) \/ StopAtLimit(w) \/ FinishRun(w)
        BY <1>9, <2>2 DEF PanelUnavailable, StopAtLimit, FinishRun, At
    <2>3. ASSUME NEW outcome, NEW failures, Write(w, outcome, 0, failures),
                 ~At(w, "asked"), UNCHANGED billed
          PROVE  Budget'
        BY <1>7, <1>10, <2>3
    <2>4. CASE WriteUnjudged(w) \/ SkipJudge(w)
        BY <2>3, <2>4 DEF WriteUnjudged, SkipJudge, At
    <2>5. CASE AskJudge(w)
        <3>1. CASE Write(w, "judged", 0, 0) /\ UNCHANGED <<answers, billed>>
            BY <2>3, <2>5, <3>1 DEF AskJudge, At
        <3>2. CASE Go(w, "asked") /\ UNCHANGED <<billed, lost, spent>>
            BY <2>5, <3>2, BudgetAsked DEF AskJudge
        <3> QED  BY <2>5, <3>1, <3>2 DEF AskJudge
    <2>6. CASE JudgeAnswers(w)
        <3>1. PICK c \in Costs : /\ At(w, "asked") /\ billed' = billed + c
                                 /\ \E o, f : Write(w, o, c, f)
            BY <2>6 DEF JudgeAnswers
        <3>2. c \in Nat
            BY CostAssumption
        <3>3. /\ lost' = lost /\ spent' \in Nat /\ spent' >= spent + c
              /\ \E t : t.step # "asked" /\ worker' = [worker EXCEPT ![w] = t]
            BY <1>10, <3>1, <3>2
        <3> QED  BY <3>1, <3>3, BudgetAnswered
    <2> QED  BY <1>11, <2>1, <2>2, <2>4, <2>5, <2>6 DEF Executes
<1>12. ASSUME NEW w \in Workers, Raise(w) \/ Die(w) PROVE Budget'
    <2>1. Unrecorded(w) /\ spent' = spent
        BY <1>12 DEF Raise, Die
    <2>2. \E t : t.step # "asked" /\ worker' = [worker EXCEPT ![w] = t]
        <3>1. Idle.step # "asked" /\ \A i : [Idle EXCEPT !.step = "raised", !.run = i].step # "asked"
            BY DEF Idle
        <3> QED  BY <1>12, <3>1 DEF Raise, Die, Become
    <2>3. CASE At(w, "asked")
        BY <2>1, <2>2, <2>3, BudgetAnswered DEF Unrecorded
    <2>4. CASE ~At(w, "asked")
        BY <1>0, <1>7, <2>1, <2>2, <2>4 DEF Unrecorded
    <2> QED  BY <2>3, <2>4
<1> QED  BY <1>2, <1>3, <1>4, <1>5, <1>6, <1>8, <1>11, <1>12 DEF Next

\* Judges are paid no more than the day's limit, one call for each worker and
\* one for each call whose cost was lost (judgment_runs.py:220, :401).
THEOREM JudgesPaidWithinDay == Spec => []BilledWithinDay
<1>1. Init => Budget
    BY InitBudget
<1>2. JudgmentInv /\ Budget /\ [Next]_vars => Budget'
    BY StepBudget
<1>3. JudgmentInv /\ Budget => BilledWithinDay
    <2> SUFFICES ASSUME JudgmentInv, Budget PROVE BilledWithinDay
        OBVIOUS
    <2>1. MaxCost * Cardinality(Asking) \in Nat
        BY AskingCount, Times
    <2>2. MaxCost * (Cardinality(Workers) + lost) \in Nat /\ DayLimit - 1 \in Nat /\ billed \in Nat
        <3>1. Cardinality(Workers) + lost \in Nat /\ billed \in Nat
            BY AskingCount
        <3> QED  BY <3>1, Times
    <2> QED  BY <2>1, <2>2 DEF Budget, BilledWithinDay
<1> QED  BY <1>1, <1>2, <1>3, JudgmentInvariant, PTL DEF Spec


-----------------------------------------------------------------------------
(* What a page shows                                                       *)

\* While no run is created, a page that polls shows the first results of the
\* newest run, as many as its cursor says.
Shows(p, i) ==
    /\ i = None => page[p].after = 0 /\ page[p].shown = Nothing
    /\ i # None => /\ page[p].after <= Len(rows[i])
                   /\ \A k \in Parts : page[p].shown[k] =
                         IF k <= page[p].after THEN rows[i][k].outcome ELSE None

Polling(p) == page[p].step \in {"polling", "reading"}
PageOK(p) ==
    /\ page[p].since <= created
    /\ Polling(p) /\ created <= page[p].since => Shows(p, Latest(page[p].report))
    /\ page[p].step = "reading" /\ created <= page[p].since => page[p].run = Latest(page[p].report)
    /\ page[p].step = "reading" /\ page[p].ended =>
          page[p].run \in Runs /\ run[page[p].run].status \in Ended

PagesInv == \A p \in Pages : PageOK(p)

\* A run keeps its report, an ended run stays ended, and rows are only added.
Grows == \A i \in Runs :
    /\ run'[i].report = run[i].report
    /\ run[i].status \in Ended => run'[i].status \in Ended
    /\ rows'[i] = rows[i] \/ \E x \in Row : rows'[i] = Append(rows[i], x)

LEMMA FinishGrows ==
    ASSUME JudgmentInv, NEW w \in Workers, NEW status \in Ended, Finish(w, status)
    PROVE  Grows
<1>1. /\ run' = [run EXCEPT ![worker[w].run].status = status,
                            ![worker[w].run].spend = @ + worker[w].unsaved]
      /\ rows' = rows
    BY DEF Finish
<1>2. \A i \in Runs : run[i] \in Run
    BY DEF JudgmentInv, TypeOK
<1>3. \A i \in Runs : /\ run'[i].report = run[i].report
                      /\ run'[i].status = run[i].status \/ run'[i].status = status
    BY <1>1, <1>2 DEF JudgmentInv, TypeOK, Run
<1> QED  BY <1>1, <1>3 DEF Grows

LEMMA StatusGrows ==
    ASSUME JudgmentInv, NEW j \in Runs, NEW status,
           status \in Ended \/ run[j].status \notin Ended,
           run' = [run EXCEPT ![j].status = status], rows' = rows
    PROVE  Grows
<1>1. \A i \in Runs : run[i] \in Run
    BY DEF JudgmentInv, TypeOK
<1>2. \A i \in Runs : /\ run'[i].report = run[i].report
                      /\ run'[i].status = IF i = j THEN status ELSE run[i].status
    BY <1>1 DEF JudgmentInv, TypeOK, Run
<1> QED  BY <1>2 DEF Grows

LEMMA WriteGrows ==
    ASSUME JudgmentInv, NEW w \in Workers, NEW outcome \in Outcomes, NEW cost, NEW failures,
           worker[w].step \in AtAPart, Write(w, outcome, cost, failures)
    PROVE  Grows
<1>1. /\ run' = [run EXCEPT ![worker[w].run].spend = @ + worker[w].unsaved + cost]
      /\ rows' = [rows EXCEPT ![worker[w].run] =
                    Append(@, [part |-> worker[w].part, outcome |-> outcome])]
    BY DEF Write, Saved
<1>2. /\ \A i \in Runs : run[i] \in Run
      /\ run \in [Runs -> Run] /\ rows \in [Runs -> Seq(Row)]
    BY DEF JudgmentInv, TypeOK
<1>3. [part |-> worker[w].part, outcome |-> outcome] \in Row
    BY Quiet DEF Row, Standing
<1>4. \A i \in Runs : run'[i].report = run[i].report /\ run'[i].status = run[i].status
    BY <1>1, <1>2 DEF Run
<1>5. \A i \in Runs : rows'[i] = rows[i] \/ \E x \in Row : rows'[i] = Append(rows[i], x)
    BY <1>1, <1>2, <1>3
<1> QED  BY <1>4, <1>5 DEF Grows

LEMMA ExecutesGrows ==
    ASSUME JudgmentInv, NEW w \in Workers, Executes(w)
    PROVE  Grows
<1>1. CASE LockRun(w) \/ NotQueued(w) \/ OwnWork(w) \/ ReadRaised(w)
    BY <1>1 DEF LockRun, NotQueued, OwnWork, ReadRaised, Grows
<1>2. CASE ClaimRun(w)
    <2>1. worker[w].run \in Runs /\ run[worker[w].run].status = "queued"
        BY <1>2, Quiet DEF ClaimRun, At, Standing
    <2> QED  BY <1>2, <2>1, StatusGrows DEF ClaimRun, Ended
<1>3. CASE PanelUnavailable(w) \/ StopAtLimit(w) \/ FinishRun(w)
    BY <1>3, FinishGrows DEF PanelUnavailable, StopAtLimit, FinishRun, Ended
<1>4. CASE WriteUnjudged(w) \/ SkipJudge(w)
    BY <1>4, WriteGrows DEF WriteUnjudged, SkipJudge, At, AtAPart, Outcomes
<1>5. CASE AskJudge(w)
    <2>1. CASE Write(w, "judged", 0, 0)
        BY <1>5, <2>1, WriteGrows DEF AskJudge, At, AtAPart, Outcomes
    <2>2. CASE UNCHANGED <<run, rows>>
        BY <2>2 DEF Grows
    <2> QED  BY <1>5, <2>1, <2>2 DEF AskJudge
<1>6. CASE JudgeAnswers(w)
    BY <1>6, WriteGrows DEF JudgeAnswers, At, AtAPart, Outcomes
<1>7. CASE MarkFailed(w)
    <2>1. worker[w].run \in Runs
        BY <1>7, Quiet DEF MarkFailed, At, Standing
    <2> QED  BY <1>7, <2>1, StatusGrows DEF MarkFailed, Ended
<1> QED  BY <1>1, <1>2, <1>3, <1>4, <1>5, <1>6, <1>7 DEF Executes

LEMMA RowsAre ==
    ASSUME JudgmentInv, NEW i \in Runs
    PROVE  /\ rows[i] \in Seq(Row) /\ Len(rows[i]) \in Nat
           /\ \A n \in 1 .. Len(rows[i]) : rows[i][n].part = n /\ rows[i][n] \in Row
BY DEF JudgmentInv, TypeOK, RunOK

\* A page that does nothing shows what it showed, of rows that are still there.
LEMMA PageKept ==
    ASSUME JudgmentInv, NEW p \in Pages, PageOK(p), Grows, created' = created,
           page'[p] = page[p]
    PROVE  PageOK(p)'
<1>1. Latest(page[p].report)' = Latest(page[p].report)
    <2>1. RunsOf(page[p].report)' = RunsOf(page[p].report)
        <3>1. \A i \in 1 .. created : i \in Runs
            BY BoundAssumption DEF JudgmentInv, TypeOK, Runs
        <3> QED  BY <3>1 DEF Grows, RunsOf
    <2> QED  BY <2>1 DEF Latest
<1>2. page[p] \in Page
    BY DEF JudgmentInv, TypeOK
<1>3. ASSUME NEW i, i = None \/ i \in Runs, Shows(p, i) PROVE Shows(p, i)'
    <2>1. CASE i = None
        BY <1>3, <2>1 DEF Shows
    <2>2. CASE i # None
        <3>1. rows[i] \in Seq(Row) /\ Len(rows[i]) \in Nat
            BY <1>3, <2>2, RowsAre
        <3>2. page[p].after \in Nat /\ page[p].after <= Len(rows[i])
            BY <1>2, <1>3, <2>2 DEF Shows, Page
        <3>3. /\ Len(rows'[i]) >= Len(rows[i]) /\ Len(rows'[i]) \in Nat
              /\ \A k \in 1 .. Len(rows[i]) : rows'[i][k] = rows[i][k]
            <4>1. CASE rows'[i] = rows[i]
                BY <3>1, <4>1
            <4>2. CASE \E x \in Row : rows'[i] = Append(rows[i], x)
                BY <3>1, <4>2
            <4> QED  BY <1>3, <2>2, <4>1, <4>2 DEF Grows
        <3>4. \A k \in Parts : k <= page[p].after => rows'[i][k] = rows[i][k]
            BY <3>1, <3>2, <3>3, PartsAssumption DEF Parts
        <3>5. page'[p].after <= Len(rows'[i])
            BY <3>1, <3>2, <3>3
        <3> QED  BY <1>3, <2>2, <3>4, <3>5 DEF Shows
    <2> QED  BY <2>1, <2>2
<1>4. page[p].step = "reading" /\ page[p].ended => run'[page[p].run].status \in Ended
    BY DEF PageOK, Grows
<1>5. Shows(p, Latest(page[p].report)) => Shows(p, Latest(page[p].report))'
    <2>1. Latest(page[p].report) = None \/ Latest(page[p].report) \in Runs
        BY LatestIs
    <2> QED  BY <1>1, <1>3, <2>1 DEF Shows
<1> QED  BY <1>1, <1>4, <1>5 DEF PageOK, Polling


\* A page that does not poll shows nothing in particular.
LEMMA PageRests ==
    ASSUME NEW p \in Pages, page'[p].step \notin {"polling", "reading"},
           page'[p].since <= created'
    PROVE  PageOK(p)'
BY DEF PageOK, Polling

\* What the newest run of a report is, before and after a step.
LEMMA SameLatest ==
    ASSUME JudgmentInv, Grows, created' = created, NEW r
    PROVE  /\ Latest(r)' = Latest(r)
           /\ Latest(r) = None \/ Latest(r) \in Runs
<1>1. \A i \in 1 .. created : i \in Runs
    BY BoundAssumption DEF JudgmentInv, TypeOK, Runs
<1>2. RunsOf(r)' = RunsOf(r)
    BY <1>1 DEF Grows, RunsOf
<1> QED  BY <1>2, LatestIs DEF Latest

LEMMA BeginsToPoll ==
    ASSUME JudgmentInv, Grows, created' = created, NEW p \in Pages, NEW r,
           page'[p] = [Closed EXCEPT !.step = "polling", !.report = r, !.since = created]
    PROVE  PageOK(p)'
<1>1. created \in Nat
    BY BoundAssumption DEF JudgmentInv, TypeOK
<1>2. /\ page'[p].step = "polling" /\ page'[p].since = created /\ page'[p].report = r
      /\ page'[p].after = 0 /\ page'[p].shown = Nothing
    BY DEF Closed
<1>3. ASSUME NEW i \in Runs PROVE Len(rows'[i]) >= 0
    <2>1. rows[i] \in Seq(Row)
        BY RowsAre
    <2> QED  BY <2>1, <1>3 DEF Grows
<1>4. \A k \in Parts : ~(k <= 0) /\ Nothing[k] = None
    BY PartsAssumption DEF Parts, Nothing
<1>5. Shows(p, Latest(page[p].report))'
    <2>1. Latest(page[p].report)' = Latest(r)
        <3>1. Latest(page[p].report)' = Latest(r)'
            BY <1>2 DEF Latest, RunsOf
        <3> QED  BY <3>1, SameLatest
    <2>2. Latest(r) = None \/ Latest(r) \in Runs
        BY SameLatest
    <2> QED  BY <1>2, <1>3, <1>4, <2>1, <2>2 DEF Shows
<1> QED  BY <1>1, <1>2, <1>5 DEF PageOK, Polling

LEMMA AnsweredShows ==
    ASSUME JudgmentInv, PagesInv, Grows, created' = created, NEW a \in Askers, NEW ok \in BOOLEAN,
           Answered(a, ok), NEW p \in Pages
    PROVE  PageOK(p)'
<1>0. page \in [Pages -> Page] /\ page[p] \in Page /\ created \in Nat /\ PageOK(p)
    BY BoundAssumption DEF JudgmentInv, TypeOK, PagesInv
<1>1. CASE p # a
    <2>1. page'[p] = page[p]
        BY <1>0, <1>1 DEF Answered
    <2> QED  BY <1>0, <2>1, PageKept
<1>2. CASE p = a /\ page' = [page EXCEPT ![a].step = "finished"]
    <2>1. page'[p].step = "finished" /\ page'[p].since = page[p].since
        BY <1>0, <1>2 DEF Page
    <2> QED  BY <1>0, <2>1, PageRests DEF PageOK
<1>3. CASE p = a /\ page' = [page EXCEPT ![a] = [Closed EXCEPT !.step = "polling",
                                !.report = request[a].report, !.since = created']]
    <2>1. page'[p] = [Closed EXCEPT !.step = "polling", !.report = request[a].report,
                         !.since = created]
        BY <1>0, <1>3
    <2> QED  BY <2>1, BeginsToPoll
<1> QED  BY <1>1, <1>2, <1>3 DEF Answered

LEMMA PollRunShows ==
    ASSUME JudgmentInv, NEW p \in Pages, PageOK(p), PollRun(p)
    PROVE  PageOK(p)'
<1> DEFINE i == Latest(page[p].report)
<1>0. page[p] \in Page /\ page \in [Pages -> Page] /\ (i = None \/ i \in Runs)
    BY LatestIs DEF JudgmentInv, TypeOK
<1>1. /\ page' = [page EXCEPT ![p].step = "reading", ![p].run = i,
                              ![p].ended = (i # None /\ run[i].status \in Ended)]
      /\ page[p].step = "polling" /\ created' = created /\ run' = run /\ rows' = rows
    BY DEF PollRun, asking, working
<1>2. Latest(page[p].report)' = i
    <2>1. page'[p].report = page[p].report
        <3> HIDE DEF i
        <3> QED  BY <1>0, <1>1 DEF Page
    <2>2. created' = created /\ run' = run
        BY <1>1
    <2>3. RunsOf(page[p].report)' = RunsOf(page[p].report)
        BY <2>1, <2>2 DEF RunsOf
    <2> QED  BY <2>3 DEF Latest
<1> HIDE DEF i
<1>3. /\ page'[p].step = "reading" /\ page'[p].run = i /\ page'[p].since = page[p].since
      /\ page'[p].ended <=> (i # None /\ run[i].status \in Ended)
      /\ page'[p].after = page[p].after /\ page'[p].shown = page[p].shown
    BY <1>0, <1>1 DEF Page
<1>4. created <= page[p].since => Shows(p, i)
    BY <1>1 DEF PageOK, Polling, i
<1>5. Shows(p, i) => Shows(p, Latest(page[p].report))'
    BY <1>1, <1>2, <1>3 DEF Shows
<1> QED  BY <1>0, <1>1, <1>2, <1>3, <1>4, <1>5 DEF PageOK, Polling

\* The next rows after the cursor, and no others.
LEMMA FreshRows ==
    ASSUME JudgmentInv, NEW p \in Pages, page[p].run \in Runs,
           page[p].after <= Len(rows[page[p].run])
    PROVE  \E n \in Nat :
              /\ n >= page[p].after /\ n <= Len(rows[page[p].run])
              /\ Fresh(p) = (page[p].after + 1) .. n
              /\ Cardinality(Fresh(p)) = n - page[p].after
              /\ Fresh(p) = {} => n = Len(rows[page[p].run])
<1> DEFINE a == page[p].after
           l == Len(rows[page[p].run])
           n == IF l <= a + PageSize THEN l ELSE a + PageSize
<1>1. a \in Nat /\ l \in Nat /\ a <= l /\ DOMAIN rows[page[p].run] = 1 .. l
    BY RowsAre DEF JudgmentInv, TypeOK, Page
<1>2. PageSize \in Nat /\ PageSize > 0
    BY BoundAssumption
<1>3. page[p].run # None
    BY Numbers
<1>4. Fresh(p) = {m \in 1 .. l : m > a /\ m <= a + PageSize}
    BY <1>1, <1>3 DEF Fresh
<1> HIDE DEF a, l
<1>5. n \in Nat /\ n >= a /\ n <= l
    BY <1>1, <1>2
<1>6. Fresh(p) = (a + 1) .. n
    BY <1>1, <1>2, <1>4
<1> HIDE DEF n
<1>7. Cardinality((a + 1) .. n) = n - a
    <2>1. a + 1 \in Int /\ n \in Int /\ n >= a /\ a \in Int
        BY <1>1, <1>5
    <2>2. Cardinality((a + 1) .. n) = IF a + 1 > n THEN 0 ELSE n - (a + 1) + 1
        BY <2>1, FS_Interval
    <2> QED  BY <2>1, <2>2
<1>8. Fresh(p) = {} => n = l
    <2> SUFFICES ASSUME n # l PROVE a + 1 \in (a + 1) .. n
        BY <1>6
    <2> QED  BY <1>1, <1>2 DEF n
<1> QED  BY <1>5, <1>6, <1>7, <1>8 DEF a, l


LEMMA PollRowsShows ==
    ASSUME JudgmentInv, NEW p \in Pages, PageOK(p), PollRows(p)
    PROVE  /\ PageOK(p)'
           /\ page'[p].step \in {"polling", "finished"}
           /\ page'[p].step = "finished" /\ created <= page[p].since =>
                 /\ page[p].ended /\ page'[p].shown = page[p].shown
                 /\ page[p].run # None => page[p].after = Len(rows[page[p].run])
<1> DEFINE i == page[p].run
           fresh == Fresh(p)
           shown == [k \in Parts |->
              IF \E n \in fresh : rows[i][n].part = k
              THEN rows[i][CHOOSE n \in fresh : rows[i][n].part = k].outcome
              ELSE page[p].shown[k]]
           step == IF page[p].ended /\ LastAnswer(fresh) THEN "finished" ELSE "polling"
<1>0. /\ page[p] \in Page /\ page \in [Pages -> Page] /\ (i = None \/ i \in Runs)
      /\ page[p].after \in Nat /\ page[p].shown \in [Parts -> Outcomes \cup {None}]
      /\ Cardinality(fresh) \in Nat
    BY FreshIs DEF JudgmentInv, TypeOK, Page
<1>1. /\ page' = [page EXCEPT ![p].shown = shown, ![p].after = @ + Cardinality(fresh),
                     ![p].step = step, ![p].run = None, ![p].ended = FALSE]
      /\ page[p].step = "reading" /\ created' = created /\ run' = run /\ rows' = rows
    BY DEF PollRows, asking, working
<1>2. step \in {"polling", "finished"} /\ (step = "finished" => page[p].ended /\ fresh = {})
    BY DEF LastAnswer
<1>3. fresh = {} => shown = page[p].shown
    BY <1>0
<1>4. ASSUME created <= page[p].since, i = None
      PROVE  shown = Nothing /\ page[p].after + Cardinality(fresh) = 0
    <2>1. page[p].after = 0 /\ page[p].shown = Nothing
        BY <1>1, <1>4 DEF PageOK, Polling, Shows
    <2>2. fresh = {} /\ Cardinality(fresh) = 0
        BY <1>4, FreshIs, FS_EmptySet
    <2> HIDE DEF shown, fresh
    <2> QED  BY <1>3, <2>1, <2>2
<1>5. ASSUME created <= page[p].since, i # None
      PROVE  /\ page[p].after + Cardinality(fresh) <= Len(rows[i])
             /\ \A k \in Parts : shown[k] = IF k <= page[p].after + Cardinality(fresh)
                                            THEN rows[i][k].outcome ELSE None
             /\ fresh = {} => page[p].after = Len(rows[i])
    <2>1. /\ page[p].after <= Len(rows[i])
          /\ \A k \in Parts : page[p].shown[k] =
                IF k <= page[p].after THEN rows[i][k].outcome ELSE None
        BY <1>1, <1>5 DEF PageOK, Polling, Shows
    <2>2. PICK n \in Nat :
              /\ n >= page[p].after /\ n <= Len(rows[i])
              /\ fresh = (page[p].after + 1) .. n
              /\ Cardinality(fresh) = n - page[p].after
              /\ fresh = {} => n = Len(rows[i])
        BY <1>0, <1>5, <2>1, FreshRows
    <2>3. page[p].after + Cardinality(fresh) = n
        <3> HIDE DEF fresh
        <3> QED  BY <1>0, <2>2
    <2>4. \A m \in fresh : rows[i][m].part = m
        <3>1. Len(rows[i]) \in Nat /\ \A m \in 1 .. Len(rows[i]) : rows[i][m].part = m
            BY <1>0, <1>5, RowsAre
        <3>2. \A m \in fresh : m \in 1 .. Len(rows[i])
            <4> HIDE DEF fresh
            <4> QED  BY <1>0, <2>2, <3>1
        <3> QED  BY <3>1, <3>2
    <2>5. ASSUME NEW k \in Parts
          PROVE  shown[k] = IF k <= n THEN rows[i][k].outcome ELSE None
        <3>0. k \in Nat
            BY Numbers
        <3>1. CASE k \in fresh
            <4>1. rows[i][k].part = k /\ \A m \in fresh : rows[i][m].part = k => m = k
                BY <2>4, <3>1
            <4>2. (CHOOSE m \in fresh : rows[i][m].part = k) = k
                <5> HIDE DEF fresh
                <5> QED  BY <3>1, <4>1
            <4>3. shown[k] = rows[i][k].outcome
                <5> HIDE DEF fresh
                <5> QED  BY <3>1, <4>1, <4>2
            <4>4. k <= n
                <5> HIDE DEF fresh
                <5> QED  BY <1>0, <2>2, <3>0, <3>1
            <4> HIDE DEF shown, fresh, i
            <4> QED  BY <4>3, <4>4
        <3>2. CASE k \notin fresh
            <4>1. shown[k] = page[p].shown[k]
                BY <2>4, <3>2
            <4>2. k <= page[p].after \/ k > n
                <5> HIDE DEF fresh
                <5> QED  BY <1>0, <2>2, <3>0, <3>2
            <4>3. page[p].shown[k] = IF k <= page[p].after THEN rows[i][k].outcome ELSE None
                BY <2>1
            <4> HIDE DEF shown, fresh, i
            <4> QED  BY <1>0, <2>2, <3>0, <4>1, <4>2, <4>3
        <3> QED  BY <3>1, <3>2
    <2>6. fresh = {} => page[p].after = Len(rows[i])
        <3>1. fresh = {} => Cardinality(fresh) = 0
            BY FS_EmptySet
        <3> HIDE DEF fresh
        <3> QED  BY <1>0, <2>2, <2>3, <3>1
    <2> HIDE DEF shown, fresh
    <2> QED  BY <2>2, <2>3, <2>5, <2>6
<1> HIDE DEF shown, fresh, step
<1>6. /\ page'[p].shown = shown /\ page'[p].after = page[p].after + Cardinality(fresh)
      /\ page'[p].step = step /\ page'[p].report = page[p].report
      /\ page'[p].since = page[p].since
    BY <1>0, <1>1 DEF Page
<1>7. Latest(page[p].report)' = Latest(page[p].report)
    <2>1. RunsOf(page[p].report)' = RunsOf(page[p].report)
        BY <1>1, <1>6 DEF RunsOf
    <2> QED  BY <2>1 DEF Latest
<1>8. created <= page[p].since => i = Latest(page[p].report)
    BY <1>1 DEF PageOK
<1>9. created <= page[p].since => Shows(p, Latest(page[p].report))'
    <2> SUFFICES ASSUME created <= page[p].since PROVE Shows(p, Latest(page[p].report))'
        OBVIOUS
    <2>1. Latest(page[p].report)' = i
        BY <1>7, <1>8
    <2> HIDE DEF i
    <2> QED  BY <1>1, <1>4, <1>5, <1>6, <2>1 DEF Shows
<1>10. PageOK(p)'
    BY <1>1, <1>2, <1>6, <1>9 DEF PageOK, Polling
<1> QED  BY <1>0, <1>2, <1>3, <1>5, <1>6, <1>10


LEMMA InitPages == Init => PagesInv
<1> SUFFICES ASSUME Init, NEW p \in Pages PROVE PageOK(p)
    BY DEF PagesInv
<1>1. page[p] = Closed /\ created = 0
    BY DEF Init
<1> QED  BY <1>1 DEF PageOK, Polling, Closed

\* A new run is newer than every page, and it is not the run of any answer.
LEMMA PagesOutdated ==
    ASSUME JudgmentInv, PagesInv, NEW a \in Askers, CreateRun(a), NEW p \in Pages
    PROVE  PageOK(p)'
<1>1. /\ created' = created + 1 /\ page' = page /\ rows' = rows
      /\ run' = [run EXCEPT ![created + 1] = [NoRun EXCEPT !.report = request[a].report,
                    !.auto = (a = Scanner), !.status = "queued"]]
      /\ created < MaxRuns
    BY DEF CreateRun, working
<1>2. created \in Nat /\ page[p] \in Page /\ page[p].since \in Nat
    BY BoundAssumption DEF JudgmentInv, TypeOK, Page
<1>3. PageOK(p)
    BY DEF PagesInv
<1>4. page[p].since <= created' /\ ~(created' <= page[p].since)
    BY <1>1, <1>2, <1>3 DEF PageOK
<1>5. created + 1 \in Runs /\ created + 1 > created
    BY <1>1, <1>2, BoundAssumption DEF Runs
<1>6. run[created + 1].status = "none"
    BY <1>5 DEF JudgmentInv, RunOK
<1>7. \A i \in Runs : run[i].status \in Ended => run'[i].status \in Ended
    BY <1>1, <1>6 DEF Ended, JudgmentInv, TypeOK
<1> QED  BY <1>1, <1>3, <1>4, <1>7 DEF PageOK

LEMMA StepAsksPages ==
    ASSUME JudgmentInv, PagesInv, NEW a \in Askers, Asks(a), NEW p \in Pages
    PROVE  PageOK(p)'
<1>1. CASE CreateRun(a)
    BY <1>1, PagesOutdated
<1>2. CASE NoRunToReuse(a)
    <2>1. Grows /\ created' = created /\ page'[p] = page[p]
        BY <1>2 DEF NoRunToReuse, working, Grows
    <2> QED  BY <2>1, PageKept DEF PagesInv
<1>3. CASE ReuseRun(a) \/ SendRun(a)
    <2>1. Grows /\ created' = created /\ Answered(a, TRUE)
        BY <1>3 DEF ReuseRun, SendRun, working, Grows
    <2> QED  BY <2>1, AnsweredShows
<1>4. CASE RequestFails(a)
    <2>1. Grows /\ created' = created /\ Answered(a, FALSE)
        BY <1>4 DEF RequestFails, working, Grows
    <2> QED  BY <2>1, AnsweredShows
<1> QED  BY <1>1, <1>2, <1>3, <1>4 DEF Asks

LEMMA StepPages == JudgmentInv /\ PagesInv /\ [Next]_vars => PagesInv'
<1> SUFFICES ASSUME JudgmentInv, PagesInv, [Next]_vars, NEW p \in Pages PROVE PageOK(p)'
    BY DEF PagesInv
<1>0. PageOK(p) /\ page[p] \in Page /\ page \in [Pages -> Page]
    BY DEF PagesInv, JudgmentInv, TypeOK
<1>1. ASSUME NEW q \in Pages, NEW r \in Reports, OpenPage(q, r) PROVE PageOK(p)'
    <2>1. Grows /\ created' = created
        BY <1>1 DEF OpenPage, working, Grows
    <2>2. CASE p # q
        BY <1>0, <1>1, <2>1, <2>2, PageKept DEF OpenPage
    <2>3. CASE p = q
        <3>1. page'[p].step = "asking" /\ page'[p].since = page[p].since
            BY <1>0, <1>1, <2>3 DEF OpenPage, Page
        <3> QED  BY <1>0, <2>1, <3>1, PageRests DEF PageOK
    <2> QED  BY <2>2, <2>3
<1>2. ASSUME NEW q \in Pages, RetryPage(q) PROVE PageOK(p)'
    <2>1. Grows /\ created' = created
        BY <1>2 DEF RetryPage, working, Grows
    <2>2. CASE p # q
        BY <1>0, <1>2, <2>1, <2>2, PageKept DEF RetryPage
    <2>3. CASE p = q
        <3>1. page'[p].step = "asking" /\ page'[p].since = page[p].since
            BY <1>0, <1>2, <2>3 DEF RetryPage, Page
        <3> QED  BY <1>0, <2>1, <3>1, PageRests DEF PageOK
    <2> QED  BY <2>2, <2>3
<1>3. ASSUME NEW q \in Pages, PollRun(q) PROVE PageOK(p)'
    <2>1. CASE p = q
        BY <1>0, <1>3, <2>1, PollRunShows
    <2>2. CASE p # q
        <3>1. Grows /\ created' = created /\ page'[p] = page[p]
            BY <1>0, <1>3, <2>2 DEF PollRun, asking, working, Grows
        <3> QED  BY <1>0, <3>1, PageKept
    <2> QED  BY <2>1, <2>2
<1>4. ASSUME NEW q \in Pages, PollRows(q) PROVE PageOK(p)'
    <2>1. CASE p = q
        BY <1>0, <1>4, <2>1, PollRowsShows
    <2>2. CASE p # q
        <3>1. Grows /\ created' = created /\ page'[p] = page[p]
            BY <1>0, <1>4, <2>2 DEF PollRows, asking, working, Grows
        <3> QED  BY <1>0, <3>1, PageKept
    <2> QED  BY <2>1, <2>2
<1>5. ASSUME NEW w \in Workers, Executes(w) PROVE PageOK(p)'
    <2>1. Grows
        BY <1>5, ExecutesGrows
    <2>2. created' = created /\ page' = page
        BY <1>5 DEF Executes, LockRun, NotQueued, ClaimRun, PanelUnavailable, OwnWork,
                    WriteUnjudged, StopAtLimit, SkipJudge, AskJudge, JudgeAnswers, FinishRun,
                    ReadRaised, MarkFailed, Finish, Write, asking
    <2> QED  BY <1>0, <2>1, <2>2, PageKept
<1>6. ASSUME UNCHANGED <<created, run, rows, page>> PROVE PageOK(p)'
    <2>1. Grows
        BY <1>6 DEF Grows
    <2> QED  BY <1>0, <1>6, <2>1, PageKept
<1>7. ASSUME NEW r \in Reports, PaperChecked(r) \/ ScanReport(r) PROVE PageOK(p)'
    BY <1>6, <1>7 DEF PaperChecked, ScanReport, working
<1>8. ASSUME NEW w \in Workers, TakeMessage(w) \/ Raise(w) \/ Die(w) PROVE PageOK(p)'
    BY <1>6, <1>8 DEF TakeMessage, Raise, Die, asking
<1>9. CASE DeliverAgain
    BY <1>6, <1>9 DEF DeliverAgain, asking, working
<1>10. CASE UNCHANGED vars
    BY <1>6, <1>10 DEF vars
<1> QED  BY <1>1, <1>2, <1>3, <1>4, <1>5, <1>7, <1>8, <1>9, <1>10, StepAsksPages DEF Next

THEOREM PagesInvariant == Spec => [](JudgmentInv /\ PagesInv)
<1>1. Init => JudgmentInv /\ PagesInv
    BY InitJudgment, InitPages
<1>2. JudgmentInv /\ PagesInv /\ [Next]_vars => (JudgmentInv /\ PagesInv)'
    BY StepJudgment, StepPages
<1> QED  BY <1>1, <1>2, PTL DEF Spec

\* Only an answer to its poll finishes a page that polls.
LEMMA OnlyPollsFinish ==
    ASSUME JudgmentInv, [Next]_vars, NEW p \in Pages,
           page[p].step = "reading", page'[p].step = "finished"
    PROVE  PollRows(p)
<1>0. page[p] \in Page /\ page \in [Pages -> Page]
    BY DEF JudgmentInv, TypeOK
<1>1. ASSUME page'[p] = page[p] PROVE FALSE
    BY <1>1
<1>2. ASSUME NEW q \in Pages, NEW r \in Reports, OpenPage(q, r) PROVE FALSE
    BY <1>0, <1>2 DEF OpenPage
<1>3. ASSUME NEW q \in Pages, RetryPage(q) PROVE FALSE
    BY <1>0, <1>3 DEF RetryPage
<1>4. ASSUME NEW q \in Pages, PollRun(q) PROVE FALSE
    <2>1. page'[p].step = "reading" \/ page'[p] = page[p]
        BY <1>0, <1>4 DEF PollRun, Page
    <2> QED  BY <2>1
<1>5. ASSUME NEW q \in Pages, PollRows(q), q # p PROVE FALSE
    <2>1. page'[p] = page[p]
        BY <1>0, <1>5 DEF PollRows
    <2> QED  BY <1>1, <2>1
<1>6. ASSUME NEW w \in Workers, Executes(w) PROVE FALSE
    <2>1. page' = page
        BY <1>6 DEF Executes, LockRun, NotQueued, ClaimRun, PanelUnavailable, OwnWork,
                    WriteUnjudged, StopAtLimit, SkipJudge, AskJudge, JudgeAnswers, FinishRun,
                    ReadRaised, MarkFailed, Finish, Write, asking
    <2> QED  BY <1>1, <2>1
<1>7. ASSUME NEW a \in Askers, Asks(a) PROVE FALSE
    <2>1. CASE NoRunToReuse(a) \/ CreateRun(a)
        BY <1>1, <2>1 DEF NoRunToReuse, CreateRun
    <2>2. CASE \E ok \in BOOLEAN : request[a].step # "none" /\ Answered(a, ok)
        <3>1. a # p
            BY <2>2 DEF JudgmentInv, Addressed
        <3>2. page'[p] = page[p]
            BY <1>0, <2>2, <3>1 DEF Answered
        <3> QED  BY <1>1, <3>2
    <2> QED  BY <1>7, <2>1, <2>2 DEF Asks, ReuseRun, SendRun, RequestFails
<1>8. ASSUME NEW r \in Reports, PaperChecked(r) \/ ScanReport(r) PROVE FALSE
    BY <1>1, <1>8 DEF PaperChecked, ScanReport
<1>9. ASSUME NEW w \in Workers, TakeMessage(w) \/ Raise(w) \/ Die(w) PROVE FALSE
    BY <1>1, <1>9 DEF TakeMessage, Raise, Die
<1>10. ~DeliverAgain /\ ~UNCHANGED vars
    BY <1>1 DEF DeliverAgain, vars
<1> QED  BY <1>2, <1>3, <1>4, <1>5, <1>6, <1>7, <1>8, <1>9, <1>10 DEF Next

\* Nobody walks a run that has ended and was not marked failed.
LEMMA NobodyWalks ==
    ASSUME JudgmentInv, NEW w \in Workers, Walking(w),
           NEW i, i # None => i \in Runs /\ run[i].status \in Ended /\ run[i].status # "failed"
    PROVE  worker[w].run # i
<1>1. worker[w].run \in 1 .. created /\ Standing(w)
    BY DEF JudgmentInv, Standing, Walking
<1>2. worker[w].run # None
    BY <1>1, AskerAssumption, BoundAssumption DEF JudgmentInv, TypeOK
<1>3. run[worker[w].run].status \in {"queued", "running", "failed"}
    BY <1>1 DEF Standing, Walking, OnItsWay
<1> QED  BY <1>2, <1>3 DEF Ended

\* A page that stops polling shows every result of the run it read, and nobody
\* will add one, if no run was created since the page began and the run was not
\* marked failed while it was walked (report_judgment.js:327).
THEOREM FinishedPagesAreComplete == Spec => FinishedPageIsComplete
<1>1. ASSUME JudgmentInv, PagesInv, [Next]_vars, NEW p \in Pages,
             page[p].step = "reading", page'[p].step = "finished", Undisturbed(p)
      PROVE  /\ Complete(p)
             /\ \A w \in Workers : Walking(w) => worker[w].run # page[p].run
    <2> DEFINE i == page[p].run
    <2>1. PollRows(p) /\ PageOK(p) /\ created <= page[p].since
        BY <1>1, OnlyPollsFinish DEF PagesInv, Undisturbed
    <2>2. /\ page[p].ended /\ page'[p].shown = page[p].shown
          /\ i # None => page[p].after = Len(rows[i])
        BY <1>1, <2>1, PollRowsShows
    <2>3. i \in Runs /\ run[i].status \in Ended
        BY <1>1, <2>1, <2>2 DEF PageOK
    <2>4. i # None /\ run[i].status # "failed"
        BY <1>1, <2>3, Numbers DEF Undisturbed
    <2>5. \A k \in Parts : page'[p].shown[k] = IF k <= Len(rows[i]) THEN rows[i][k].outcome ELSE None
        BY <1>1, <2>1, <2>2, <2>4 DEF PageOK, Polling, Shows
    <2>6. \A k \in Parts : k <= Len(rows[i]) <=> k \in DOMAIN rows[i]
        <3>1. DOMAIN rows[i] = 1 .. Len(rows[i]) /\ Len(rows[i]) \in Nat
            BY <1>1, <2>3, RowsAre
        <3> QED  BY <3>1, PartsAssumption DEF Parts
    <2>7. Complete(p)
        <3> HIDE DEF i
        <3>1. \A k \in Parts : page'[p].shown[k] = IF k \in DOMAIN rows[i] THEN rows[i][k].outcome ELSE None
            BY <2>5, <2>6
        <3> QED  BY <3>1 DEF Complete, i
    <2>8. \A w \in Workers : Walking(w) => worker[w].run # i
        BY <1>1, <2>3, <2>4, NobodyWalks
    <2> QED  BY <2>7, <2>8
<1>2. JudgmentInv /\ PagesInv /\ [Next]_vars =>
        \A p \in Pages : /\ page[p].step = "reading" /\ page'[p].step = "finished"
                         /\ Undisturbed(p)
                         => /\ Complete(p)
                            /\ \A w \in Workers : Walking(w) => worker[w].run # page[p].run
    BY <1>1
<1> QED  BY <1>2, PagesInvariant, PTL DEF Spec, FinishedPageIsComplete

=============================================================================
