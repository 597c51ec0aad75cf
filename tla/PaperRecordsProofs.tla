------------------------- MODULE PaperRecordsProofs -------------------------
(* Inductive invariants and theorems about PaperRecords, for any numbers of  *)
(* checks, versions and visitors.                                            *)
EXTENDS PaperRecords, WellFoundedInduction, TLAPS

-----------------------------------------------------------------------------
(* What the records and the sweep agree on. *)

\* The rows: checks are created in order, their versions are among those they
\* made, a check at work has room for another, and what is judged exists.
RowsOK ==
    /\ \A j \in Jobs : j > created => job[j] = NoJob /\ made[j] = 0
    /\ \A j \in Jobs : j <= created => job[j].status # "none"
    /\ \A j \in Jobs : versions[j] \subseteq 1 .. made[j]
    /\ \A j \in Jobs : Is(j, "working") => made[j] < MaxVersions
    /\ \A j \in Jobs : job[j].judged => Exists(j)

\* The sweep: what it still goes through exists, and what it has read of the
\* check it deletes was true and has only been added to.
Deletes == {"ids", "file", "copy", "record"}
SweepOK ==
    /\ sweep.step \in {"expiring", "keeping"} => sweep.phase = sweep.step
    /\ \A k \in sweep.todo : Exists(k)
    /\ sweep.step \in Deletes \cup {"older"} =>
          sweep.job \in Jobs /\ Exists(sweep.job) /\ sweep.job \notin sweep.todo
    /\ sweep.step = "older" => sweep.latest \in Rows(sweep.job)
    /\ sweep.step \in Deletes /\ Replaces =>
          sweep.latest \in Reports /\ Opens(sweep.latest) /\ sweep.latest[1] # sweep.job
    /\ sweep.step \in {"file", "copy", "record"} =>
          \A r \in sweep.ids : r[1] = sweep.job /\ r[2] <= made[sweep.job]
    /\ sweep.step \in {"copy", "record"} => sweep.job \notin file
    /\ sweep.step = "record" => sweep.job \notin copy \/ Unread # {}

RecordsInv == TypeOK /\ RowsOK /\ SweepOK /\ AddressesOpen /\ NoBytesWithoutRecord

-----------------------------------------------------------------------------
(* Numbers *)

\* Largest and Smallest are in the set they are of, if that is not empty.
LEMMA Minimum ==
    ASSUME NEW s, s \subseteq Nat, s # {}
    PROVE  \E x \in s : \A y \in s : x <= y
<1>1. PICK x \in s : \A y \in s : ~ (<<y, x>> \in OpToRel(<, Nat))
    BY NatLessThanWellFounded, WFMin, Zenon
<1>2. \A y \in Nat : <<y, x>> \notin OpToRel(<, Nat) => x <= y
    BY DEF OpToRel
<1> QED  BY <1>1, <1>2

LEMMA SmallestIsOne ==
    ASSUME NEW s, s \subseteq Nat, s # {}
    PROVE  Smallest(s) \in s
BY Minimum DEF Smallest

LEMMA LargestIsOne ==
    ASSUME NEW n \in Nat, NEW s, s \subseteq 1 .. n, s # {}
    PROVE  Largest(s) \in s
<1> DEFINE t == {d \in Nat : n - d \in s}
<1>1. \A m \in s : m \in Nat /\ n - m \in Nat /\ n - (n - m) = m
    OBVIOUS
<1>2. \A m \in s : n - m \in t
    BY <1>1
<1>3. PICK d \in t : \A y \in t : d <= y
    <2>1. t \subseteq Nat /\ t # {}
        BY <1>2
    <2> HIDE DEF t
    <2> QED  BY <2>1, Minimum
<1>4. n - d \in s /\ d \in Nat
    BY <1>3
<1>5. ASSUME NEW k \in s PROVE k <= n - d
    <2>1. k \in Nat /\ d <= n - k
        BY <1>1, <1>2, <1>3
    <2> QED  BY <2>1, <1>4
<1> QED  BY <1>4, <1>5 DEF Largest

-----------------------------------------------------------------------------
(* What the actions of the others leave of the sweep and of the addresses *)

LEMMA InitHolds == Init => RecordsInv
<1> SUFFICES ASSUME Init PROVE RecordsInv
    OBVIOUS
<1> USE BoundAssumption DEF Init, Jobs, Reports
<1>1. TypeOK
    <2>1. job \in [Jobs -> Job]
        BY DEF Job, NoJob, Submitted
    <2>2. versions \in [Jobs -> SUBSET (1 .. MaxVersions)] /\ made \in [Jobs -> 0 .. MaxVersions]
        OBVIOUS
    <2>3. visitor \in [Visitors -> Visitor] /\ sweep \in Sweep
        BY DEF Visitor, Away, Sweep, NoSweep
    <2>4. redirect \in [Reports -> Reports \cup {None}] /\ expired \subseteq Reports
        OBVIOUS
    <2>5. created \in 1 .. MaxJobs /\ file \subseteq Jobs /\ copy \subseteq Jobs /\ faults \in 0 .. MaxFaults
        OBVIOUS
    <2> QED  BY ONLY <2>1, <2>2, <2>3, <2>4, <2>5 DEF TypeOK
<1>2. RowsOK
    BY DEF RowsOK, Is, Exists, NoJob, Submitted
<1>3. SweepOK
    BY DEF SweepOK, NoSweep, Deletes
<1>4. AddressesOpen
    BY DEF AddressesOpen, Published
<1>5. NoBytesWithoutRecord
    BY DEF NoBytesWithoutRecord, Exists, Submitted, NoJob
<1> QED  BY <1>1, <1>2, <1>3, <1>4, <1>5 DEF RecordsInv

\* The sweep loses nothing it relies on when rows stay, versions are only
\* added, files come with new rows and copies with new versions.
LEMMA SweepStays ==
    ASSUME RecordsInv, TypeOK', sweep' = sweep,
           \A k \in Jobs : Exists(k) => Exists(k)',
           \A k \in Jobs : versions[k] \subseteq versions'[k] /\ made[k] <= made'[k],
           \A k \in Jobs : k \in file' => k \in file \/ ~Exists(k),
           \A k \in Jobs : k \in copy' => k \in copy \/ \E v \in versions'[k] : v > made[k]
    PROVE  SweepOK'
<1> USE DEF RecordsInv
<1>1. sweep.todo \subseteq Jobs /\ sweep.job \in Jobs \cup {None} /\ sweep.ids \subseteq Reports
    BY DEF TypeOK, Sweep
<1>2. \A k \in sweep.todo : Exists(k)'
    BY <1>1 DEF SweepOK
<1>3. sweep.step \in Deletes \cup {"older"} =>
          sweep.job \in Jobs /\ Exists(sweep.job)' /\ sweep.job \notin sweep.todo
    BY DEF SweepOK
<1>4. sweep.step = "older" => sweep.latest \in {<<sweep.job, v>> : v \in versions'[sweep.job]}
    BY <1>3 DEF SweepOK, Rows
<1>5. sweep.step \in Deletes /\ Replaces =>
          sweep.latest \in Reports /\ sweep.latest[2] \in versions'[sweep.latest[1]]
          /\ sweep.latest[1] # sweep.job
    BY DEF SweepOK, Opens, Reports
<1>6. sweep.step \in {"file", "copy", "record"} =>
          \A r \in sweep.ids : r[1] = sweep.job /\ r[2] <= made'[sweep.job]
    <2> SUFFICES ASSUME sweep.step \in {"file", "copy", "record"}, NEW r \in sweep.ids
                 PROVE  r[1] = sweep.job /\ r[2] <= made'[sweep.job]
        OBVIOUS
    <2>1. sweep.job \in Jobs
        BY <1>3 DEF Deletes
    <2>2. r[1] = sweep.job /\ r[2] <= made[sweep.job] /\ r[2] \in Nat
        BY <1>1 DEF SweepOK, Reports
    <2>3. made[sweep.job] \in Int /\ made'[sweep.job] \in Int /\ made[sweep.job] <= made'[sweep.job]
        BY <2>1, BoundAssumption DEF TypeOK
    <2> QED  BY <2>2, <2>3
<1>7. sweep.step \in {"copy", "record"} => sweep.job \notin file'
    BY <1>3 DEF SweepOK, Deletes
<1>8. sweep.step = "record" =>
          sweep.job \notin copy' \/ {<<sweep.job, v>> : v \in versions'[sweep.job]} \ sweep.ids # {}
    <2> SUFFICES ASSUME sweep.step = "record", sweep.job \in copy'
                 PROVE  {<<sweep.job, v>> : v \in versions'[sweep.job]} \ sweep.ids # {}
        OBVIOUS
    <2>1. sweep.job \in Jobs
        BY <1>3 DEF Deletes
    <2>2. CASE sweep.job \in copy
        <3>1. PICK v \in versions[sweep.job] : <<sweep.job, v>> \notin sweep.ids
            BY <2>2 DEF SweepOK, Unread, Rows
        <3> QED  BY <2>1, <3>1
    <2>3. CASE sweep.job \notin copy
        <3>1. PICK v \in versions'[sweep.job] : v > made[sweep.job]
            BY <2>1, <2>3
        <3>2. v \in Nat /\ made[sweep.job] \in Nat
            BY <2>1, <3>1, BoundAssumption DEF TypeOK
        <3>3. <<sweep.job, v>> \notin sweep.ids
            BY <3>1, <3>2 DEF SweepOK
        <3> QED  BY <3>1, <3>3
    <2> QED  BY <2>2, <2>3
<1>9. sweep.step \in {"expiring", "keeping"} => sweep.phase = sweep.step
    BY DEF SweepOK
<1> QED  BY <1>2, <1>3, <1>4, <1>5, <1>6, <1>7, <1>8, <1>9
         DEF SweepOK, Deletes, Replaces, Rows, Opens, Unread

\* Addresses go on opening while versions are only added.
LEMMA AddressesStay ==
    ASSUME AddressesOpen, TypeOK, redirect' = redirect, expired' = expired,
           \A k \in Jobs : versions[k] \subseteq versions'[k],
           \A r \in Reports : r[2] <= made'[r[1]] => r[2] <= made[r[1]] \/ r[2] \in versions'[r[1]]
    PROVE  AddressesOpen'
<1>1. \A r \in Reports : Opens(r) => Opens(r)'
    BY DEF Opens, Reports
<1> SUFFICES ASSUME NEW r \in Reports, r[2] <= made'[r[1]], r \notin expired
             PROVE  Opens(r)' \/ (redirect[r] # None /\ Opens(redirect[r])')
    BY DEF AddressesOpen, Published, Opens
<1>2. CASE r[2] \in versions'[r[1]]
    BY <1>2 DEF Opens
<1>3. CASE r[2] <= made[r[1]]
    <2>1. Opens(r) \/ (redirect[r] # None /\ Opens(redirect[r]))
        BY <1>3 DEF AddressesOpen, Published
    <2>2. redirect[r] \in Reports \cup {None}
        BY DEF TypeOK
    <2> QED  BY <2>1, <2>2, <1>1 DEF Opens
<1> QED  BY <1>2, <1>3

\* A step of the sweep that only reads: the rows are as they were.
LEMMA RowsStay ==
    ASSUME RecordsInv, created' = created, job' = job, UNCHANGED reports, UNCHANGED objects
    PROVE  RowsOK' /\ AddressesOpen' /\ NoBytesWithoutRecord'
BY DEF RecordsInv, RowsOK, AddressesOpen, NoBytesWithoutRecord, reports, objects,
       Is, Published, Opens, Exists

-----------------------------------------------------------------------------
(* The checks and refreshes *)

\* A new version opens under its own address.
LEMMA PublishKeeps ==
    ASSUME RecordsInv, NEW j \in Jobs, WorkPublishes(j)
    PROVE  RecordsInv'
<1> USE DEF RecordsInv, WorkPublishes
<1>1. TypeOK /\ made[j] \in Nat /\ made[j] < MaxVersions /\ made[j] + 1 \in 1 .. MaxVersions
    BY BoundAssumption DEF TypeOK, RowsOK, Is
<1>2. PICK kept \in BOOLEAN, judged \in BOOLEAN :
          /\ job' = [job EXCEPT ![j].status = "completed", ![j].marker = FALSE,
                                ![j].kept = kept, ![j].judged = judged]
          /\ file' = IF kept THEN file ELSE file \ {j}
    <2>1. job[j].kept \in BOOLEAN
        BY <1>1 DEF TypeOK, Job
    <2> QED  BY <2>1
<1>3. job' \in [Jobs -> Job]
    <2>1. job[j] \in Job
        BY <1>1 DEF TypeOK
    <2>2. [job[j] EXCEPT !.status = "completed", !.marker = FALSE, !.kept = kept, !.judged = judged]
              \in Job
        BY <2>1 DEF Job, Finished
    <2> QED  BY <1>1, <1>2, <2>2 DEF TypeOK
<1>4. versions' \in [Jobs -> SUBSET (1 .. MaxVersions)] /\ made' \in [Jobs -> 0 .. MaxVersions]
    BY <1>1, BoundAssumption DEF TypeOK
<1>5. file' \subseteq file /\ copy' \subseteq Jobs
    BY <1>2 DEF TypeOK
<1>6. TypeOK'
    BY <1>3, <1>4, <1>5 DEF TypeOK
<1>7. Exists(j) /\ job'[j].status = "completed" /\ \A k \in Jobs : k # j => job'[k] = job[k]
    BY <1>1, <1>2 DEF TypeOK, Is, Exists
<1>8. \A k \in Jobs : Exists(k) <=> Exists(k)'
    BY <1>7 DEF Exists
<1>9. made'[j] = made[j] + 1 /\ versions'[j] = versions[j] \cup {made[j] + 1}
      /\ \A k \in Jobs : k # j => made'[k] = made[k] /\ versions'[k] = versions[k]
    BY DEF TypeOK
<1>10. \A k \in Jobs : made[k] \in Nat /\ versions[k] \subseteq 1 .. made[k]
    BY BoundAssumption DEF TypeOK, RowsOK
<1>11. RowsOK'
    <2>1. j <= created
        BY <1>1, <1>7, BoundAssumption DEF RowsOK, Exists, NoJob, TypeOK, Jobs
    <2>2. \A k \in Jobs : k > created' => job'[k] = NoJob /\ made'[k] = 0
        BY <2>1, <1>7, <1>9, <1>1 DEF RowsOK, Jobs, TypeOK
    <2>3. \A k \in Jobs : k <= created' => job'[k].status # "none"
        BY <1>7 DEF RowsOK
    <2>4. \A k \in Jobs : versions'[k] \subseteq 1 .. made'[k]
        <3> SUFFICES ASSUME NEW k \in Jobs, NEW n \in versions'[k] PROVE n \in 1 .. made'[k]
            OBVIOUS
        <3>1. CASE k = j
            BY <3>1, <1>9, <1>10
        <3>2. CASE k # j
            BY <3>2, <1>9, <1>10
        <3> QED  BY <3>1, <3>2
    <2>5. \A k \in Jobs : job'[k].status = "working" => made'[k] < MaxVersions
        BY <1>7, <1>9 DEF RowsOK, Is
    <2>6. \A k \in Jobs : job'[k].judged => Exists(k)'
        BY <1>7, <1>8 DEF RowsOK
    <2> QED  BY <2>2, <2>3, <2>4, <2>5, <2>6 DEF RowsOK, Is
<1>12. \A k \in Jobs : versions[k] \subseteq versions'[k] /\ made[k] <= made'[k]
    BY <1>9, <1>10
<1>13. SweepOK'
    <2>1. \A k \in Jobs : k \in copy' => k \in copy \/ \E v \in versions'[k] : v > made[k]
        BY <1>9, <1>1
    <2> QED  BY <2>1, <1>6, <1>8, <1>12, <1>5, SweepStays
<1>14. AddressesOpen'
    <2>1. \A r \in Reports : r[2] <= made'[r[1]] => r[2] <= made[r[1]] \/ r[2] \in versions'[r[1]]
        <3> SUFFICES ASSUME NEW r \in Reports, r[2] <= made'[r[1]]
                     PROVE  r[2] <= made[r[1]] \/ r[2] \in versions'[r[1]]
            OBVIOUS
        <3>1. r[1] \in Jobs /\ r[2] \in Nat
            BY DEF Reports
        <3> QED  BY <3>1, <1>9, <1>10
    <2> QED  BY <2>1, <1>12, AddressesStay
<1>15. NoBytesWithoutRecord'
    BY <1>5, <1>7, <1>8 DEF NoBytesWithoutRecord
<1> QED  BY <1>6, <1>11, <1>13, <1>14, <1>15

\* The steps of a check that only change its row, or take away its file.
LEMMA RowKeeps ==
    ASSUME RecordsInv, NEW j \in Jobs, Exists(j),
           job' \in [Jobs -> Job], \A k \in Jobs : k # j => job'[k] = job[k],
           job'[j].status \notin {"none", "gone"},
           job'[j].status = "working" => made[j] < MaxVersions,
           created' = created, UNCHANGED reports, copy' = copy, file' \subseteq file,
           visitor' \in [Visitors -> Visitor], sweep' = sweep, faults' \in 0 .. MaxFaults
    PROVE  RecordsInv'
<1> USE DEF RecordsInv, reports
<1>1. TypeOK'
    BY DEF TypeOK
<1>2. \A k \in Jobs : Exists(k) <=> Exists(k)'
    BY DEF Exists
<1>3. j <= created
    BY BoundAssumption DEF RowsOK, Exists, NoJob, TypeOK, Jobs
<1>4. RowsOK'
    <2>1. \A k \in Jobs : k > created => job'[k] = NoJob /\ made[k] = 0
        BY <1>3, BoundAssumption DEF RowsOK, TypeOK, Jobs
    <2>2. \A k \in Jobs : k <= created => job'[k].status # "none"
        BY DEF RowsOK
    <2>3. \A k \in Jobs : job'[k].status = "working" => made[k] < MaxVersions
        BY DEF RowsOK, Is
    <2>4. \A k \in Jobs : job'[k].judged => Exists(k)'
        BY <1>2 DEF RowsOK
    <2> QED  BY <2>1, <2>2, <2>3, <2>4 DEF RowsOK, Is
<1>5. \A k \in Jobs : made[k] <= made[k]
    BY BoundAssumption DEF TypeOK
<1>6. SweepOK'
    BY <1>1, <1>2, <1>5, SweepStays
<1>7. AddressesOpen' /\ NoBytesWithoutRecord'
    BY <1>2 DEF AddressesOpen, Published, Opens, NoBytesWithoutRecord
<1> QED  BY <1>1, <1>4, <1>6, <1>7

LEMMA WorkerKeeps ==
    ASSUME RecordsInv, NEW j \in Jobs,
           WorkFails(j) \/ BeginRefresh(j) \/ JudgmentEnds(j) \/ FileExpires(j)
    PROVE  RecordsInv'
<1>1. TypeOK /\ RowsOK
    BY DEF RecordsInv
<1>2. job \in [Jobs -> Job] /\ faults \in 0 .. MaxFaults /\ visitor \in [Visitors -> Visitor]
    BY <1>1 DEF TypeOK
<1>3. CASE WorkFails(j)
    <2>1. Exists(j)
        BY <1>3 DEF WorkFails, Is, Exists
    <2>2. job' \in [Jobs -> Job] /\ job'[j].status \in Finished
          /\ \A k \in Jobs : k # j => job'[k] = job[k]
        BY <1>2, <1>3 DEF WorkFails, Job, Finished
    <2>3. faults' \in 0 .. MaxFaults /\ file' \subseteq file
        BY <1>2, <1>3, BoundAssumption DEF WorkFails, Fault
    <2> QED  BY <2>1, <2>2, <2>3, <1>2, <1>3, RowKeeps DEF WorkFails, Finished, reports
<1>4. CASE BeginRefresh(j)
    <2>1. Exists(j) /\ made[j] < MaxVersions
        BY <1>4 DEF BeginRefresh, Is, Exists
    <2>2. job' \in [Jobs -> Job] /\ job'[j].status = "working"
          /\ \A k \in Jobs : k # j => job'[k] = job[k]
        BY <1>2, <1>4 DEF BeginRefresh, Job
    <2> QED  BY <2>1, <2>2, <1>2, <1>4, RowKeeps DEF BeginRefresh, reports, objects
<1>5. CASE JudgmentEnds(j)
    <2>1. job' \in [Jobs -> Job] /\ job'[j].status = job[j].status
          /\ \A k \in Jobs : k # j => job'[k] = job[k]
        BY <1>2, <1>5 DEF JudgmentEnds, Job
    <2>2. Exists(j) /\ (job'[j].status = "working" => made[j] < MaxVersions)
        BY <2>1, <1>1, <1>5 DEF RowsOK, Is, JudgmentEnds
    <2> QED  BY <2>1, <2>2, <1>2, <1>5, RowKeeps DEF JudgmentEnds, Exists, reports, objects
<1>6. CASE FileExpires(j)
    <2>1. Exists(j)
        BY <1>6 DEF FileExpires, Is, Exists
    <2>2. job' \in [Jobs -> Job] /\ job'[j].status = "completed"
          /\ \A k \in Jobs : k # j => job'[k] = job[k]
        BY <1>2, <1>6 DEF FileExpires, Job, Is
    <2> QED  BY <2>1, <2>2, <1>2, <1>6, RowKeeps DEF FileExpires, reports
<1> QED  BY <1>3, <1>4, <1>5, <1>6

LEMMA ProjectKeeps ==
    ASSUME RecordsInv, NEW j \in Jobs, Project(j)
    PROVE  RecordsInv'
<1> USE DEF RecordsInv, Project, objects
<1>1. made[j] \in Nat /\ made[j] < MaxVersions /\ made[j] + 1 \in 1 .. MaxVersions
    BY BoundAssumption DEF TypeOK
<1>2. TypeOK'
    BY <1>1, BoundAssumption DEF TypeOK
<1>3. made'[j] = made[j] + 1 /\ versions'[j] = versions[j] \cup {made[j] + 1}
      /\ \A k \in Jobs : k # j => made'[k] = made[k] /\ versions'[k] = versions[k]
    BY DEF TypeOK
<1>4. \A k \in Jobs : made[k] \in Nat /\ versions[k] \subseteq 1 .. made[k]
    BY BoundAssumption DEF TypeOK, RowsOK
<1>5. job[j].status = "completed" /\ j <= created
    BY BoundAssumption DEF Is, RowsOK, NoJob, TypeOK, Jobs
<1>6. RowsOK'
    <2>1. \A k \in Jobs : k > created => job[k] = NoJob /\ made'[k] = 0
        BY <1>3, <1>5, BoundAssumption DEF RowsOK, TypeOK, Jobs
    <2>2. \A k \in Jobs : versions'[k] \subseteq 1 .. made'[k]
        <3> SUFFICES ASSUME NEW k \in Jobs, NEW n \in versions'[k] PROVE n \in 1 .. made'[k]
            OBVIOUS
        <3>1. CASE k = j
            BY <3>1, <1>3, <1>4
        <3>2. CASE k # j
            BY <3>2, <1>3, <1>4
        <3> QED  BY <3>1, <3>2
    <2>3. \A k \in Jobs : job[k].status = "working" => made'[k] < MaxVersions
        BY <1>3, <1>5 DEF RowsOK, Is
    <2> QED  BY <2>1, <2>2, <2>3 DEF RowsOK, Is, Exists
<1>7. \A k \in Jobs : versions[k] \subseteq versions'[k] /\ made[k] <= made'[k]
    BY <1>3, <1>4
<1>8. SweepOK'
    BY <1>2, <1>7, SweepStays DEF Exists
<1>9. AddressesOpen'
    <2>1. \A r \in Reports : r[2] <= made'[r[1]] => r[2] <= made[r[1]] \/ r[2] \in versions'[r[1]]
        <3> SUFFICES ASSUME NEW r \in Reports, r[2] <= made'[r[1]]
                     PROVE  r[2] <= made[r[1]] \/ r[2] \in versions'[r[1]]
            OBVIOUS
        <3>1. r[1] \in Jobs /\ r[2] \in Nat
            BY DEF Reports
        <3> QED  BY <3>1, <1>3, <1>4
    <2> QED  BY <2>1, <1>7, AddressesStay
<1>10. NoBytesWithoutRecord'
    BY DEF NoBytesWithoutRecord, Exists
<1> QED  BY <1>2, <1>6, <1>8, <1>9, <1>10

-----------------------------------------------------------------------------
(* Check Again *)

LEMMA CreateJobKeeps ==
    ASSUME RecordsInv, NEW v \in Visitors, CreateJob(v)
    PROVE  RecordsInv'
<1> USE DEF RecordsInv, CreateJob, reports
<1>1. PICK new \in Jobs : new = created + 1 /\ ~Exists(new) /\ made[new] = 0
    BY BoundAssumption DEF TypeOK, Jobs, RowsOK, Exists, NoJob
<1>2. job'[new] = Submitted /\ \A k \in Jobs : k # new => job'[k] = job[k]
    BY <1>1 DEF TypeOK
<1>3. TypeOK'
    <2>1. Submitted \in Job
        BY DEF Submitted, NoJob, Job
    <2>2. job' \in [Jobs -> Job]
        BY <1>1, <2>1 DEF TypeOK
    <2>3. visitor' \in [Visitors -> Visitor]
        <3>1. visitor[v] \in Visitor /\ created + 1 \in Jobs
            BY <1>1 DEF TypeOK
        <3>2. [visitor[v] EXCEPT !.step = "created", !.new = created + 1] \in Visitor
            BY <3>1 DEF Visitor
        <3>3. visitor' = [visitor EXCEPT ![v] =
                  [visitor[v] EXCEPT !.step = "created", !.new = created + 1]]
            OBVIOUS
        <3> QED  BY <3>2, <3>3 DEF TypeOK
    <2>4. created' \in 1 .. MaxJobs /\ file' \subseteq Jobs
        BY <1>1 DEF TypeOK, Jobs
    <2> QED  BY <2>2, <2>3, <2>4 DEF TypeOK
<1>4. \A k \in Jobs : Exists(k) => Exists(k)'
    BY <1>1, <1>2 DEF Exists
<1>5. Exists(new)' /\ job'[new].status = "working" /\ ~job'[new].judged
    BY <1>2 DEF Exists, Submitted, NoJob
<1>6. RowsOK'
    <2>1. \A k \in Jobs : k > created' => job'[k] = NoJob /\ made[k] = 0
        BY <1>2, BoundAssumption DEF RowsOK, TypeOK, Jobs
    <2>2. \A k \in Jobs : k <= created' => job'[k].status # "none"
        BY <1>2, <1>5, BoundAssumption DEF RowsOK, TypeOK, Jobs
    <2>3. \A k \in Jobs : job'[k].status = "working" => made[k] < MaxVersions
        BY <1>1, <1>2, BoundAssumption DEF RowsOK, Is
    <2>4. \A k \in Jobs : job'[k].judged => Exists(k)'
        BY <1>2, <1>4, <1>5 DEF RowsOK
    <2> QED  BY <2>1, <2>2, <2>3, <2>4 DEF RowsOK, Is
<1>7. \A k \in Jobs : made[k] <= made[k]
    BY BoundAssumption DEF TypeOK
<1>8. SweepOK'
    BY <1>1, <1>3, <1>4, <1>7, SweepStays
<1>9. AddressesOpen'
    BY DEF AddressesOpen, Published, Opens
<1>10. NoBytesWithoutRecord'
    BY <1>1, <1>4, <1>5 DEF NoBytesWithoutRecord
<1> QED  BY <1>3, <1>6, <1>8, <1>9, <1>10

LEMMA LinkKeeps ==
    ASSUME RecordsInv, NEW v \in Visitors, Link(v)
    PROVE  RecordsInv'
<1> USE DEF RecordsInv, Link, reports, objects
<1> DEFINE from == visitor[v].from
<1>1. from \in Jobs \cup {None} /\ visitor[v].new \in Jobs \cup {None}
    BY DEF TypeOK, Visitor
<1>2. visitor' \in [Visitors -> Visitor] /\ faults' \in 0 .. MaxFaults
    BY DEF TypeOK, Visitor, Away
<1>3. CASE from \in Jobs /\ Exists(from)
    <2>1. job' \in [Jobs -> Job] /\ job'[from].status = job[from].status
          /\ \A k \in Jobs : k # from => job'[k] = job[k]
        BY <1>1, <1>3 DEF TypeOK, Job
    <2>2. job'[from].status = "working" => made[from] < MaxVersions
        BY <1>3, <2>1 DEF RowsOK, Is
    <2> QED  BY <1>2, <1>3, <2>1, <2>2, RowKeeps DEF Exists
<1>4. CASE ~(from \in Jobs /\ Exists(from))
    <2>1. job' = job
        <3>1. CASE from \in Jobs
            BY <1>4, <3>1
        <3>2. CASE from \notin Jobs
            BY <3>2 DEF TypeOK
        <3> QED  BY <3>1, <3>2
    <2>2. RowsOK' /\ AddressesOpen' /\ NoBytesWithoutRecord'
        BY <2>1, RowsStay
    <2>3. TypeOK'
        BY <2>1, <1>2 DEF TypeOK
    <2>4. \A k \in Jobs : made[k] <= made[k]
        BY BoundAssumption DEF TypeOK
    <2>5. SweepOK'
        BY <2>1, <2>3, <2>4, SweepStays DEF Exists
    <2> QED  BY <2>2, <2>3, <2>5
<1> QED  BY <1>3, <1>4

LEMMA VisitorKeeps ==
    ASSUME RecordsInv, NEW v \in Visitors,
           (\E j \in Jobs : CheckAgain(v, j)) \/ RequestDies(v)
    PROVE  RecordsInv'
<1> USE DEF RecordsInv
<1>1. visitor' \in [Visitors -> Visitor] /\ faults' \in 0 .. MaxFaults
    <2>1. CASE RequestDies(v)
        BY <2>1, BoundAssumption DEF RequestDies, Fault, TypeOK, Visitor, Away
    <2>2. ASSUME NEW j \in Jobs, CheckAgain(v, j)
          PROVE  visitor' \in [Visitors -> Visitor] /\ faults' \in 0 .. MaxFaults
        <3> DEFINE kept == {k \in Chain(j) : Available(k)}
        <3>1. kept \subseteq 1 .. MaxJobs /\ kept # {}
            BY <2>2 DEF CheckAgain, Chain, Jobs
        <3>2. Largest(kept) \in Jobs
            BY <3>1, LargestIsOne, BoundAssumption DEF Jobs
        <3>3. [Away EXCEPT !.step = "chosen", !.from = Largest(kept)] \in Visitor
            BY <3>2 DEF Away, Visitor
        <3> QED  BY <2>2, <3>3 DEF CheckAgain, TypeOK
    <2> QED  BY <2>1, <2>2
<1>2. UNCHANGED <<created, job, reports, objects, sweep>>
    BY DEF CheckAgain, RequestDies
<1>3. TypeOK'
    BY <1>1, <1>2 DEF TypeOK, reports, objects
<1>4. \A k \in Jobs : made[k] <= made[k]
    BY BoundAssumption DEF TypeOK
<1>5. SweepOK'
    BY <1>2, <1>3, <1>4, SweepStays DEF Exists, reports, objects
<1> QED  BY <1>2, <1>3, <1>5, RowsStay DEF reports, objects

-----------------------------------------------------------------------------
(* The sweep reads *)

\* Between two records the sweep relies on its list alone.
LEMMA RestHolds ==
    ASSUME sweep'.step \in {"idle", "expiring", "keeping"},
           sweep'.step # "idle" => sweep'.phase = sweep'.step,
           \A k \in sweep'.todo : Exists(k)'
    PROVE  SweepOK'
BY DEF SweepOK, Deletes

LEMMA NextJobHolds ==
    ASSUME TypeOK, sweep' = NextJob
    PROVE  /\ sweep' \in Sweep /\ sweep'.todo = sweep.todo
           /\ sweep'.step \in {"expiring", "keeping"} /\ sweep'.phase = sweep'.step
BY DEF NextJob, NoSweep, TypeOK, Sweep

LEMMA ReadKeeps ==
    ASSUME RecordsInv, created' = created, visitor' = visitor, UNCHANGED <<job, reports, objects>>,
           faults' \in 0 .. MaxFaults, sweep' \in Sweep, SweepOK'
    PROVE  RecordsInv'
<1>1. TypeOK'
    BY DEF RecordsInv, TypeOK, reports, objects
<1> QED  BY <1>1, RowsStay DEF RecordsInv

LEMMA ListKeeps ==
    ASSUME RecordsInv,
           SelectExpired \/ SelectFinished \/ EndSweep \/ DeletionRefused \/ SweepDies
    PROVE  RecordsInv'
<1> USE DEF Sweeping, Still
<1>1. faults' \in 0 .. MaxFaults
    <2>1. faults \in 0 .. MaxFaults
        BY DEF RecordsInv, TypeOK
    <2>2. CASE SweepDies
        BY <2>1, <2>2, BoundAssumption DEF SweepDies, Fault
    <2> QED  BY <2>1, <2>2 DEF SelectExpired, SelectFinished, EndSweep, DeletionRefused
<1>2. created' = created /\ visitor' = visitor /\ UNCHANGED <<job, reports, objects>>
    BY DEF SelectExpired, SelectFinished, EndSweep, DeletionRefused, SweepDies
<1>3. PICK old \in SUBSET {k \in Jobs : job[k].status \in Finished} :
          \/ sweep' = [NoSweep EXCEPT !.step = "expiring", !.todo = old]
          \/ sweep' = [NoSweep EXCEPT !.step = "keeping", !.phase = "keeping", !.todo = old]
          \/ sweep' = NoSweep
    BY DEF SelectExpired, SelectFinished, EndSweep, DeletionRefused, SweepDies
<1>6. /\ sweep' \in Sweep /\ sweep'.step \in {"idle", "expiring", "keeping"}
      /\ sweep'.step # "idle" => sweep'.phase = sweep'.step
      /\ \A k \in sweep'.todo : job[k].status \in Finished
    <2>1. CASE sweep' = [NoSweep EXCEPT !.step = "expiring", !.todo = old]
        BY <2>1 DEF NoSweep, Sweep
    <2>2. CASE sweep' = [NoSweep EXCEPT !.step = "keeping", !.phase = "keeping", !.todo = old]
        BY <2>2 DEF NoSweep, Sweep
    <2>3. CASE sweep' = NoSweep
        BY <2>3 DEF NoSweep, Sweep
    <2> QED  BY <1>3, <2>1, <2>2, <2>3
<1>4. \A k \in sweep'.todo : Exists(k)'
    BY <1>2, <1>6 DEF Finished, Exists
<1>5. SweepOK'
    BY <1>4, <1>6, RestHolds
<1> QED  BY <1>1, <1>2, <1>5, <1>6, ReadKeeps

LEMMA ExpireKeeps ==
    ASSUME RecordsInv, NEW j \in Jobs, Expire(j)
    PROVE  RecordsInv'
<1> USE DEF RecordsInv, Expire, Sweeping, Still
<1>1. sweep.todo \subseteq Nat /\ sweep.todo # {} /\ sweep.phase = "expiring"
    BY BoundAssumption DEF TypeOK, Sweep, Jobs, SweepOK
<1>2. j \in sweep.todo
    BY <1>1, SmallestIsOne
<1>3. sweep' \in Sweep /\ sweep'.step = "ids" /\ sweep'.job = j
      /\ sweep'.todo = sweep.todo \ {j} /\ sweep'.phase = "expiring"
    BY <1>1 DEF TypeOK, Sweep
<1>4. \A k \in sweep.todo : Exists(k)'
    BY DEF SweepOK, Exists
<1>5. SweepOK'
    BY <1>2, <1>3, <1>4 DEF SweepOK, Deletes, Replaces
<1>6. faults' \in 0 .. MaxFaults
    BY DEF TypeOK
<1> QED  BY <1>3, <1>5, <1>6, ReadKeeps

\* The replacement is a report of a later check, and there is one.
LEMMA ReplacementOpens ==
    ASSUME TypeOK, NEW j \in Jobs, Replacing(j) # None
    PROVE  Replacing(j) \in Reports /\ Opens(Replacing(j)) /\ Replacing(j)[1] # j
<1> DEFINE done == {k \in Chain(j) \ {j} : Is(k, "completed") /\ versions[k] # {}}
<1>1. done # {} /\ Replacing(j) = Latest(Largest(done))
    BY DEF Replacing
<1>2. PICK k \in done : Replacing(j) = Latest(k)
    <2>1. done \subseteq 1 .. MaxJobs
        BY DEF Chain, Jobs
    <2> QED  BY <1>1, <2>1, LargestIsOne, BoundAssumption
<1>3. k \in Jobs /\ k # j /\ versions[k] # {} /\ versions[k] \subseteq 1 .. MaxVersions
    BY <1>2 DEF Chain, TypeOK
<1>4. Largest(versions[k]) \in versions[k]
    BY <1>3, LargestIsOne, BoundAssumption
<1> QED  BY <1>2, <1>3, <1>4 DEF Latest, Reports, Opens

LEMMA LatestIsOne ==
    ASSUME TypeOK, NEW j \in Jobs, Latest(j) # None
    PROVE  Latest(j) \in Rows(j) /\ Latest(j) \in Reports
<1>1. versions[j] # {} /\ versions[j] \subseteq 1 .. MaxVersions
    BY DEF Latest, TypeOK
<1>2. Largest(versions[j]) \in versions[j]
    BY <1>1, LargestIsOne, BoundAssumption
<1> QED  BY <1>1, <1>2 DEF Latest, Rows, Reports

LEMMA KeepingKeeps ==
    ASSUME RecordsInv, NEW j \in Jobs, Replace(j) \/ KeepLatest(j) \/ LeaveAlone(j)
    PROVE  RecordsInv'
<1> USE DEF RecordsInv, Sweeping, Still, Considered, Take
<1>1. /\ sweep.step = "keeping" /\ sweep.todo # {} /\ j = Smallest(sweep.todo)
      /\ created' = created /\ visitor' = visitor /\ UNCHANGED <<job, reports, objects>>
      /\ faults' = faults
    BY DEF Replace, KeepLatest, LeaveAlone
<1>2. sweep.todo \subseteq Nat /\ sweep.phase = "keeping"
    BY <1>1, BoundAssumption DEF TypeOK, Sweep, Jobs, SweepOK
<1>3. j \in sweep.todo
    BY <1>1, <1>2, SmallestIsOne
<1>4. \A k \in sweep.todo : Exists(k)'
    BY <1>1 DEF SweepOK, Exists
<1>5. \A r \in Reports : Opens(r) => Opens(r)'
    BY <1>1 DEF Opens, reports
<1>6. CASE Replace(j)
    <2>1. PICK r \in Reports : r = Replacing(j) /\ Opens(r) /\ r[1] # j
        BY <1>6, ReplacementOpens DEF Replace
    <2>2. sweep' \in Sweep /\ sweep'.step = "ids" /\ sweep'.job = j
          /\ sweep'.todo = sweep.todo \ {j} /\ sweep'.latest = r
        BY <1>6, <2>1 DEF Replace, TypeOK, Sweep
    <2>3. sweep'.latest[2] \in versions'[sweep'.latest[1]]
        BY <1>1, <2>1, <2>2 DEF Opens, reports
    <2>4. SweepOK'
        BY <1>3, <1>4, <2>1, <2>2, <2>3 DEF SweepOK, Deletes, Opens
    <2> QED  BY <1>1, <2>2, <2>4, ReadKeeps DEF TypeOK
<1>7. CASE KeepLatest(j)
    <2>1. Latest(j) \in Rows(j) /\ Latest(j) \in Reports
        BY <1>7, LatestIsOne DEF KeepLatest
    <2>2. sweep' \in Sweep /\ sweep'.step = "older" /\ sweep'.job = j
          /\ sweep'.todo = sweep.todo \ {j} /\ sweep'.latest = Latest(j)
        BY <1>7, <2>1 DEF KeepLatest, TypeOK, Sweep
    <2>3. sweep'.latest \in {<<j, v>> : v \in versions'[j]}
        BY <1>1, <2>1, <2>2 DEF Rows, reports
    <2>4. SweepOK'
        BY <1>3, <1>4, <2>2, <2>3 DEF SweepOK, Deletes, Rows
    <2> QED  BY <1>1, <2>2, <2>4, ReadKeeps DEF TypeOK
<1>8. CASE LeaveAlone(j)
    <2>1. sweep' = [NextJob EXCEPT !.todo = @ \ {j}]
        BY <1>8 DEF LeaveAlone
    <2>2. sweep' \in Sweep /\ sweep'.step = "keeping" /\ sweep'.phase = "keeping"
          /\ sweep'.todo \subseteq sweep.todo
        BY <1>2, <2>1 DEF NextJob, NoSweep, TypeOK, Sweep
    <2>3. SweepOK'
        BY <1>4, <2>2, RestHolds
    <2> QED  BY <1>1, <2>2, <2>3, ReadKeeps DEF TypeOK
<1> QED  BY <1>6, <1>7, <1>8

LEMMA ReadIdsKeeps ==
    ASSUME RecordsInv, ReadIds
    PROVE  RecordsInv'
<1> USE DEF RecordsInv, ReadIds, Sweeping, Still
<1>1. sweep.job \in Jobs /\ Exists(sweep.job) /\ sweep.job \notin sweep.todo
    BY DEF SweepOK, Deletes
<1>2. Rows(sweep.job) \subseteq Reports
    BY <1>1 DEF Rows, TypeOK, Reports
<1>3. sweep' = [sweep EXCEPT !.step = "file", !.ids = Rows(sweep.job)]
    OBVIOUS
<1>4. sweep' \in Sweep
    BY <1>2, <1>3 DEF TypeOK, Sweep
<1>5. sweep'.step = "file" /\ sweep'.phase = sweep.phase /\ sweep'.todo = sweep.todo
      /\ sweep'.job = sweep.job /\ sweep'.latest = sweep.latest /\ sweep'.ids = Rows(sweep.job)
    BY <1>3 DEF TypeOK, Sweep
<1>6. \A r \in Rows(sweep.job) : r[1] = sweep.job /\ r[2] <= made[sweep.job]
    BY <1>1, BoundAssumption DEF RowsOK, Rows, TypeOK
<1>7. SweepOK'
    BY <1>1, <1>5, <1>6 DEF SweepOK, Deletes, Replaces, Opens, Exists, reports
<1> QED  BY <1>4, <1>7, ReadKeeps DEF TypeOK

-----------------------------------------------------------------------------
(* The sweep deletes *)

\* The next step with the same record.
LEMMA GoesOn ==
    ASSUME TypeOK, NEW step \in {"copy", "record"}, sweep' = [sweep EXCEPT !.step = step]
    PROVE  /\ sweep' \in Sweep /\ sweep'.step = step
           /\ sweep'.phase = sweep.phase /\ sweep'.todo = sweep.todo /\ sweep'.job = sweep.job
           /\ sweep'.latest = sweep.latest /\ sweep'.ids = sweep.ids
BY DEF TypeOK, Sweep

LEMMA DeleteFileKeeps ==
    ASSUME RecordsInv, DeleteFile
    PROVE  RecordsInv'
<1> USE DEF RecordsInv, DeleteFile, Go, Sweeping, reports
<1>1. /\ sweep' \in Sweep /\ sweep'.step = "copy"
      /\ sweep'.phase = sweep.phase /\ sweep'.todo = sweep.todo /\ sweep'.job = sweep.job
      /\ sweep'.latest = sweep.latest /\ sweep'.ids = sweep.ids
    BY GoesOn
<1>2. TypeOK'
    BY <1>1 DEF TypeOK
<1>3. RowsOK' /\ AddressesOpen' /\ NoBytesWithoutRecord'
    BY DEF RowsOK, Is, AddressesOpen, Published, Opens, NoBytesWithoutRecord, Exists
<1>4. SweepOK'
    BY <1>1 DEF SweepOK, Deletes, Replaces, Opens, Exists
<1> QED  BY <1>2, <1>3, <1>4

LEMMA DeletionFailsKeeps ==
    ASSUME RecordsInv, DeletionFails
    PROVE  RecordsInv'
<1> USE DEF RecordsInv, DeletionFails, Sweeping, reports, objects
<1>1. sweep' \in Sweep /\ sweep'.todo = sweep.todo
      /\ sweep'.step \in {"expiring", "keeping"} /\ sweep'.phase = sweep'.step
    BY NextJobHolds
<1>2. file' \subseteq file /\ copy' \subseteq copy /\ faults' \in 0 .. MaxFaults
    BY BoundAssumption DEF Fault, TypeOK
<1>3. TypeOK'
    BY <1>1, <1>2 DEF TypeOK
<1>4. RowsOK' /\ AddressesOpen' /\ NoBytesWithoutRecord'
    BY <1>2 DEF RowsOK, Is, AddressesOpen, Published, Opens, NoBytesWithoutRecord, Exists
<1>5. SweepOK'
    BY <1>1, RestHolds DEF SweepOK, Exists
<1> QED  BY <1>3, <1>4, <1>5

\* An address that opened opens, once what is deleted leads to what is kept.
LEMMA RedirectedOpen ==
    ASSUME TypeOK, AddressesOpen, NEW old \in SUBSET Reports, NEW target \in Reports,
           Opens(target)', redirect' = Redirected(old, target),
           made' = made, expired' = expired,
           \A r \in Reports : Opens(r) => r \in old \/ Opens(r)'
    PROVE  AddressesOpen' /\ redirect' \in [Reports -> Reports \cup {None}]
<1>1. \A r \in Reports : redirect'[r] = IF r \in old \/ redirect[r] \in old THEN target ELSE redirect[r]
    BY DEF Redirected
<1>2. redirect' \in [Reports -> Reports \cup {None}]
    BY DEF Redirected, TypeOK
<1>3. None \notin Reports
    BY BoundAssumption
<1>4. \A q \in Reports : Opens(q) /\ q \notin old => q[2] \in versions'[q[1]]
    BY DEF Opens
<1>5. target[2] \in versions'[target[1]]
    BY DEF Opens
<1>6. ASSUME NEW r \in Reports, r \in Published, r \notin expired
      PROVE  r[2] \in versions'[r[1]]
             \/ (redirect'[r] # None /\ redirect'[r][2] \in versions'[redirect'[r][1]])
    <2>1. Opens(r) \/ (redirect[r] # None /\ Opens(redirect[r]))
        BY <1>6 DEF AddressesOpen
    <2>2. CASE r \in old \/ redirect[r] \in old
        BY <1>1, <1>3, <1>5, <2>2
    <2>3. CASE r \notin old /\ redirect[r] \notin old
        <3>1. redirect'[r] = redirect[r] /\ redirect[r] \in Reports \cup {None}
            BY <1>1, <2>3 DEF TypeOK
        <3> QED  BY <2>1, <2>3, <3>1, <1>4
    <2> QED  BY <2>2, <2>3
<1> QED  BY <1>2, <1>6 DEF AddressesOpen, Published, Opens

LEMMA DeleteOlderKeeps ==
    ASSUME RecordsInv, DeleteOlder
    PROVE  RecordsInv'
<1> USE DEF RecordsInv, DeleteOlder, Sweeping, objects
<1> DEFINE j == sweep.job
           older == Rows(j) \ {sweep.latest}
<1>1. j \in Jobs /\ Exists(j) /\ j \notin sweep.todo /\ sweep.latest \in Rows(j)
    BY DEF SweepOK, Deletes
<1>2. sweep' \in Sweep /\ sweep'.todo = sweep.todo
      /\ sweep'.step \in {"expiring", "keeping"} /\ sweep'.phase = sweep'.step
    BY NextJobHolds
<1>3. versions'[j] = {v \in versions[j] : <<j, v>> \notin older}
      /\ \A k \in Jobs : k # j => versions'[k] = versions[k]
    BY <1>1 DEF TypeOK
<1>4. \A k \in Jobs : versions'[k] \subseteq versions[k]
    BY <1>3
<1>5. older \subseteq Reports /\ sweep.latest \in Reports /\ sweep.latest \notin older
    BY <1>1 DEF Rows, Reports, TypeOK
<1>6. Opens(sweep.latest) /\ sweep.latest[1] = j
    BY <1>1 DEF Rows, Opens
<1>7. PICK target \in Reports : target = sweep.latest
    BY <1>5
<1>8. PICK old \in SUBSET Reports : old = older
    BY <1>5
<1>9. Opens(target)'
    <2>1. <<j, target[2]>> = target
        BY <1>6, <1>7 DEF Reports
    <2> QED  BY <2>1, <1>3, <1>5, <1>6, <1>7 DEF Opens
<1>10. \A r \in Reports : Opens(r) => r \in old \/ Opens(r)'
    <2> SUFFICES ASSUME NEW r \in Reports, r[2] \in versions[r[1]], r \notin old
                 PROVE  r[2] \in versions'[r[1]]
        BY DEF Opens
    <2>1. r = <<r[1], r[2]>> /\ r[1] \in Jobs
        BY DEF Reports
    <2> QED  BY <2>1, <1>3, <1>8
<1>11. AddressesOpen' /\ redirect' \in [Reports -> Reports \cup {None}]
    BY <1>7, <1>8, <1>9, <1>10, RedirectedOpen
<1>12. versions' \in [Jobs -> SUBSET (1 .. MaxVersions)]
    <2>1. \A k \in Jobs : versions'[k] \in SUBSET (1 .. MaxVersions)
        BY <1>4 DEF TypeOK
    <2> QED  BY <2>1 DEF TypeOK
<1>13. TypeOK'
    BY <1>2, <1>11, <1>12 DEF TypeOK
<1>14. RowsOK' /\ NoBytesWithoutRecord'
    BY <1>4 DEF RowsOK, Is, NoBytesWithoutRecord, Exists
<1>15. SweepOK'
    BY <1>2, RestHolds DEF SweepOK, Exists
<1> QED  BY <1>11, <1>13, <1>14, <1>15

LEMMA DeleteCopyKeeps ==
    ASSUME RecordsInv, DeleteCopy
    PROVE  RecordsInv'
<1> USE DEF RecordsInv, DeleteCopy, Go, Sweeping
<1>1. /\ sweep' \in Sweep /\ sweep'.step = "record"
      /\ sweep'.phase = sweep.phase /\ sweep'.todo = sweep.todo /\ sweep'.job = sweep.job
      /\ sweep'.latest = sweep.latest /\ sweep'.ids = sweep.ids
    BY GoesOn
<1>2. AddressesOpen' /\ redirect' \in [Reports -> Reports \cup {None}]
    <2>1. CASE Replaces /\ sweep.job \in copy
        <3>1. PICK target \in Reports : target = sweep.latest /\ Opens(target)
            BY <2>1 DEF SweepOK, Deletes
        <3>2. Opens(target)'
            BY <3>1 DEF Opens
        <3>3. sweep.ids \in SUBSET Reports
            BY DEF TypeOK, Sweep
        <3>4. \A r \in Reports : Opens(r) => r \in sweep.ids \/ Opens(r)'
            BY DEF Opens
        <3>5. PICK old \in SUBSET Reports : old = sweep.ids
            BY <3>3
        <3> QED  BY <2>1, <3>1, <3>2, <3>4, <3>5, RedirectedOpen
    <2>2. CASE ~(Replaces /\ sweep.job \in copy)
        BY <2>2 DEF AddressesOpen, Published, Opens, TypeOK
    <2> QED  BY <2>1, <2>2
<1>3. TypeOK'
    BY <1>1, <1>2 DEF TypeOK
<1>4. RowsOK' /\ NoBytesWithoutRecord'
    BY DEF RowsOK, Is, NoBytesWithoutRecord, Exists
<1>5. SweepOK'
    BY <1>1 DEF SweepOK, Deletes, Replaces, Opens, Exists, Rows, Unread
<1> QED  BY <1>2, <1>3, <1>4, <1>5

\* All reports of the record were read, so that no address leads to it any
\* longer: it leads to what replaced them, or its period has ended.
LEMMA DeleteRecordKeeps ==
    ASSUME RecordsInv, DeleteRecord
    PROVE  RecordsInv'
<1> USE DEF RecordsInv, DeleteRecord, Sweeping, objects
<1> DEFINE j == sweep.job
<1>1. j \in Jobs /\ Exists(j) /\ j \notin sweep.todo /\ Rows(j) \subseteq sweep.ids
    BY DEF SweepOK, Deletes, Unread
<1>2. j \notin file /\ j \notin copy
    BY DEF SweepOK
<1>3. sweep' \in Sweep /\ sweep'.todo = sweep.todo
      /\ sweep'.step \in {"expiring", "keeping"} /\ sweep'.phase = sweep'.step
    BY NextJobHolds
<1>4. job'[j] = [NoJob EXCEPT !.status = "gone"] /\ versions'[j] = {}
      /\ \A k \in Jobs : k # j => job'[k] = job[k] /\ versions'[k] = versions[k]
    BY <1>1 DEF TypeOK
<1>5. job'[j].status = "gone" /\ ~job'[j].judged /\ j <= created
    BY <1>1, <1>4, BoundAssumption DEF NoJob, RowsOK, Exists, TypeOK, Jobs
<1>6. sweep.ids \in SUBSET Reports
    BY DEF TypeOK, Sweep
<1>7. \A r \in Reports : r[2] \in versions[r[1]] => r \in sweep.ids \/ r[2] \in versions'[r[1]]
    <2> SUFFICES ASSUME NEW r \in Reports, r[2] \in versions[r[1]], r[1] = j
                 PROVE  r \in sweep.ids
        BY <1>4 DEF Reports
    <2>1. r = <<r[1], r[2]>>
        BY DEF Reports
    <2> QED  BY <2>1, <1>1 DEF Rows
<1>8. AddressesOpen' /\ redirect' \in [Reports -> Reports \cup {None}] /\ expired' \subseteq Reports
    <2>1. CASE Replaces
        <3>1. PICK target \in Reports : target = sweep.latest /\ Opens(target) /\ target[1] # j
            BY <2>1 DEF SweepOK, Deletes
        <3>2. Opens(target)'
            BY <1>4, <3>1 DEF Opens, Reports
        <3>3. PICK old \in SUBSET Reports : old = sweep.ids
            BY <1>6
        <3>4. \A r \in Reports : Opens(r) => r \in old \/ Opens(r)'
            BY <1>7, <3>3 DEF Opens
        <3> QED  BY <2>1, <3>1, <3>2, <3>3, <3>4, RedirectedOpen DEF TypeOK
    <2>2. CASE ~Replaces
        <3>1. \A r \in Reports : redirect'[r] = IF r \in Gone THEN None ELSE redirect[r]
            BY <2>2
        <3>2. redirect' \in [Reports -> Reports \cup {None}] /\ expired' = expired \cup Gone
            BY <2>2 DEF TypeOK
        <3>3. ASSUME NEW r \in Reports, r \in Published, r \notin expired, r \notin Gone
              PROVE  r[2] \in versions'[r[1]]
                     \/ (redirect'[r] # None /\ redirect'[r][2] \in versions'[redirect'[r][1]])
            <4>1. r \notin sweep.ids /\ redirect[r] \notin sweep.ids /\ redirect'[r] = redirect[r]
                BY <3>1, <3>3 DEF Gone
            <4>2. Opens(r) \/ (redirect[r] # None /\ Opens(redirect[r]))
                BY <3>3 DEF AddressesOpen
            <4>3. redirect[r] \in Reports \cup {None}
                BY DEF TypeOK
            <4> QED  BY <4>1, <4>2, <4>3, <1>7 DEF Opens
        <3>4. Gone \subseteq Reports /\ Published' = Published /\ Published \subseteq Reports
            BY DEF Gone, Published
        <3>5. AddressesOpen'
            BY <3>2, <3>3, <3>4 DEF AddressesOpen, Opens
        <3>6. expired' \subseteq Reports
            BY <3>2, <3>4 DEF TypeOK
        <3> QED  BY <3>2, <3>5, <3>6
    <2> QED  BY <2>1, <2>2
<1>9. TypeOK'
    <2>1. job' \in [Jobs -> Job] /\ versions' \in [Jobs -> SUBSET (1 .. MaxVersions)]
        BY DEF TypeOK, Job, NoJob
    <2> QED  BY <1>3, <1>8, <2>1 DEF TypeOK
<1>10. RowsOK'
    <2>1. \A k \in Jobs : k > created => job'[k] = NoJob /\ made[k] = 0
        BY <1>4, <1>5, BoundAssumption DEF RowsOK, TypeOK, Jobs
    <2>2. \A k \in Jobs : /\ k <= created => job'[k].status # "none"
                          /\ versions'[k] \subseteq 1 .. made[k]
                          /\ job'[k].status = "working" => made[k] < MaxVersions
                          /\ job'[k].judged => Exists(k)'
        BY <1>4, <1>5 DEF RowsOK, Is, Exists
    <2> QED  BY <2>1, <2>2 DEF RowsOK, Is
<1>11. NoBytesWithoutRecord'
    BY <1>2, <1>4 DEF NoBytesWithoutRecord, Exists
<1>12. SweepOK'
    <2>1. \A k \in sweep.todo : k \in Jobs /\ Exists(k) /\ k # j
        BY <1>1 DEF SweepOK, TypeOK, Sweep
    <2>2. \A k \in sweep.todo : Exists(k)'
        BY <2>1, <1>4 DEF Exists
    <2> QED  BY <1>3, <2>2, RestHolds
<1> QED  BY <1>8, <1>9, <1>10, <1>11, <1>12

-----------------------------------------------------------------------------
(* Theorems *)

LEMMA StepHolds == RecordsInv /\ [Next]_vars => RecordsInv'
<1> SUFFICES ASSUME RecordsInv, [Next]_vars PROVE RecordsInv'
    OBVIOUS
<1>1. CASE UNCHANGED vars
    BY <1>1 DEF RecordsInv, TypeOK, RowsOK, SweepOK, AddressesOpen, NoBytesWithoutRecord, vars,
       reports, objects, Is, Exists, Rows, Opens, Published, Replaces, Unread
<1>2. ASSUME NEW j \in Jobs,
             Works(j) \/ BeginRefresh(j) \/ Project(j) \/ JudgmentEnds(j) \/ FileExpires(j)
      PROVE  RecordsInv'
    BY <1>2, PublishKeeps, WorkerKeeps, ProjectKeeps DEF Works
<1>3. ASSUME NEW v \in Visitors,
             (\E j \in Jobs : CheckAgain(v, j)) \/ CreateJob(v) \/ Link(v) \/ RequestDies(v)
      PROVE  RecordsInv'
    BY <1>3, VisitorKeeps, CreateJobKeeps, LinkKeeps
<1>4. CASE SweepGoesOn
    BY <1>4, ListKeeps, ExpireKeeps, KeepingKeeps, ReadIdsKeeps, DeleteOlderKeeps,
       DeleteFileKeeps, DeleteCopyKeeps, DeleteRecordKeeps DEF SweepGoesOn
<1>5. CASE DeletionFails \/ SweepDies
    BY <1>5, DeletionFailsKeeps, ListKeeps
<1> QED  BY <1>1, <1>2, <1>3, <1>4, <1>5 DEF Next

\* The invariant the others follow from: the rows, the deletion the sweep is
\* in the middle of, the addresses and the objects agree in every state
\* (keep_latest_reports, delete_paper_record, start_recheck).
THEOREM RecordsInvariant == Spec => []RecordsInv
<1>1. Init => RecordsInv
    BY InitHolds
<1>2. RecordsInv /\ [Next]_vars => RecordsInv'
    BY StepHolds
<1> QED  BY <1>1, <1>2, PTL DEF Spec

\* Rows, versions, addresses, requests and the sweep have their types.
THEOREM RecordTypes == Spec => []TypeOK
<1>1. RecordsInv => TypeOK
    BY DEF RecordsInv
<1> QED  BY <1>1, RecordsInvariant, PTL

\* The address of a published report opens a report until its record is
\* deleted at the end of its period, whatever is published, linked or refused
\* between the steps of a deletion (_redirect, delete_older_versions).
THEOREM AddressesStayOpen == Spec => []AddressesOpen
<1>1. RecordsInv => AddressesOpen
    BY DEF RecordsInv
<1> QED  BY <1>1, RecordsInvariant, PTL

\* No submitted file and no paper copy outlives its record, though a refresh
\* may attach a copy while the record is being deleted (delete_paper_record).
THEOREM BytesGoWithRecord == Spec => []NoBytesWithoutRecord
<1>1. RecordsInv => NoBytesWithoutRecord
    BY DEF RecordsInv
<1> QED  BY <1>1, RecordsInvariant, PTL

=============================================================================
