----------------------- MODULE SourceRepositoryProofs -----------------------
(* Proofs about SourceRepository, for every value of its constants. *)
EXTENDS SourceRepository, TLAPS

LEMMA IdleType == Idle \in Session /\ Idle.step = "idle" /\ Idle.doomed = {}
BY DEF Idle, Session, Steps

LEMMA SettlingType ==
    \A todo \in SUBSET Intent : /\ Settling(todo) \in Session
                                /\ Settling(todo).step \in {"idle", "settling"}
BY IdleType DEF Settling, Idle, Session, Steps

LEMMA GensAreNumbers == Gens \subseteq Nat /\ None \notin Gens
BY BoundAssumption DEF Gens

LEMMA EntryFields ==
    ASSUME NEW g
    PROVE  /\ Upload(g).gen = g /\ Upload(g).purpose = "upload"
           /\ Retirement(g).gen = g /\ Retirement(g).purpose = "retirement"
BY DEF Upload, Retirement

\* One session moves, and the others stay where they are.
LEMMA OneMoves ==
    ASSUME TypeOK, NEW s \in Sessions, NEW t \in Session, tx' = [tx EXCEPT ![s] = t]
    PROVE  /\ tx' \in [Sessions -> Session]
           /\ tx'[s] = t
           /\ \A q \in Sessions : q # s => tx'[q] = tx[q]
BY DEF TypeOK

\* The database gives up the locks of a session, and of nobody else.
LEMMA EndFrees ==
    ASSUME TypeOK, NEW s \in Sessions, NEW t \in Session, End(s, t)
    PROVE  /\ tx' = [tx EXCEPT ![s] = t]
           /\ lock' \in Sessions \cup {None} /\ rowLock' \in Sessions \cup {None}
           /\ lock' = lock \/ (lock = s /\ lock' = None)
           /\ rowLock' = rowLock \/ (rowLock = s /\ rowLock' = None)
BY DEF End, TypeOK

-----------------------------------------------------------------------------
(* The other sessions, when one session moves. *)

\* Nothing they rely on is written: it does not matter who has the lock.
LEMMA BystandersStay ==
    ASSUME RepositoryInv, NEW s \in Sessions, NEW t \in Session,
           tx' = [tx EXCEPT ![s] = t], UNCHANGED <<database, storage, journal, used>>,
           lock' = lock \/ lock \in {None, s},
           rowLock' = rowLock \/ rowLock \in {None, s}
    PROVE  \A q \in Sessions : q # s => LocksHeld(q)' /\ Journalled(q)'
<1> SUFFICES ASSUME NEW q \in Sessions, q # s PROVE LocksHeld(q)' /\ Journalled(q)'
    OBVIOUS
<1>1. tx'[q] = tx[q] /\ LocksHeld(q) /\ Journalled(q)
    BY OneMoves DEF RepositoryInv
<1>2. q # None
    BY SessionAssumption
<1>3. LocksHeld(q)'
    BY <1>1, <1>2 DEF LocksHeld, At, Present, Expired, database
<1>4. Journalled(q)'
    BY <1>1 DEF Journalled, At, database, storage, journal
<1> QED  BY <1>3, <1>4

\* With the lock free or in the hand of the one that moves, the others have
\* at most selected the row, which he then does not write.
LEMMA OthersWait ==
    ASSUME RepositoryInv, NEW s \in Sessions, NEW t \in Session,
           tx' = [tx EXCEPT ![s] = t], lock \in {None, s},
           rowLock' = rowLock \/ rowLock \in {None, s},
           locator' = locator \/ rowLock = s
    PROVE  \A q \in Sessions : q # s => LocksHeld(q)' /\ Journalled(q)'
<1> SUFFICES ASSUME NEW q \in Sessions, q # s PROVE LocksHeld(q)' /\ Journalled(q)'
    OBVIOUS
<1>1. tx'[q] = tx[q] /\ LocksHeld(q)
    BY OneMoves DEF RepositoryInv
<1>2. q # None
    BY SessionAssumption
<1>3. tx[q].step \notin Locked
    BY <1>1, <1>2 DEF LocksHeld
<1>4. tx[q].step \in Chosen => rowLock' = q /\ locator' = locator
    BY <1>1, <1>2 DEF LocksHeld
<1>5. LocksHeld(q)'
    BY <1>1, <1>3, <1>4 DEF LocksHeld, Locked, Chosen, At
<1>6. Journalled(q)'
    BY <1>1, <1>3 DEF Journalled, Locked, Admitting, At
<1> QED  BY <1>5, <1>6

\* A session that stands outside of a transaction owes nothing.
LEMMA Resting ==
    ASSUME NEW s \in Sessions,
           tx'[s].step \in {"idle", "settling", "expiring", "detached"}
    PROVE  LocksHeld(s)' /\ Journalled(s)'
BY DEF LocksHeld, Journalled, Locked, Chosen, Admitting, At

\* A step that writes nothing but what the session knows, and its locks.
LEMMA Bookkeeping ==
    ASSUME RepositoryInv, NEW s \in Sessions, NEW t \in Session,
           tx' = [tx EXCEPT ![s] = t], UNCHANGED <<database, storage, journal, used>>,
           lock' = lock \/ lock \in {None, s}, lock' \in Sessions \cup {None},
           rowLock' = rowLock \/ rowLock \in {None, s}, rowLock' \in Sessions \cup {None},
           faults' \in 0 .. MaxFaults,
           LocksHeld(s)' /\ Journalled(s)'
    PROVE  RepositoryInv'
<1>1. TypeOK'
    BY OneMoves DEF RepositoryInv, TypeOK, database, storage, journal
<1>2. ContentOK'
    BY DEF RepositoryInv, ContentOK, RepresentationsReadable, NothingUnnamed, Present,
           database, storage, journal
<1>3. \A q \in Sessions : LocksHeld(q)' /\ Journalled(q)'
    BY BystandersStay
<1> QED  BY <1>1, <1>2, <1>3 DEF RepositoryInv

\* The end of a transaction that wrote nothing.
LEMMA QuietEnd ==
    ASSUME RepositoryInv, NEW s \in Sessions, NEW t \in Session,
           t.step \in {"idle", "settling", "expiring", "detached"},
           End(s, t), UNCHANGED <<database, storage, journal, used>>,
           faults' \in 0 .. MaxFaults
    PROVE  RepositoryInv'
<1>1. TypeOK
    BY DEF RepositoryInv
<1>2. tx' = [tx EXCEPT ![s] = t] /\ tx'[s] = t
    BY <1>1, EndFrees, OneMoves
<1>3. LocksHeld(s)' /\ Journalled(s)'
    BY <1>2, Resting
<1> QED  BY <1>1, <1>2, <1>3, EndFrees, Bookkeeping

LEMMA FaultType == ASSUME TypeOK, Fault PROVE faults' \in 0 .. MaxFaults
BY BoundAssumption DEF TypeOK, Fault

-----------------------------------------------------------------------------
(* Initially, and in the steps of an admission. *)

LEMMA InitRepository == Init => RepositoryInv
<1> SUFFICES ASSUME Init PROVE RepositoryInv
    OBVIOUS
<1>1. TypeOK
    <2>1. 0 \in 0 .. MaxGen /\ 0 \in 0 .. MaxFaults
        BY BoundAssumption
    <2>2. refs \in [Refs -> RefState] /\ tx \in [Sessions -> Session]
        BY IdleType DEF Init, RefState
    <2> QED  BY <2>1, <2>2 DEF Init, TypeOK
<1>2. ContentOK
    BY DEF Init, ContentOK, RepresentationsReadable, NothingUnnamed, Present
<1>3. \A s \in Sessions : tx[s].step = "idle"
    BY IdleType DEF Init
<1>4. \A s \in Sessions : LocksHeld(s) /\ Journalled(s)
    BY <1>3 DEF LocksHeld, Journalled, Locked, Chosen, Admitting, At
<1> QED  BY <1>1, <1>2, <1>4 DEF RepositoryInv

LEMMA BeginsInOrder ==
    ASSUME RepositoryInv, NEW u \in Users, NEW r \in Refs, NEW keep \in {"kept", "dated"},
           BeginAdmission(u, r, keep)
    PROVE  RepositoryInv'
<1> DEFINE t == [Idle EXCEPT !.step = "admitting", !.ref = r, !.keep = keep]
<1>0. u \in Sessions
    BY DEF Sessions
<1>1. t \in Session /\ t.step = "admitting" /\ t.ref # None /\ t.gen = None
    BY IdleType, RefAssumption DEF Idle, Session, Steps
<1>2. tx' = [tx EXCEPT ![u] = t] /\ lock = None /\ lock' = u /\ rowLock' = rowLock
    BY DEF BeginAdmission, Take, Free
<1>3. UNCHANGED <<database, storage, journal, used, faults>> /\ used < MaxGen
    BY DEF BeginAdmission
<1> HIDE DEF t
<1>4. tx'[u] = t
    BY <1>0, <1>1, <1>2, OneMoves DEF RepositoryInv
<1>5. LocksHeld(u)' /\ Journalled(u)'
    BY <1>1, <1>2, <1>3, <1>4 DEF LocksHeld, Journalled, Locked, Chosen, Admitting, At
<1> QED  BY <1>0, <1>1, <1>2, <1>3, <1>5, Bookkeeping DEF RepositoryInv, TypeOK

LEMMA ReusesWhatExists ==
    ASSUME RepositoryInv, NEW u \in Users, ReuseObject(u)
    PROVE  RepositoryInv'
<1> DEFINE t == [tx[u] EXCEPT !.step = "staged", !.gen = locator]
<1>0. u \in Sessions /\ TypeOK /\ LocksHeld(u) /\ Journalled(u)
    BY DEF Sessions, RepositoryInv
<1>1. tx[u].step = "admitting" /\ lock = u /\ locator # None
    BY <1>0 DEF ReuseObject, LocksHeld, Locked, At
<1>2. UNCHANGED <<database, storage, journal, used, faults>>
    BY DEF ReuseObject
<1>3. CASE locator \in stored
    <2>0. tx[u] \in Session /\ locator \in Gens
        BY <1>0, <1>1 DEF TypeOK
    <2>1. t \in Session /\ t.step = "staged" /\ t.gen = locator /\ t.ref = tx[u].ref
        BY <2>0 DEF Session, Steps
    <2>2. tx' = [tx EXCEPT ![u] = t] /\ lock' = lock /\ rowLock' = rowLock
        BY <1>3 DEF ReuseObject, Move
    <2> HIDE DEF t
    <2>3. tx'[u] = t
        BY <1>0, <2>1, <2>2, OneMoves
    <2>4. LocksHeld(u)' /\ Journalled(u)'
        BY <1>0, <1>1, <1>2, <1>3, <2>1, <2>2, <2>3
        DEF LocksHeld, Journalled, Locked, Chosen, Admitting, At, database, storage
    <2> QED  BY <1>0, <1>2, <2>1, <2>2, <2>4, Bookkeeping DEF TypeOK
<1>4. CASE locator \notin stored
    <2>1. End(u, Idle)
        BY <1>4 DEF ReuseObject
    <2> QED  BY <1>0, <1>2, <2>1, IdleType, QuietEnd DEF TypeOK
<1> QED  BY <1>3, <1>4

\* A journal entry more: nothing that was named is unnamed.
LEMMA EntryAdded ==
    ASSUME RepositoryInv, NEW s \in Sessions, NEW t \in Session, NEW i \in Intent,
           tx' = [tx EXCEPT ![s] = t], lock = s, UNCHANGED <<lock, rowLock, faults>>,
           UNCHANGED <<database, storage, confirmed>>,
           intents' = intents \cup {i}, used' \in used .. MaxGen,
           LocksHeld(s)' /\ Journalled(s)'
    PROVE  RepositoryInv'
<1>1. used \in Nat /\ used' \in 0 .. MaxGen /\ 1 .. used \subseteq 1 .. used'
    BY BoundAssumption DEF RepositoryInv, TypeOK
<1>2. TypeOK'
    BY <1>1, OneMoves DEF RepositoryInv, TypeOK, database, storage
<1>3. ContentOK'
    BY <1>1 DEF RepositoryInv, ContentOK, RepresentationsReadable, NothingUnnamed, Present,
                database, storage
<1>4. \A q \in Sessions : LocksHeld(q)' /\ Journalled(q)'
    BY OthersWait DEF database
<1> QED  BY <1>2, <1>3, <1>4 DEF RepositoryInv

LEMMA RetirementIsJournalled ==
    ASSUME RepositoryInv, NEW u \in Users, JournalRetirement(u)
    PROVE  RepositoryInv'
<1> DEFINE i == Retirement(locator)
<1> DEFINE t == [tx[u] EXCEPT !.step = "retired", !.todo = @ \cup {i}]
<1>0. u \in Sessions /\ TypeOK /\ LocksHeld(u) /\ Journalled(u)
    BY DEF Sessions, RepositoryInv
<1>1. tx[u].step = "admitting" /\ lock = u /\ locator \in Gens
    BY <1>0 DEF JournalRetirement, LocksHeld, Locked, At, TypeOK
<1>2. UNCHANGED <<database, storage, confirmed, used, faults>>
    BY DEF JournalRetirement
<1>3. CASE Present = {}
    <2>1. i \in Intent
        BY <1>1 DEF Retirement, Intent
    <2>2. t \in Session /\ t.step = "retired" /\ t.ref = tx[u].ref /\ t.gen = tx[u].gen
        BY <1>0, <2>1 DEF TypeOK, Session, Steps
    <2>3. /\ tx' = [tx EXCEPT ![u] = t] /\ lock' = lock /\ rowLock' = rowLock
          /\ intents' = intents \cup {i}
        BY <1>3 DEF JournalRetirement, Move
    <2>4. Retirement(locator)' = i
        BY <1>2 DEF database, Retirement
    <2> HIDE DEF t, i
    <2>5. tx'[u] = t
        BY <1>0, <2>2, <2>3, OneMoves
    <2>6. LocksHeld(u)' /\ Journalled(u)'
        BY <1>0, <1>1, <1>2, <2>2, <2>3, <2>4, <2>5
        DEF LocksHeld, Journalled, Locked, Chosen, Admitting, At
    <2>7. used' \in used .. MaxGen
        BY <1>0, <1>2, BoundAssumption DEF TypeOK
    <2> QED  BY <1>0, <1>1, <1>2, <2>1, <2>2, <2>3, <2>6, <2>7, EntryAdded
<1>4. CASE Present # {}
    <2>1. End(u, Idle) /\ UNCHANGED journal
        BY <1>4 DEF JournalRetirement, journal
    <2> QED  BY <1>0, <1>2, <2>1, IdleType, QuietEnd DEF TypeOK
<1> QED  BY <1>3, <1>4

LEMMA UploadIsJournalled ==
    ASSUME RepositoryInv, NEW u \in Users, JournalUpload(u)
    PROVE  RepositoryInv'
<1> DEFINE g == used + 1
<1> DEFINE i == Upload(g)
<1> DEFINE t == [tx[u] EXCEPT !.step = "journalled", !.gen = g, !.todo = @ \cup {i}]
<1>0. u \in Sessions /\ TypeOK /\ LocksHeld(u) /\ Journalled(u)
    BY DEF Sessions, RepositoryInv
<1>1. /\ tx[u].step \in {"admitting", "retired"} /\ lock = u
      /\ tx[u].step = "admitting" => locator = None
    BY <1>0 DEF JournalUpload, LocksHeld, Locked, At
<1>2. used < MaxGen /\ used' = g /\ UNCHANGED <<database, storage, confirmed, faults>>
    BY <1>0, <1>1 DEF JournalUpload, Journalled
<1>3. g \in Gens /\ g \in Nat /\ used \in Nat /\ used' \in used .. MaxGen /\ g \in 1 .. used'
    BY <1>0, <1>2, BoundAssumption DEF TypeOK, Gens
<1>4. i \in Intent /\ g # None
    BY <1>3, GensAreNumbers DEF Upload, Intent
<1>5. /\ t \in Session /\ t.step = "journalled" /\ t.gen = g
      /\ t.ref = tx[u].ref /\ t.receipt = tx[u].receipt
    <2>1. tx[u] \in Session
        BY <1>0 DEF TypeOK
    <2>2. "journalled" \in Steps
        BY DEF Steps
    <2> HIDE DEF g, i
    <2> QED  BY <1>3, <1>4, <2>1, <2>2 DEF Session
<1>6. /\ tx' = [tx EXCEPT ![u] = t] /\ lock' = lock /\ rowLock' = rowLock
      /\ intents' = intents \cup {i}
    BY <1>2 DEF JournalUpload, Move
<1>7. g \notin confirmed
    BY <1>3 DEF RepositoryInv, ContentOK
<1>8. locator # None => Retirement(locator)' \in intents'
    <2>1. SUFFICES ASSUME locator # None PROVE Retirement(locator) \in intents
        BY <1>2, <1>6 DEF database, Retirement
    <2>2. tx[u].step = "retired"
        BY <1>1, <2>1
    <2> QED  BY <1>0, <2>1, <2>2 DEF Journalled, Admitting
<1> HIDE DEF t
<1>9. tx'[u] = t
    BY <1>0, <1>5, <1>6, OneMoves
<1>10. LocksHeld(u)'
    BY <1>1, <1>5, <1>6, <1>9 DEF LocksHeld, Locked, Chosen, At
<1>11. Journalled(u)'
    BY <1>0, <1>1, <1>2, <1>3, <1>4, <1>5, <1>6, <1>7, <1>8, <1>9
    DEF Journalled, Admitting, At, database
<1> HIDE DEF i
<1> QED  BY <1>0, <1>1, <1>2, <1>3, <1>4, <1>5, <1>6, <1>10, <1>11, EntryAdded

\* The bytes may be there from now on, and the journal says so.
LEMMA PutIsJournalled ==
    ASSUME RepositoryInv, NEW u \in Users, StartPut(u)
    PROVE  RepositoryInv'
<1> DEFINE g == tx[u].gen
<1> DEFINE t == [tx[u] EXCEPT !.step = "putting"]
<1>0. u \in Sessions /\ TypeOK /\ LocksHeld(u) /\ Journalled(u) /\ tx[u] \in Session
    BY DEF Sessions, RepositoryInv, TypeOK
<1>1. tx[u].step = "journalled" /\ lock = u /\ g \in Gens /\ g \in 1 .. used
    BY <1>0 DEF StartPut, LocksHeld, Journalled, Locked, At, Session
<1>2. UNCHANGED <<database, stored, journal, used, faults>> /\ late' = late \cup {g}
    BY DEF StartPut
<1>3. t \in Session /\ t.step = "putting" /\ t.gen = g /\ t.ref = tx[u].ref
    BY <1>0 DEF Session, Steps
<1>4. tx' = [tx EXCEPT ![u] = t] /\ lock' = lock /\ rowLock' = rowLock
    BY DEF StartPut, Move
<1> HIDE DEF t
<1>5. tx'[u] = t
    BY <1>0, <1>3, <1>4, OneMoves
<1>6. TypeOK'
    BY <1>0, <1>1, <1>2, <1>3, <1>4, OneMoves DEF TypeOK, database, journal
<1>7. ContentOK'
    BY <1>0, <1>1, <1>2 DEF RepositoryInv, ContentOK, RepresentationsReadable, NothingUnnamed,
        Present, Journalled, Upload, Retirement, database, journal
<1>8. LocksHeld(u)' /\ Journalled(u)'
    BY <1>0, <1>1, <1>2, <1>3, <1>4, <1>5
    DEF LocksHeld, Journalled, Locked, Chosen, Admitting, At, database, journal
<1>9. \A q \in Sessions : q # u => LocksHeld(q)' /\ Journalled(q)'
    BY <1>0, <1>1, <1>2, <1>3, <1>4, OthersWait DEF database
<1> QED  BY <1>6, <1>7, <1>8, <1>9 DEF RepositoryInv

LEMMA PutReturnsInOrder ==
    ASSUME RepositoryInv, NEW u \in Users, PutReturns(u)
    PROVE  RepositoryInv'
<1> DEFINE g == tx[u].gen
<1>0. u \in Sessions /\ TypeOK /\ LocksHeld(u) /\ Journalled(u) /\ tx[u] \in Session
    BY DEF Sessions, RepositoryInv, TypeOK
<1>1. tx[u].step = "putting" /\ lock = u /\ g \in stored
    BY <1>0 DEF PutReturns, LocksHeld, Locked, At
<1>2. UNCHANGED <<database, stored, journal, used, faults>>
    BY DEF PutReturns
<1>3. PICK receipt \in BOOLEAN :
         /\ late' = IF receipt THEN late \ {g} ELSE late
         /\ Move(u, [tx[u] EXCEPT !.step = "put", !.receipt = receipt])
    BY DEF PutReturns
<1> DEFINE t == [tx[u] EXCEPT !.step = "put", !.receipt = receipt]
<1>4. t \in Session /\ t.step = "put" /\ t.gen = g /\ t.ref = tx[u].ref /\ t.receipt = receipt
    BY <1>0 DEF Session, Steps
<1>5. tx' = [tx EXCEPT ![u] = t] /\ lock' = lock /\ rowLock' = rowLock
    BY <1>3 DEF Move
<1> HIDE DEF t
<1>6. tx'[u] = t
    BY <1>0, <1>4, <1>5, OneMoves
<1>7. late' \subseteq late /\ (receipt => g \notin late')
    BY <1>3
<1>8. TypeOK'
    BY <1>0, <1>2, <1>4, <1>5, <1>7, OneMoves DEF TypeOK, database, journal
<1>9. ContentOK'
    BY <1>2, <1>7 DEF RepositoryInv, ContentOK, RepresentationsReadable, NothingUnnamed,
        Present, Upload, Retirement, database, journal
<1>10. LocksHeld(u)' /\ Journalled(u)'
    BY <1>0, <1>1, <1>2, <1>4, <1>5, <1>6, <1>7
    DEF LocksHeld, Journalled, Locked, Chosen, Admitting, At, database, journal
<1>11. \A q \in Sessions : q # u => LocksHeld(q)' /\ Journalled(q)'
    BY <1>0, <1>1, <1>2, <1>4, <1>5, OthersWait DEF database
<1> QED  BY <1>8, <1>9, <1>10, <1>11 DEF RepositoryInv

\* The receipt of a PUT that cannot be repeated settles its entry.
LEMMA ConfirmationIsTrue ==
    ASSUME RepositoryInv, NEW u \in Users, At(u, "put"),
           UNCHANGED <<database, storage, intents, used>>,
           \/ confirmed' = confirmed
           \/ tx[u].receipt /\ confirmed' = confirmed \cup {tx[u].gen}
    PROVE  ContentOK' /\ confirmed' \in SUBSET Gens
<1>1. u \in Sessions /\ Journalled(u) /\ tx[u] \in Session
    BY DEF Sessions, RepositoryInv, TypeOK
<1>2. tx[u].gen \in Gens /\ tx[u].gen \in 1 .. used /\ (tx[u].receipt => tx[u].gen \notin late)
    BY <1>1 DEF Journalled, At, Session
<1>3. confirmed' \in SUBSET Gens
    BY <1>2 DEF RepositoryInv, TypeOK
<1>4. ContentOK'
    BY <1>2 DEF RepositoryInv, ContentOK, RepresentationsReadable, NothingUnnamed,
        Present, Upload, Retirement, database, storage
<1> QED  BY <1>3, <1>4

LEMMA StagesInOrder ==
    ASSUME RepositoryInv, NEW u \in Users, ConfirmAndStage(u)
    PROVE  RepositoryInv'
<1> DEFINE t == [tx[u] EXCEPT !.step = "staged"]
<1>0. u \in Sessions /\ TypeOK /\ LocksHeld(u) /\ Journalled(u) /\ tx[u] \in Session
    BY DEF Sessions, RepositoryInv, TypeOK
<1>1. tx[u].step = "put" /\ At(u, "put") /\ lock = u /\ rowLock \in {None, u} /\ rowLock' = u
    BY <1>0 DEF ConfirmAndStage, LocksHeld, Locked, At
<1>2. /\ UNCHANGED <<database, storage, intents, used, lock, faults>>
      /\ \/ confirmed' = confirmed
         \/ tx[u].receipt /\ confirmed' = confirmed \cup {tx[u].gen}
    BY DEF ConfirmAndStage
<1>3. t \in Session /\ t.step = "staged" /\ t.gen = tx[u].gen /\ t.ref = tx[u].ref
    BY <1>0 DEF Session, Steps
<1>4. tx' = [tx EXCEPT ![u] = t]
    BY DEF ConfirmAndStage
<1> HIDE DEF t
<1>5. tx'[u] = t
    BY <1>0, <1>3, <1>4, OneMoves
<1>6. ContentOK' /\ confirmed' \in SUBSET Gens
    BY <1>1, <1>2, ConfirmationIsTrue
<1>7. TypeOK'
    BY <1>0, <1>1, <1>2, <1>3, <1>4, <1>6, OneMoves DEF TypeOK, database, storage
<1>8. LocksHeld(u)' /\ Journalled(u)'
    BY <1>0, <1>1, <1>2, <1>3, <1>5
    DEF LocksHeld, Journalled, Locked, Chosen, Admitting, At, database, storage
<1>9. \A q \in Sessions : q # u => LocksHeld(q)' /\ Journalled(q)'
    BY <1>0, <1>1, <1>2, <1>3, <1>4, OthersWait DEF database
<1> QED  BY <1>6, <1>7, <1>8, <1>9 DEF RepositoryInv

\* The new locator names what was stored; the old one is in the journal.
LEMMA CommitsInOrder ==
    ASSUME RepositoryInv, NEW u \in Users, CommitAdmission(u)
    PROVE  RepositoryInv'
<1> DEFINE t == Settling(tx[u].todo)
<1>0. u \in Sessions /\ TypeOK /\ LocksHeld(u) /\ Journalled(u) /\ tx[u] \in Session
    BY DEF Sessions, RepositoryInv, TypeOK
<1>1. /\ tx[u].step = "staged" /\ lock = u /\ tx[u].gen \in Gens /\ tx[u].gen # None
      /\ tx[u].gen \in stored /\ tx[u].ref \in Refs /\ (tx[u].gen # locator => rowLock = u)
    BY <1>0 DEF CommitAdmission, LocksHeld, Journalled, Locked, At, Session
<1>2. /\ locator' = tx[u].gen /\ pending' = FALSE
      /\ refs' = [refs EXCEPT ![tx[u].ref] = Renewed(tx[u].ref, tx[u].keep)]
      /\ UNCHANGED <<storage, journal, used, faults>>
    BY DEF CommitAdmission
<1>3. t \in Session /\ t.step \in {"idle", "settling"}
    BY <1>0, SettlingType DEF Session
<1>4. End(u, t)
    BY DEF CommitAdmission
<1> HIDE DEF t
<1>5. /\ tx' = [tx EXCEPT ![u] = t] /\ tx'[u] = t
      /\ lock' \in Sessions \cup {None} /\ rowLock' \in Sessions \cup {None}
      /\ rowLock' = rowLock \/ rowLock \in {None, u}
    BY <1>0, <1>3, <1>4, EndFrees, OneMoves
<1>6. Renewed(tx[u].ref, tx[u].keep) \in RefState
    BY <1>0 DEF Renewed, RefState, Session
<1>7. TypeOK'
    BY <1>0, <1>1, <1>2, <1>3, <1>5, <1>6, OneMoves DEF TypeOK, storage, journal
<1>8. ContentOK'
    <2>1. \A g \in stored : g # tx[u].gen =>
             Upload(g) \in intents \/ Retirement(g) \in intents
        <3>1. \A g \in stored : g # None
            BY <1>0, GensAreNumbers DEF TypeOK
        <3> QED  BY <1>0, <1>1, <3>1 DEF RepositoryInv, ContentOK, NothingUnnamed, Journalled, Admitting
    <2> QED  BY <1>1, <1>2, <2>1 DEF RepositoryInv, ContentOK, RepresentationsReadable,
                NothingUnnamed, Present, Upload, Retirement, storage, journal
<1>9. \A q \in Sessions : q # u => LocksHeld(q)' /\ Journalled(q)'
    BY <1>0, <1>1, <1>2, <1>3, <1>5, OthersWait
<1>10. LocksHeld(u)' /\ Journalled(u)'
    BY <1>0, <1>3, <1>5, Resting
<1> QED  BY <1>7, <1>8, <1>9, <1>10 DEF RepositoryInv

LEMMA RollsBackInOrder ==
    ASSUME RepositoryInv, NEW u \in Users, RollbackAdmission(u)
    PROVE  RepositoryInv'
<1> DEFINE t == Settling(tx[u].todo)
<1>0. u \in Sessions /\ TypeOK /\ LocksHeld(u) /\ Journalled(u) /\ tx[u] \in Session
    BY DEF Sessions, RepositoryInv, TypeOK
<1>1. UNCHANGED <<database, storage, intents, used>> /\ faults' \in 0 .. MaxFaults
    BY <1>0, FaultType DEF RollbackAdmission
<1>2. t \in Session /\ t.step \in {"idle", "settling"} /\ End(u, t)
    BY <1>0, SettlingType DEF Session, RollbackAdmission
<1>3. CASE confirmed' = confirmed
    BY <1>0, <1>1, <1>2, <1>3, QuietEnd DEF journal
<1>4. CASE confirmed' # confirmed
    <2>1. At(u, "put") /\ tx[u].receipt /\ confirmed' = confirmed \cup {tx[u].gen}
        BY <1>4 DEF RollbackAdmission
    <2>2. ContentOK' /\ confirmed' \in SUBSET Gens
        BY <1>1, <2>1, ConfirmationIsTrue
    <2>3. lock = u
        BY <1>0, <2>1 DEF LocksHeld, At, Locked
    <2> HIDE DEF t
    <2>4. /\ tx' = [tx EXCEPT ![u] = t] /\ tx'[u] = t
          /\ lock' \in Sessions \cup {None} /\ rowLock' \in Sessions \cup {None}
          /\ rowLock' = rowLock \/ rowLock \in {None, u}
        BY <1>0, <1>2, EndFrees, OneMoves
    <2>5. TypeOK'
        BY <1>0, <1>1, <1>2, <2>2, <2>4, OneMoves DEF TypeOK, database, storage
    <2>6. \A q \in Sessions : q # u => LocksHeld(q)' /\ Journalled(q)'
        BY <1>0, <1>1, <1>2, <2>3, <2>4, OthersWait DEF database
    <2>7. LocksHeld(u)' /\ Journalled(u)'
        BY <1>0, <1>2, <2>4, Resting
    <2> QED  BY <2>2, <2>5, <2>6, <2>7 DEF RepositoryInv
<1> QED  BY <1>3, <1>4

LEMMA AdmissionKeeps ==
    ASSUME RepositoryInv, NEW u \in Users, Admission(u)
    PROVE  RepositoryInv'
BY BeginsInOrder, ReusesWhatExists, RetirementIsJournalled, UploadIsJournalled,
   PutIsJournalled, PutReturnsInOrder, StagesInOrder, CommitsInOrder, RollsBackInOrder
DEF Admission

-----------------------------------------------------------------------------
(* The clean-up of journal entries. *)

\* An object goes only if the row does not name it.
LEMMA ObjectDeleted ==
    ASSUME RepositoryInv, NEW s \in Sessions, NEW t \in Session, lock = s,
           tx' = [tx EXCEPT ![s] = t], NEW g,
           stored' \subseteq stored, stored \ stored' \subseteq {g}, g = locator => Present = {},
           UNCHANGED <<database, late, journal, used, lock, rowLock, faults>>,
           LocksHeld(s)' /\ Journalled(s)'
    PROVE  RepositoryInv'
<1>1. TypeOK'
    BY OneMoves DEF RepositoryInv, TypeOK, database, journal
<1>2. ContentOK'
    BY DEF RepositoryInv, ContentOK, RepresentationsReadable, NothingUnnamed, Present,
           Upload, Retirement, database, journal
<1>3. \A q \in Sessions : q # s => LocksHeld(q)' /\ Journalled(q)'
    BY OthersWait DEF database
<1> QED  BY <1>1, <1>2, <1>3 DEF RepositoryInv

\* A session that takes the lock in order to look at an entry.
LEMMA TakesEntry ==
    ASSUME RepositoryInv, NEW s \in Sessions, NEW t \in Session, Free, Take(s, t),
           t.step = "checking", t.intent # None,
           UNCHANGED <<database, storage, journal, used, faults>>
    PROVE  RepositoryInv'
<1>1. tx' = [tx EXCEPT ![s] = t] /\ lock = None /\ lock' = s /\ rowLock' = rowLock
    BY DEF Take, Free
<1>2. tx'[s] = t /\ TypeOK
    BY <1>1, OneMoves DEF RepositoryInv
<1>3. LocksHeld(s)' /\ Journalled(s)'
    BY <1>1, <1>2 DEF LocksHeld, Journalled, Locked, Chosen, Admitting, At
<1> QED  BY <1>1, <1>2, <1>3, Bookkeeping DEF TypeOK

LEMMA CleanupKeeps ==
    ASSUME RepositoryInv, NEW s \in Sessions,
           CheckIntent(s) \/ RetireIntent(s) \/ CleanupFails(s)
    PROVE  RepositoryInv'
<1>0. TypeOK /\ LocksHeld(s) /\ Journalled(s) /\ tx[s] \in Session
    BY DEF RepositoryInv, TypeOK
<1> DEFINE i == tx[s].intent
<1>1. CASE CheckIntent(s)
    <2> DEFINE t == [tx[s] EXCEPT !.step = "cleaned"]
    <2>1. lock = s /\ i \in Intent
        BY <1>0, <1>1 DEF CheckIntent, LocksHeld, Locked, At, Session
    <2>2. t \in Session /\ t.step = "cleaned" /\ t.intent = i
        BY <1>0 DEF Session, Steps
    <2>3. /\ tx' = [tx EXCEPT ![s] = t] /\ UNCHANGED <<lock, rowLock>>
          /\ UNCHANGED <<database, late, journal, used, faults>>
          /\ stored' \subseteq stored /\ stored \ stored' \subseteq {i.gen}
          /\ (i.gen = locator => stored' = stored)
        BY <1>1 DEF CheckIntent, Move, Referenced
    <2> HIDE DEF t
    <2>4. tx'[s] = t
        BY <1>0, <2>2, <2>3, OneMoves
    <2>5. LocksHeld(s)' /\ Journalled(s)'
        BY <1>0, <1>1, <2>1, <2>2, <2>3, <2>4
        DEF CheckIntent, LocksHeld, Journalled, Locked, Chosen, Admitting, At
    <2>6. CASE i.gen = locator
        BY <1>0, <2>1, <2>2, <2>3, <2>5, <2>6, Bookkeeping DEF TypeOK, storage
    <2>7. CASE i.gen # locator
        BY <2>1, <2>2, <2>3, <2>5, <2>7, ObjectDeleted
    <2> QED  BY <2>6, <2>7
<1>2. CASE RetireIntent(s)
    <2> DEFINE t == Settling(tx[s].todo)
    <2>1. lock = s /\ i \in Intent
        BY <1>0, <1>2 DEF RetireIntent, LocksHeld, Locked, At, Session
    <2>2. t \in Session /\ t.step \in {"idle", "settling"} /\ End(s, t)
        BY <1>0, <1>2, SettlingType DEF RetireIntent, Session
    <2>3. UNCHANGED <<database, storage, confirmed, used, faults>>
        BY <1>2 DEF RetireIntent
    <2>4. CASE intents' = intents
        BY <1>0, <2>2, <2>3, <2>4, QuietEnd DEF TypeOK, journal
    <2>5. CASE intents' # intents
        <3>1. NeverReturns(i) /\ Settled(i) /\ intents' = intents \ {i}
            BY <1>2, <2>5 DEF RetireIntent
        <3> HIDE DEF t
        <3>2. /\ tx' = [tx EXCEPT ![s] = t] /\ tx'[s] = t
              /\ lock' \in Sessions \cup {None} /\ rowLock' \in Sessions \cup {None}
              /\ rowLock' = rowLock \/ rowLock \in {None, s}
            BY <1>0, <2>2, EndFrees, OneMoves
        <3>3. TypeOK'
            BY <1>0, <2>2, <2>3, <3>1, <3>2, OneMoves DEF TypeOK, database, storage
        <3>4. \A g \in stored : locator = g \/ Upload(g) \in intents' \/ Retirement(g) \in intents'
            <4> SUFFICES ASSUME NEW g \in stored, locator # g
                         PROVE  Upload(g) \in intents' \/ Retirement(g) \in intents'
                OBVIOUS
            <4>1. Upload(g) \in intents \/ Retirement(g) \in intents
                BY DEF RepositoryInv, ContentOK, NothingUnnamed
            <4>2. i.gen # g
                BY <3>1 DEF NeverReturns, Referenced
            <4> QED  BY <3>1, <4>1, <4>2, EntryFields
        <3>5. \A g \in late : Upload(g) \in intents' /\ g \notin confirmed
            <4> SUFFICES ASSUME NEW g \in late
                         PROVE  Upload(g) \in intents' /\ g \notin confirmed
                OBVIOUS
            <4>1. Upload(g) \in intents /\ g \notin confirmed
                BY DEF RepositoryInv, ContentOK, NothingUnnamed
            <4>2. i # Upload(g)
                BY <3>1, <4>1, EntryFields DEF Settled
            <4> QED  BY <3>1, <4>1, <4>2
        <3>6. ContentOK'
            BY <2>3, <3>4, <3>5 DEF RepositoryInv, ContentOK, RepresentationsReadable,
                NothingUnnamed, Present, Upload, Retirement, database, storage
        <3>7. \A q \in Sessions : q # s => LocksHeld(q)' /\ Journalled(q)'
            BY <2>1, <2>2, <2>3, <3>2, OthersWait DEF database
        <3>8. LocksHeld(s)' /\ Journalled(s)'
            BY <2>2, <3>2, Resting
        <3> QED  BY <3>3, <3>6, <3>7, <3>8 DEF RepositoryInv
    <2> QED  BY <2>4, <2>5
<1>3. CASE CleanupFails(s)
    <2>1. Settling(tx[s].todo) \in Session /\ Settling(tx[s].todo).step \in {"idle", "settling"}
        BY <1>0, SettlingType DEF Session
    <2>2. End(s, Settling(tx[s].todo)) /\ UNCHANGED <<database, storage, journal, used>>
        BY <1>3 DEF CleanupFails
    <2> QED  BY <1>0, <1>3, <2>1, <2>2, FaultType, QuietEnd DEF CleanupFails
<1> QED  BY <1>1, <1>2, <1>3

LEMMA EntryIsLookedAt ==
    ASSUME RepositoryInv, NEW i \in Intent,
           SweepIntent(i) \/ \E u \in Users : SettleOwn(u, i) \/ SkipOwn(u, i)
    PROVE  RepositoryInv'
<1>0. TypeOK /\ i # None
    BY IntentAssumption DEF RepositoryInv
<1>1. CASE SweepIntent(i)
    <2>1. /\ [Idle EXCEPT !.step = "checking", !.intent = i] \in Session
          /\ [Idle EXCEPT !.step = "checking", !.intent = i].step = "checking"
          /\ [Idle EXCEPT !.step = "checking", !.intent = i].intent = i
        BY IdleType DEF Idle, Session, Steps
    <2> QED  BY <1>0, <1>1, <2>1, TakesEntry DEF SweepIntent, Sessions
<1>2. ASSUME NEW u \in Users, SettleOwn(u, i) PROVE RepositoryInv'
    <2> DEFINE t == [tx[u] EXCEPT !.step = "checking", !.intent = i, !.todo = @ \ {i}]
    <2>1. u \in Sessions /\ tx[u] \in Session
        BY <1>0 DEF Sessions, TypeOK
    <2>2. t \in Session /\ t.step = "checking" /\ t.intent = i
        BY <2>1 DEF Session, Steps
    <2>3. Free /\ Take(u, t) /\ UNCHANGED <<database, storage, journal, used, faults>>
        BY <1>2 DEF SettleOwn
    <2> HIDE DEF t
    <2> QED  BY <1>0, <2>1, <2>2, <2>3, TakesEntry
<1>3. ASSUME NEW u \in Users, SkipOwn(u, i) PROVE RepositoryInv'
    <2> DEFINE t == Settling(tx[u].todo \ {i})
    <2>1. u \in Sessions /\ tx[u] \in Session
        BY <1>0 DEF Sessions, TypeOK
    <2>2. t \in Session /\ t.step \in {"idle", "settling"}
        BY <2>1, SettlingType DEF Session
    <2>3. /\ tx' = [tx EXCEPT ![u] = t] /\ UNCHANGED <<lock, rowLock, faults>>
          /\ UNCHANGED <<database, storage, journal, used>>
        BY <1>3 DEF SkipOwn, Move
    <2> HIDE DEF t
    <2>4. LocksHeld(u)' /\ Journalled(u)'
        BY <1>0, <2>1, <2>2, <2>3, OneMoves, Resting
    <2> QED  BY <1>0, <2>1, <2>2, <2>3, <2>4, Bookkeeping DEF TypeOK
<1> QED  BY <1>1, <1>2, <1>3

-----------------------------------------------------------------------------
(* Expiry, deletion and the end of the object. *)

LEMMA DetachKeeps ==
    ASSUME RepositoryInv,
           \/ SelectExpired \/ DetachExpired \/ SkipExpired
           \/ \E u \in Users, r \in Refs : DeleteSource(u, r)
           \/ \E s \in Sessions : CommitDetach(s)
    PROVE  RepositoryInv'
<1>0. /\ TypeOK /\ Sweeper \in Sessions /\ Users \subseteq Sessions
      /\ \A s \in Sessions : LocksHeld(s) /\ Journalled(s) /\ tx[s] \in Session
    BY DEF RepositoryInv, TypeOK, Sessions
<1>1. CASE SelectExpired
    <2> DEFINE t == [Idle EXCEPT !.step = "expiring", !.doomed = Expired]
    <2>1. t \in Session /\ t.step = "expiring"
        BY IdleType DEF Idle, Session, Steps, Expired
    <2>2. /\ tx' = [tx EXCEPT ![Sweeper] = t] /\ UNCHANGED <<lock, rowLock>>
          /\ UNCHANGED <<database, storage, journal, used, faults>>
        BY <1>1 DEF SelectExpired, Move
    <2> HIDE DEF t
    <2>3. LocksHeld(Sweeper)' /\ Journalled(Sweeper)'
        BY <1>0, <2>1, <2>2, OneMoves, Resting
    <2> QED  BY <1>0, <2>1, <2>2, <2>3, Bookkeeping DEF TypeOK
<1>2. CASE SkipExpired
    <2>1. /\ tx' = [tx EXCEPT ![Sweeper] = Idle] /\ UNCHANGED <<lock, rowLock>>
          /\ UNCHANGED <<database, storage, journal, used, faults>>
        BY <1>2 DEF SkipExpired, Move
    <2>2. LocksHeld(Sweeper)' /\ Journalled(Sweeper)'
        BY <1>0, <2>1, IdleType, OneMoves, Resting
    <2> QED  BY <1>0, <2>1, <2>2, IdleType, Bookkeeping DEF TypeOK
<1>3. CASE DetachExpired
    <2> DEFINE t == [tx[Sweeper] EXCEPT !.step = "detaching", !.doomed = StillExpired(@)]
    <2>1. t \in Session /\ t.step = "detaching" /\ t.doomed \subseteq Expired
        BY <1>0 DEF Session, Steps, StillExpired
    <2>2. /\ tx' = [tx EXCEPT ![Sweeper] = t] /\ lock = None /\ lock' = Sweeper
          /\ rowLock' = rowLock /\ UNCHANGED <<database, storage, journal, used, faults>>
        BY <1>3 DEF DetachExpired, Take, Free
    <2> HIDE DEF t
    <2>3. tx'[Sweeper] = t
        BY <1>0, <2>1, <2>2, OneMoves
    <2>4. t.doomed # {} => locator # None
        BY <2>1 DEF RepositoryInv, ContentOK, Expired, Present
    <2>5. LocksHeld(Sweeper)' /\ Journalled(Sweeper)'
        BY <2>1, <2>2, <2>3, <2>4
        DEF LocksHeld, Journalled, Locked, Chosen, Admitting, At, Expired, database
    <2> QED  BY <1>0, <2>1, <2>2, <2>5, Bookkeeping DEF TypeOK
<1>4. ASSUME NEW u \in Users, NEW r \in Refs, DeleteSource(u, r) PROVE RepositoryInv'
    <2> DEFINE t == [Idle EXCEPT !.step = "detaching", !.doomed = {r}]
    <2>1. t \in Session /\ t.step = "detaching" /\ u # Sweeper
        BY IdleType, SessionAssumption DEF Idle, Session, Steps
    <2>2. /\ tx' = [tx EXCEPT ![u] = t] /\ lock = None /\ lock' = u
          /\ rowLock' = rowLock /\ UNCHANGED <<database, storage, journal, used, faults>>
        BY <1>4 DEF DeleteSource, Take, Free
    <2> HIDE DEF t
    <2>3. tx'[u] = t
        BY <1>0, <2>1, <2>2, OneMoves
    <2>4. locator # None
        BY <1>4 DEF RepositoryInv, ContentOK, DeleteSource
    <2>5. LocksHeld(u)' /\ Journalled(u)'
        BY <2>1, <2>2, <2>3, <2>4
        DEF LocksHeld, Journalled, Locked, Chosen, Admitting, At, database
    <2> QED  BY <1>0, <2>1, <2>2, <2>5, Bookkeeping DEF TypeOK
<1>5. ASSUME NEW s \in Sessions, CommitDetach(s) PROVE RepositoryInv'
    <2> DEFINE gone == tx[s].doomed
    <2> DEFINE t == IF s \in Users THEN [Idle EXCEPT !.step = "detached"] ELSE Idle
    <2>1. t \in Session /\ t.step \in {"idle", "detached"} /\ lock = s
        BY <1>0, <1>5, IdleType DEF Idle, Session, Steps, CommitDetach, LocksHeld, Locked, At
    <2>2. /\ refs' = [r \in Refs |-> IF r \in gone THEN "absent" ELSE refs[r]]
          /\ pending' = (pending \/ Tombstones(gone))
          /\ End(s, t) /\ UNCHANGED <<locator, storage, journal, used, faults>>
        BY <1>5 DEF CommitDetach
    <2> HIDE DEF t
    <2>3. /\ tx' = [tx EXCEPT ![s] = t] /\ tx'[s] = t
          /\ lock' \in Sessions \cup {None} /\ rowLock' \in Sessions \cup {None}
          /\ rowLock' = rowLock \/ rowLock \in {None, s}
        BY <1>0, <2>1, <2>2, EndFrees, OneMoves
    <2>4. TypeOK'
        BY <1>0, <2>1, <2>2, <2>3, OneMoves DEF TypeOK, RefState, storage, journal
    <2>5. gone \subseteq Refs /\ Present' = Present \ gone
        BY <1>0, <2>2 DEF Present, Session
    <2>6. pending' => locator # None \/ pending
        BY <1>0, <1>5, <2>2 DEF Tombstones, CommitDetach, LocksHeld, TypeOK
    <2>7. ContentOK'
        BY <1>0, <2>2, <2>5, <2>6 DEF RepositoryInv, ContentOK, RepresentationsReadable,
            NothingUnnamed, Tombstones, LeftAfter, TypeOK, Upload, Retirement, storage, journal
    <2>8. \A q \in Sessions : q # s => LocksHeld(q)' /\ Journalled(q)'
        BY <2>1, <2>2, <2>3, OthersWait
    <2>9. LocksHeld(s)' /\ Journalled(s)'
        BY <2>1, <2>3, Resting
    <2> QED  BY <2>4, <2>7, <2>8, <2>9 DEF RepositoryInv
<1> QED  BY <1>1, <1>2, <1>3, <1>4, <1>5

LEMMA SelectKeeps ==
    ASSUME RepositoryInv, NEW s \in Sessions,
           SelectPending(s) \/ SelectNothing(s) \/ LockPending(s) \/ SkipPending(s)
    PROVE  RepositoryInv'
<1>0. TypeOK /\ LocksHeld(s) /\ Journalled(s) /\ tx[s] \in Session
    BY DEF RepositoryInv, TypeOK
<1>1. CASE SelectPending(s)
    <2> DEFINE t == [Idle EXCEPT !.step = "selected", !.gen = locator]
    <2>1. t \in Session /\ t.step = "selected" /\ t.gen = locator
        BY <1>0, IdleType DEF Idle, Session, Steps, TypeOK
    <2>2. /\ tx' = [tx EXCEPT ![s] = t] /\ rowLock = None /\ rowLock' = s /\ locator # None
          /\ UNCHANGED <<database, storage, journal, used, lock, faults>>
        BY <1>1 DEF SelectPending
    <2> HIDE DEF t
    <2>3. tx'[s] = t
        BY <1>0, <2>1, <2>2, OneMoves
    <2>4. LocksHeld(s)' /\ Journalled(s)'
        BY <2>1, <2>2, <2>3 DEF LocksHeld, Journalled, Locked, Chosen, Admitting, At, database
    <2> QED  BY <1>0, <2>1, <2>2, <2>4, Bookkeeping DEF TypeOK
<1>2. CASE SelectNothing(s)
    <2>1. /\ tx' = [tx EXCEPT ![s] = Idle] /\ UNCHANGED <<lock, rowLock>>
          /\ UNCHANGED <<database, storage, journal, used, faults>>
        BY <1>2 DEF SelectNothing, Move
    <2>2. LocksHeld(s)' /\ Journalled(s)'
        BY <1>0, <2>1, IdleType, OneMoves, Resting
    <2> QED  BY <1>0, <2>1, <2>2, IdleType, Bookkeeping DEF TypeOK
<1>3. CASE LockPending(s)
    <2> DEFINE t == [tx[s] EXCEPT !.step = "finalizing"]
    <2>1. t \in Session /\ t.step = "finalizing" /\ t.gen = tx[s].gen
        BY <1>0 DEF Session, Steps
    <2>2. /\ tx' = [tx EXCEPT ![s] = t] /\ lock = None /\ lock' = s /\ rowLock' = rowLock
          /\ UNCHANGED <<database, storage, journal, used, faults>> /\ tx[s].step = "selected"
        BY <1>3 DEF LockPending, Take, Free, At
    <2> HIDE DEF t
    <2>3. tx'[s] = t
        BY <1>0, <2>1, <2>2, OneMoves
    <2>4. LocksHeld(s)' /\ Journalled(s)'
        BY <1>0, <2>1, <2>2, <2>3
        DEF LocksHeld, Journalled, Locked, Chosen, Admitting, At, database
    <2> QED  BY <1>0, <2>1, <2>2, <2>4, Bookkeeping DEF TypeOK
<1>4. CASE SkipPending(s)
    BY <1>0, <1>4, IdleType, QuietEnd DEF SkipPending, TypeOK
<1> QED  BY <1>1, <1>2, <1>3, <1>4

LEMMA EraseKeeps ==
    ASSUME RepositoryInv, NEW s \in Sessions, EraseObject(s)
    PROVE  RepositoryInv'
<1>0. TypeOK /\ LocksHeld(s) /\ Journalled(s) /\ tx[s] \in Session
    BY DEF RepositoryInv, TypeOK
<1>1. tx[s].step = "finalizing" /\ lock = s /\ rowLock = s /\ tx[s].gen = locator /\ locator # None
    BY <1>0 DEF EraseObject, LocksHeld, Locked, Chosen, At
<1>2. CASE Present = {}
    <2> DEFINE t == [tx[s] EXCEPT !.step = "erased"]
    <2>1. t \in Session /\ t.step = "erased" /\ t.gen = tx[s].gen
        BY <1>0 DEF Session, Steps
    <2>2. /\ tx' = [tx EXCEPT ![s] = t] /\ UNCHANGED <<lock, rowLock>>
          /\ UNCHANGED <<database, late, journal, used, faults>>
          /\ stored' = stored \ {tx[s].gen}
        BY <1>2 DEF EraseObject, Move, database
    <2> HIDE DEF t
    <2>3. tx'[s] = t
        BY <1>0, <2>1, <2>2, OneMoves
    <2>4. LocksHeld(s)' /\ Journalled(s)'
        BY <1>1, <1>2, <2>1, <2>2, <2>3
        DEF LocksHeld, Journalled, Locked, Chosen, Admitting, At, Present, database
    <2> QED  BY <1>1, <1>2, <2>1, <2>2, <2>4, ObjectDeleted
<1>3. CASE Present # {}
    <2>1. End(s, Idle) /\ pending' = pending /\ UNCHANGED <<database, storage, journal, used, faults>>
        BY <1>3 DEF EraseObject, RepositoryInv, ContentOK, RepresentationsReadable, TypeOK,
                    database, storage
    <2> QED  BY <1>0, <2>1, IdleType, QuietEnd DEF TypeOK
<1> QED  BY <1>2, <1>3

LEMMA FinalizeKeeps ==
    ASSUME RepositoryInv, NEW s \in Sessions, Finalize(s)
    PROVE  RepositoryInv'
<1>0. TypeOK /\ LocksHeld(s) /\ Journalled(s) /\ tx[s] \in Session
    BY DEF RepositoryInv, TypeOK
<1>1. CASE CommitErased(s)
    <2>1. lock = s /\ rowLock = s /\ tx[s].gen = locator /\ Present = {} /\ locator # None
        BY <1>0, <1>1 DEF CommitErased, LocksHeld, Locked, Chosen, At
    <2>2. End(s, Idle) /\ UNCHANGED <<refs, storage, journal, used, faults>>
        BY <1>1 DEF CommitErased
    <2>3. CASE locator \in stored
        BY <1>0, <1>1, <2>1, <2>2, <2>3, IdleType, QuietEnd DEF CommitErased, TypeOK, database
    <2>4. CASE locator \notin stored
        <3>1. locator' = None /\ pending' = FALSE
            BY <1>1, <2>1, <2>4 DEF CommitErased
        <3>2. /\ tx' = [tx EXCEPT ![s] = Idle] /\ tx'[s] = Idle
              /\ lock' \in Sessions \cup {None} /\ rowLock' \in Sessions \cup {None}
              /\ rowLock' = rowLock \/ rowLock \in {None, s}
            BY <1>0, <2>2, IdleType, EndFrees, OneMoves
        <3>3. TypeOK'
            BY <1>0, <2>2, <3>1, <3>2, IdleType, OneMoves DEF TypeOK, storage, journal
        <3>4. ContentOK'
            BY <2>1, <2>2, <2>4, <3>1 DEF RepositoryInv, ContentOK, RepresentationsReadable,
                NothingUnnamed, Present, Upload, Retirement, storage, journal
        <3>5. \A q \in Sessions : q # s => LocksHeld(q)' /\ Journalled(q)'
            BY <2>1, <3>2, IdleType, OthersWait
        <3>6. LocksHeld(s)' /\ Journalled(s)'
            BY <3>2, IdleType, Resting
        <3> QED  BY <3>3, <3>4, <3>5, <3>6 DEF RepositoryInv
    <2> QED  BY <2>3, <2>4
<1>2. CASE FinalizeFails(s)
    BY <1>0, <1>2, IdleType, FaultType, QuietEnd DEF FinalizeFails
<1> QED  BY <1>1, <1>2, SelectKeeps, EraseKeeps DEF Finalize

\* The clock, the setting and the storage move no session.
LEMMA EnvironmentKeeps ==
    ASSUME RepositoryInv,
           \/ \E r \in Refs : ExpiryPasses(r)
           \/ \E setting \in {"kept", "dated", "expired"} : ApplySetting(setting)
           \/ \E g \in Gens : PutLands(g) \/ PutEnds(g)
           \/ \E s \in Sessions : Crash(s)
    PROVE  RepositoryInv'
<1>0. TypeOK
    BY DEF RepositoryInv
<1>1. CASE \/ \E r \in Refs : ExpiryPasses(r)
           \/ \E setting \in {"kept", "dated", "expired"} : ApplySetting(setting)
    <2>1. /\ UNCHANGED <<locator, pending, storage, journal, used, lock, rowLock, tx, faults>>
          /\ refs' \in [Refs -> RefState] /\ Present' = Present /\ Expired \subseteq Expired'
        BY <1>0, <1>1 DEF ExpiryPasses, ApplySetting, RefState, Present, Expired, TypeOK
    <2>2. TypeOK'
        BY <1>0, <2>1 DEF TypeOK, storage, journal
    <2>3. ContentOK'
        BY <2>1 DEF RepositoryInv, ContentOK, RepresentationsReadable, NothingUnnamed,
            Upload, Retirement, storage, journal
    <2>4. ASSUME NEW q \in Sessions PROVE LocksHeld(q)' /\ Journalled(q)'
        <3>1. LocksHeld(q) /\ Journalled(q)
            BY DEF RepositoryInv
        <3> QED  BY <2>1, <3>1 DEF LocksHeld, Journalled, At, storage, journal
    <2> QED  BY <2>2, <2>3, <2>4 DEF RepositoryInv
<1>2. CASE \E g \in Gens : PutLands(g) \/ PutEnds(g)
    <2>1. PICK g \in Gens : PutLands(g) \/ PutEnds(g)
        BY <1>2
    <2>2. /\ UNCHANGED <<database, journal, used, lock, rowLock, tx, faults>>
          /\ stored \subseteq stored' /\ stored' \subseteq stored \cup late /\ late' \subseteq late
        BY <2>1 DEF PutLands, PutEnds
    <2>3. TypeOK'
        BY <1>0, <2>2 DEF TypeOK, database, journal
    <2>4. ContentOK'
        BY <2>2 DEF RepositoryInv, ContentOK, RepresentationsReadable, NothingUnnamed,
            Present, Upload, Retirement, database, journal
    <2>5. ASSUME NEW q \in Sessions PROVE LocksHeld(q)' /\ Journalled(q)'
        <3>1. LocksHeld(q) /\ Journalled(q)
            BY DEF RepositoryInv
        <3> QED  BY <2>2, <3>1 DEF LocksHeld, Journalled, At, Present, Expired, database, journal
    <2> QED  BY <2>3, <2>4, <2>5 DEF RepositoryInv
<1>3. ASSUME NEW s \in Sessions, Crash(s) PROVE RepositoryInv'
    BY <1>0, <1>3, IdleType, FaultType, QuietEnd DEF Crash
<1> QED  BY <1>1, <1>2, <1>3

LEMMA NextKeeps == RepositoryInv /\ [Next]_vars => RepositoryInv'
<1> SUFFICES ASSUME RepositoryInv, [Next]_vars PROVE RepositoryInv'
    OBVIOUS
<1>1. CASE UNCHANGED vars
    BY <1>1 DEF vars, RepositoryInv, TypeOK, ContentOK, RepresentationsReadable, NothingUnnamed,
        LocksHeld, Journalled, At, Present, Expired, Upload, Retirement, database, storage, journal
<1>2. CASE Next
    BY <1>2, AdmissionKeeps, CleanupKeeps, EntryIsLookedAt, DetachKeeps, FinalizeKeeps,
       EnvironmentKeeps DEF Next
<1> QED  BY <1>1, <1>2

\* Whatever sessions admit, delete, expire and clean up, and wherever one of
\* them crashes: what LocksHeld, Journalled and ContentOK say stays true.
THEOREM RepositoryInvariant == Spec => []RepositoryInv
BY InitRepository, NextKeeps, PTL DEF Spec

\* A representation names bytes that exist and are not marked for deletion.
THEOREM RepresentationsStayReadable == Spec => []RepresentationsReadable
<1>1. RepositoryInv => RepresentationsReadable
    BY DEF RepositoryInv, ContentOK
<1> QED  BY <1>1, RepositoryInvariant, PTL

\* No clean-up takes the bytes of an admission that is still open.
THEOREM StagedBytesAreSafe == Spec => []StagedBytesStay
<1>1. RepositoryInv => StagedBytesStay
    BY DEF RepositoryInv, StagedBytesStay, Journalled, At, Sessions
<1> QED  BY <1>1, RepositoryInvariant, PTL

\* Every object, present or still to come, is named by the row or the journal.
THEOREM NothingIsUnnamed == Spec => []NothingUnnamed
<1>1. RepositoryInv => NothingUnnamed
    BY DEF RepositoryInv, ContentOK
<1> QED  BY <1>1, RepositoryInvariant, PTL

\* The schedule deletes only what had expired.
THEOREM ScheduleDeletesExpired == Spec => OnlyExpiredExpire
<1> DEFINE A == \A r \in Refs : refs[r] # "absent" /\ refs'[r] = "absent"
                   => refs[r] = "expired" \/ \E u \in Users : At(u, "detaching")
<1>1. RepositoryInv /\ [Next]_vars => [A]_vars
    <2> SUFFICES ASSUME RepositoryInv, Next, NEW r \in Refs,
                        refs[r] # "absent", refs'[r] = "absent"
                 PROVE  refs[r] = "expired" \/ \E u \in Users : At(u, "detaching")
        OBVIOUS
    <2>1. TypeOK
        BY DEF RepositoryInv
    <2>2. \A u \in Users : ~Admission(u)
        <3> SUFFICES ASSUME NEW u \in Users, Admission(u) PROVE FALSE
            OBVIOUS
        <3>1. CASE CommitAdmission(u)
            <4>1. u \in Sessions /\ tx[u] \in Session
                BY <2>1 DEF Sessions, TypeOK
            <4>2. refs'[r] = refs[r] \/ refs'[r] = Renewed(tx[u].ref, tx[u].keep)
                BY <2>1, <3>1 DEF CommitAdmission, TypeOK
            <4>3. Renewed(tx[u].ref, tx[u].keep) # "absent"
                BY <4>1 DEF Renewed, Session
            <4> QED  BY <4>2, <4>3
        <3>2. CASE refs' = refs
            BY <3>2
        <3> QED  BY <3>1, <3>2
                 DEF Admission, BeginAdmission, ReuseObject, JournalRetirement, JournalUpload,
                     StartPut, PutReturns, ConfirmAndStage, RollbackAdmission, database
    <2>3. ASSUME NEW s \in Sessions, CommitDetach(s)
          PROVE  refs[r] = "expired" \/ \E u \in Users : At(u, "detaching")
        <3>1. At(s, "detaching") /\ r \in tx[s].doomed /\ LocksHeld(s)
            BY <2>3 DEF CommitDetach, RepositoryInv
        <3> QED  BY <3>1 DEF LocksHeld, Sessions, Expired
    <2>4. ~(\E setting \in {"kept", "dated", "expired"} : ApplySetting(setting))
        BY <2>1 DEF ApplySetting, TypeOK
    <2>5. ~(\E q \in Refs : ExpiryPasses(q))
        BY <2>1 DEF ExpiryPasses, TypeOK
    <2>6. refs' # refs
        OBVIOUS
    <2> QED  BY <2>2, <2>3, <2>4, <2>5, <2>6
             DEF Next, DeleteSource, SettleOwn, SkipOwn, SweepIntent, SelectExpired, DetachExpired,
                 SkipExpired, CheckIntent, RetireIntent, CleanupFails, Finalize, SelectPending,
                 SelectNothing, LockPending, SkipPending, EraseObject, CommitErased, FinalizeFails,
                 Crash, PutLands, PutEnds, database
<1> QED  BY <1>1, RepositoryInvariant, PTL DEF Spec, OnlyExpiredExpire
=============================================================================
