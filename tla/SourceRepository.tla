-------------------------- MODULE SourceRepository --------------------------
(***************************************************************************)
(* The durable source repository, for one content (licence class, digest): *)
(* its content_objects row, the representations that refer to it, the      *)
(* objects its locator has named in storage, and the journal of intents    *)
(* that makes every object findable again.                                 *)
(*                                                                         *)
(* A session is one database transaction after another. Transactions on    *)
(* the content are serialised by its advisory lock, which each of them     *)
(* keeps until it commits or rolls back; storage has no transactions, and  *)
(* a PUT may take effect long after its caller gave it up.                 *)
(***************************************************************************)
EXTENDS Naturals, FiniteSets

CONSTANTS
    Users,          \* sessions of uploads, retrievals and deletions
    Sweeper,        \* the session of cleanup_expired_source_representations
    None,           \* "no value"
    Refs,           \* representations: a work, a provenance, a scope
    MaxGen,         \* bound: generations of the content object
    MaxFaults       \* bound: crashes, and calls to storage that fail

Sessions == Users \cup {Sweeper}
Gens     == 1 .. MaxGen

ASSUME SessionAssumption == Sweeper \notin Users /\ None \notin Sessions
ASSUME RefAssumption == None \notin Refs
ASSUME BoundAssumption == MaxGen \in Nat /\ MaxFaults \in Nat /\ None \notin Nat

VARIABLES
    locator,    \* generation in content_objects.storage_key; None: no row
    pending,    \* content_objects.deletion_pending
    refs,       \* state of each source_representations row
    stored,     \* generations whose object exists
    late,       \* generations with a PUT that may still take effect
    intents,    \* journal entries in storage: [gen, purpose]
    confirmed,  \* generations whose upload intent says upload_confirmed
    used,       \* generations drawn so far
    lock,       \* session with the content's advisory lock
    rowLock,    \* session with the row locked in the database
    tx,         \* what each session is doing
    faults      \* crashes and storage failures so far

database == <<locator, pending, refs>>
storage  == <<stored, late>>
journal  == <<intents, confirmed>>
vars == <<database, storage, journal, used, lock, rowLock, tx, faults>>

-----------------------------------------------------------------------------
Intent   == [gen : Gens, purpose : {"upload", "retirement"}]
RefState == {"absent", "kept", "dated", "expired"}

ASSUME IntentAssumption == None \notin Intent

Steps == {"idle", "admitting", "retired", "journalled", "putting", "put",
          "staged", "settling", "checking", "cleaned", "expiring", "detaching",
          "detached", "selected", "finalizing", "erased"}

Session == [step : Steps, ref : Refs \cup {None}, keep : {"kept", "dated"},
            gen : Gens \cup {None}, receipt : BOOLEAN, doomed : SUBSET Refs,
            todo : SUBSET Intent, intent : Intent \cup {None}]

Idle == [step |-> "idle", ref |-> None, keep |-> "kept", gen |-> None,
         receipt |-> FALSE, doomed |-> {}, todo |-> {}, intent |-> None]

\* An entry of the journal.
Upload(g)     == [gen |-> g, purpose |-> "upload"]
Retirement(g) == [gen |-> g, purpose |-> "retirement"]

TypeOK ==
    /\ locator \in Gens \cup {None} /\ pending \in BOOLEAN
    /\ refs \in [Refs -> RefState]
    /\ stored \in SUBSET Gens /\ late \in SUBSET Gens
    /\ intents \in SUBSET Intent /\ confirmed \in SUBSET Gens
    /\ used \in 0 .. MaxGen
    /\ lock \in Sessions \cup {None} /\ rowLock \in Sessions \cup {None}
    /\ tx \in [Sessions -> Session]
    /\ faults \in 0 .. MaxFaults

Init ==
    /\ locator = None /\ pending = FALSE
    /\ refs = [r \in Refs |-> "absent"]
    /\ stored = {} /\ late = {}
    /\ intents = {} /\ confirmed = {}
    /\ used = 0
    /\ lock = None /\ rowLock = None
    /\ tx = [s \in Sessions |-> Idle]
    /\ faults = 0

Present     == {r \in Refs : refs[r] # "absent"}
Expired     == {r \in Refs : refs[r] = "expired"}
At(s, step) == tx[s].step = step
Free        == lock = None

\* The session goes on; it takes the content lock; its transaction ends.
Move(s, t)  == tx' = [tx EXCEPT ![s] = t] /\ UNCHANGED <<lock, rowLock>>
Take(s, t)  == tx' = [tx EXCEPT ![s] = t] /\ lock' = s /\ UNCHANGED rowLock
End(s, t)   == /\ tx' = [tx EXCEPT ![s] = t]
               /\ lock' = IF lock = s THEN None ELSE lock
               /\ rowLock' = IF rowLock = s THEN None ELSE rowLock
Fault       == faults < MaxFaults /\ faults' = faults + 1

\* commit_source_admissions and rollback_source_admissions go through the
\* intents this session remembers; without one there is nothing to settle.
Settling(todo) == IF todo = {} THEN Idle
                  ELSE [Idle EXCEPT !.step = "settling", !.todo = todo]

-----------------------------------------------------------------------------
(* admit_representation *)

\* Takes the content lock; its later reads are of committed rows.
BeginAdmission(u, r, keep) ==
    /\ At(u, "idle") /\ Free /\ used < MaxGen
    /\ Take(u, [Idle EXCEPT !.step = "admitting", !.ref = r, !.keep = keep])
    /\ UNCHANGED <<database, storage, journal, used, faults>>

\* The content is there: only the representation is added or renewed. An
\* object that is missing all the same refuses the admission.
ReuseObject(u) ==
    /\ At(u, "admitting") /\ locator # None /\ ~pending
    /\ IF locator \in stored
       THEN Move(u, [tx[u] EXCEPT !.step = "staged", !.gen = locator])
       ELSE End(u, Idle)
    /\ UNCHANGED <<database, storage, journal, used, faults>>

\* persist_retirement_intent, before the locator changes. (A row marked for
\* deletion that has representations would refuse the admission.)
JournalRetirement(u) ==
    /\ At(u, "admitting") /\ locator # None /\ pending
    /\ IF Present = {}
       THEN /\ intents' = intents \cup {Retirement(locator)}
            /\ Move(u, [tx[u] EXCEPT !.step = "retired", !.todo = @ \cup {Retirement(locator)}])
       ELSE End(u, Idle) /\ UNCHANGED intents
    /\ UNCHANGED <<database, storage, confirmed, used, faults>>

\* A new generation and persist_upload_intent, before its PUT.
JournalUpload(u) ==
    /\ \/ At(u, "admitting") /\ locator = None
       \/ At(u, "retired")
    /\ used' = used + 1
    /\ intents' = intents \cup {Upload(used')}
    /\ Move(u, [tx[u] EXCEPT !.step = "journalled", !.gen = used',
                             !.todo = @ \cup {Upload(used')}])
    /\ UNCHANGED <<database, storage, confirmed, faults>>

StartPut(u) ==
    /\ At(u, "journalled")
    /\ late' = late \cup {tx[u].gen}
    /\ Move(u, [tx[u] EXCEPT !.step = "putting"])
    /\ UNCHANGED <<database, stored, journal, used, faults>>

\* backend.upload returns: the receipt confirms a single request; after a
\* retry inside the client an earlier request may still be under way.
PutReturns(u) ==
    /\ At(u, "putting") /\ tx[u].gen \in stored
    /\ \E receipt \in BOOLEAN :
          /\ late' = IF receipt THEN late \ {tx[u].gen} ELSE late
          /\ Move(u, [tx[u] EXCEPT !.step = "put", !.receipt = receipt])
    /\ UNCHANGED <<database, stored, journal, used, faults>>

\* confirm_upload_intent, then the row is written, not committed; the write
\* waits while a clean-up has the row locked.
ConfirmAndStage(u) ==
    /\ At(u, "put") /\ rowLock \in {None, u}
    /\ confirmed' = IF tx[u].receipt THEN confirmed \cup {tx[u].gen} ELSE confirmed
    /\ tx' = [tx EXCEPT ![u].step = "staged"]
    /\ rowLock' = u
    /\ UNCHANGED <<database, storage, intents, used, lock, faults>>

\* The expiry of a known representation is only ever put off.
Renewed(r, keep) == IF refs[r] = "kept" THEN "kept" ELSE keep

CommitAdmission(u) ==
    /\ At(u, "staged")
    /\ locator' = tx[u].gen /\ pending' = FALSE
    /\ refs' = [refs EXCEPT ![tx[u].ref] = Renewed(tx[u].ref, tx[u].keep)]
    /\ End(u, Settling(tx[u].todo))
    /\ UNCHANGED <<storage, journal, used, faults>>

\* A call to storage or to the database raises: rollback_source_admissions.
\* The journal entry or the confirmation it was writing may have landed.
RollbackAdmission(u) ==
    /\ tx[u].step \in {"admitting", "retired", "journalled", "putting", "put", "staged"}
    /\ Fault
    /\ confirmed' \in {confirmed} \cup
          (IF At(u, "put") /\ tx[u].receipt THEN {confirmed \cup {tx[u].gen}} ELSE {})
    /\ End(u, Settling(tx[u].todo))
    /\ UNCHANGED <<database, storage, intents, used>>

-----------------------------------------------------------------------------
(* source_upload_recovery._cleanup_one *)

\* settle_session_upload_intents, of this session's own entries; an entry
\* that is gone already is dropped.
SettleOwn(u, i) ==
    /\ At(u, "settling") /\ i \in tx[u].todo /\ Free /\ i \in intents
    /\ Take(u, [tx[u] EXCEPT !.step = "checking", !.intent = i, !.todo = @ \ {i}])
    /\ UNCHANGED <<database, storage, journal, used, faults>>

\* Busy or absent: the entry in storage, not this memory, has the next try.
SkipOwn(u, i) ==
    /\ At(u, "settling") /\ i \in tx[u].todo /\ (~Free \/ i \notin intents)
    /\ Move(u, Settling(tx[u].todo \ {i}))
    /\ UNCHANGED <<database, storage, journal, used, faults>>

\* cleanup_source_upload_intents: an entry whose hour, or whose next check,
\* has come. It may have come while the admission is still going on; the
\* defect takes the age of an entry for proof that nobody needs it.
SweepIntentUnlocked(i) ==
    /\ At(Sweeper, "idle") /\ i \in intents
    /\ Take(Sweeper, [Idle EXCEPT !.step = "checking", !.intent = i])
    /\ UNCHANGED <<database, storage, journal, used, faults>>

SweepIntent(i) ==
    /\ At(Sweeper, "idle") /\ Free /\ i \in intents
    /\ Take(Sweeper, [Idle EXCEPT !.step = "checking", !.intent = i])
    /\ UNCHANGED <<database, storage, journal, used, faults>>

\* The object is deleted unless the row, as committed, names it.
Referenced(g) == locator = g

CheckIntent(s) ==
    /\ At(s, "checking")
    /\ stored' = IF Referenced(tx[s].intent.gen) THEN stored
                 ELSE stored \ {tx[s].intent.gen}
    /\ Move(s, [tx[s] EXCEPT !.step = "cleaned"])
    /\ UNCHANGED <<database, late, journal, used, faults>>

\* Completion is what the entry says; the defect infers it from an owner.
SettledWhenOwned(i) == i.purpose = "retirement" \/ i.gen \in confirmed \/ Referenced(i.gen)
Settled(i) == i.purpose = "retirement" \/ i.gen \in confirmed
NeverReturns(i) == Referenced(i.gen) \/ i.gen \notin stored

\* The entry of an upload that was never confirmed is kept for good.
RetireIntent(s) ==
    /\ At(s, "cleaned")
    /\ intents' = IF NeverReturns(tx[s].intent) /\ Settled(tx[s].intent)
                  THEN intents \ {tx[s].intent} ELSE intents
    /\ End(s, Settling(tx[s].todo))
    /\ UNCHANGED <<database, storage, confirmed, used, faults>>

\* Storage or the database fails: the transaction is rolled back.
CleanupFails(s) ==
    /\ tx[s].step \in {"checking", "cleaned"} /\ Fault
    /\ End(s, Settling(tx[s].todo))
    /\ UNCHANGED <<database, storage, journal, used>>

-----------------------------------------------------------------------------
(* expire_representations, delete_representation *)

\* The batch of expired rows, read before any lock.
SelectExpired ==
    /\ At(Sweeper, "idle") /\ Expired # {}
    /\ Move(Sweeper, [Idle EXCEPT !.step = "expiring", !.doomed = Expired])
    /\ UNCHANGED <<database, storage, journal, used, faults>>

\* Rows renewed since then are left (not so in the defect); busy content
\* waits for the next run.
StillExpiredAsRead(chosen) == chosen
StillExpired(chosen) == chosen \cap Expired

DetachExpired ==
    /\ At(Sweeper, "expiring") /\ Free
    /\ Take(Sweeper, [tx[Sweeper] EXCEPT !.step = "detaching", !.doomed = StillExpired(@)])
    /\ UNCHANGED <<database, storage, journal, used, faults>>

SkipExpired ==
    /\ At(Sweeper, "expiring") /\ ~Free
    /\ Move(Sweeper, Idle)
    /\ UNCHANGED <<database, storage, journal, used, faults>>

\* The user's deletion waits for the lock.
DeleteSource(u, r) ==
    /\ At(u, "idle") /\ Free /\ r \in Present
    /\ Take(u, [Idle EXCEPT !.step = "detaching", !.doomed = {r}])
    /\ UNCHANGED <<database, storage, journal, used, faults>>

\* The rows go, and the content is marked when none is left. The defects
\* count only copies in force, or only a last copy that goes alone.
LeftInForce(gone) == {r \in Present \ gone : refs[r] # "expired"}
LeftAfter(gone) == Present \ gone
TombstonesLast(gone) == \E r \in Refs : gone = {r} /\ LeftAfter(gone) = {}
Tombstones(gone) == gone # {} /\ LeftAfter(gone) = {}

CommitDetach(s) ==
    /\ At(s, "detaching")
    /\ Tombstones(tx[s].doomed) => rowLock = None
    /\ refs' = [r \in Refs |-> IF r \in tx[s].doomed THEN "absent" ELSE refs[r]]
    /\ pending' = (pending \/ Tombstones(tx[s].doomed))
    /\ End(s, IF s \in Users THEN [Idle EXCEPT !.step = "detached"] ELSE Idle)
    /\ UNCHANGED <<locator, storage, journal, used, faults>>

-----------------------------------------------------------------------------
(* finalize_pending_object_deletions, after the user's deletion or scheduled *)

CanFinalize(s) == At(s, IF s \in Users THEN "detached" ELSE "idle")

\* SELECT ... FOR UPDATE SKIP LOCKED: the row of now, not an earlier one.
SelectPending(s) ==
    /\ CanFinalize(s) /\ locator # None /\ pending /\ rowLock = None
    /\ tx' = [tx EXCEPT ![s] = [Idle EXCEPT !.step = "selected", !.gen = locator]]
    /\ rowLock' = s
    /\ UNCHANGED <<database, storage, journal, used, lock, faults>>

SelectNothing(u) ==
    /\ At(u, "detached") /\ (~pending \/ rowLock # None)
    /\ Move(u, Idle)
    /\ UNCHANGED <<database, storage, journal, used, faults>>

LockPending(s) ==
    /\ At(s, "selected") /\ Free
    /\ Take(s, [tx[s] EXCEPT !.step = "finalizing"])
    /\ UNCHANGED <<database, storage, journal, used, faults>>

SkipPending(s) ==
    /\ At(s, "selected") /\ ~Free
    /\ End(s, Idle)
    /\ UNCHANGED <<database, storage, journal, used, faults>>

\* A row that has representations after all is unmarked instead.
EraseObject(s) ==
    /\ At(s, "finalizing")
    /\ IF Present = {}
       THEN /\ stored' = stored \ {tx[s].gen} /\ UNCHANGED pending
            /\ Move(s, [tx[s] EXCEPT !.step = "erased"])
       ELSE pending' = FALSE /\ End(s, Idle) /\ UNCHANGED stored
    /\ UNCHANGED <<locator, refs, late, journal, used, faults>>

\* A late PUT may have put the object back: then the row stays as it is.
CommitErased(s) ==
    /\ At(s, "erased")
    /\ IF tx[s].gen \in stored THEN UNCHANGED <<locator, pending>>
       ELSE locator' = None /\ pending' = FALSE
    /\ End(s, Idle)
    /\ UNCHANGED <<refs, storage, journal, used, faults>>

\* Storage or the database fails, or another request ends the transaction.
FinalizeFails(s) ==
    /\ tx[s].step \in {"selected", "finalizing", "erased", "detaching", "expiring", "detached"}
    /\ Fault
    /\ End(s, Idle)
    /\ UNCHANGED <<database, storage, journal, used>>

-----------------------------------------------------------------------------
(* Outside: the clock, the user's setting, storage, crashes *)

ExpiryPasses(r) ==
    /\ refs[r] = "dated"
    /\ refs' = [refs EXCEPT ![r] = "expired"]
    /\ UNCHANGED <<locator, pending, storage, journal, used, lock, rowLock, tx, faults>>

\* apply_source_setting re-dates the copies in force, without the lock.
\* A chosen term shortens a copy's life; only "permanently" lengthens it.
ApplySetting(setting) ==
    /\ refs' = [r \in Refs |-> IF refs[r] \in {"kept", "dated"} THEN setting ELSE refs[r]]
    /\ UNCHANGED <<locator, pending, storage, journal, used, lock, rowLock, tx, faults>>

PutLands(g) ==
    /\ g \in late /\ stored' = stored \cup {g}
    /\ UNCHANGED <<database, late, journal, used, lock, rowLock, tx, faults>>

\* No request for the object is under way any more. One that a session is
\* still waiting for does not end unseen.
PutEnds(g) ==
    /\ g \in late /\ \A u \in Users : ~(At(u, "putting") /\ tx[u].gen = g)
    /\ late' = late \ {g}
    /\ UNCHANGED <<database, stored, journal, used, lock, rowLock, tx, faults>>

\* The database drops the transaction and its locks; the memory is gone.
Crash(s) ==
    /\ tx[s].step # "idle" /\ Fault
    /\ End(s, Idle)
    /\ UNCHANGED <<database, storage, journal, used>>

-----------------------------------------------------------------------------
Admission(u) ==
    \/ \E r \in Refs, keep \in {"kept", "dated"} : BeginAdmission(u, r, keep)
    \/ ReuseObject(u) \/ JournalRetirement(u) \/ JournalUpload(u) \/ StartPut(u)
    \/ PutReturns(u) \/ ConfirmAndStage(u) \/ CommitAdmission(u) \/ RollbackAdmission(u)

Finalize(s) ==
    \/ SelectPending(s) \/ SelectNothing(s) \/ LockPending(s) \/ SkipPending(s)
    \/ EraseObject(s) \/ CommitErased(s) \/ FinalizeFails(s)

Next ==
    \/ \E u \in Users : \/ Admission(u)
                        \/ \E r \in Refs : DeleteSource(u, r)
                        \/ \E i \in Intent : SettleOwn(u, i) \/ SkipOwn(u, i)
    \/ \E i \in Intent : SweepIntent(i)
    \/ SelectExpired \/ DetachExpired \/ SkipExpired
    \/ \E s \in Sessions : \/ CheckIntent(s) \/ RetireIntent(s) \/ CleanupFails(s)
                           \/ CommitDetach(s) \/ Finalize(s) \/ Crash(s)
    \/ \E r \in Refs : ExpiryPasses(r)
    \/ \E setting \in {"kept", "dated", "expired"} : ApplySetting(setting)
    \/ \E g \in Gens : PutLands(g) \/ PutEnds(g)

Spec == Init /\ [][Next]_vars

-----------------------------------------------------------------------------
(* Fairness: a session goes on with what it has begun. The clean-up is      *)
(* scheduled again and again and its cursor passes over every entry, so    *)
(* what it tries infinitely often it gets the lock for in the end.         *)

Proceeds(s) ==
    \/ ReuseObject(s) \/ JournalRetirement(s) \/ JournalUpload(s)
    \/ StartPut(s) \/ PutReturns(s) \/ ConfirmAndStage(s)
    \/ CommitAdmission(s) \/ (\E i \in Intent : SettleOwn(s, i) \/ SkipOwn(s, i))
    \/ CheckIntent(s) \/ RetireIntent(s) \/ CommitDetach(s)
    \/ SelectNothing(s) \/ LockPending(s) \/ SkipPending(s) \/ EraseObject(s)
    \/ CommitErased(s)

Fairness ==
    /\ \A s \in Sessions : WF_vars(Proceeds(s))
    /\ \A u \in Users : SF_vars(ConfirmAndStage(u))
    /\ \A i \in Intent : SF_vars(SweepIntent(i))
    /\ SF_vars(Free /\ SelectPending(Sweeper)) /\ SF_vars(LockPending(Sweeper))
    /\ SF_vars(Free /\ SelectExpired) /\ SF_vars(DetachExpired)
    /\ WF_vars(\E g \in Gens : PutLands(g)) /\ WF_vars(\E g \in Gens : PutEnds(g))

FairSpec == Spec /\ Fairness

-----------------------------------------------------------------------------
(* What must hold. *)

\* A representation can be read for as long as its row exists: the content
\* it names is in storage and not marked for deletion, whatever clean-up of
\* an older generation is still going on.
RepresentationsReadable == Present # {} => locator \in stored /\ ~pending

\* The bytes of an admission that is about to commit are not taken for those
\* of an abandoned one, however long the admission has been open.
StagedBytesStay == \A u \in Users : At(u, "staged") => tx[u].gen \in stored

\* No object is lost sight of: one that exists is named by the row or by an
\* entry of the journal, and one that may still appear by an entry that will
\* not be retired, even if a representation owns the object for now.
NothingUnnamed ==
    /\ \A g \in stored : locator = g \/ Upload(g) \in intents \/ Retirement(g) \in intents
    /\ \A g \in late : Upload(g) \in intents /\ g \notin confirmed

\* A row deleted by the schedule had expired when it was deleted; a renewal
\* since the batch was read keeps it.
OnlyExpiredExpire ==
    [][\A r \in Refs : refs[r] # "absent" /\ refs'[r] = "absent"
        => refs[r] = "expired" \/ \E u \in Users : At(u, "detaching")]_vars

\* Bytes that no representation needs any more leave storage, whichever step
\* of their admission or deletion failed.
UnneededBytesGo == []<>(\A g \in stored : locator = g /\ Present # {})

-----------------------------------------------------------------------------
(* The inductive invariant behind the safety properties. *)

\* Positions in which a session has the advisory lock, is admitting bytes,
\* and has the row locked for its clean-up.
Locked    == {"admitting", "retired", "journalled", "putting", "put", "staged",
              "checking", "cleaned", "detaching", "finalizing", "erased"}
Admitting == {"retired", "journalled", "putting", "put", "staged"}
Chosen    == {"selected", "finalizing", "erased"}

\* Whoever works on the content or its object has its lock, and nobody else
\* writes a row that a clean-up has selected.
LocksHeld(s) ==
    /\ tx[s].step \in Locked => lock = s
    /\ tx[s].step \in Chosen => rowLock = s /\ tx[s].gen = locator /\ locator # None
    /\ At(s, "staged") /\ tx[s].gen # locator => rowLock = s
    /\ At(s, "erased") => Present = {}
    /\ At(s, "detaching") /\ tx[s].doomed # {} => locator # None
    /\ s = Sweeper /\ At(s, "detaching") => tx[s].doomed \subseteq Expired
    /\ tx[s].step \in {"checking", "cleaned"} => tx[s].intent # None

\* Bytes are journalled before they are sent, and the generation they replace
\* before the locator changes.
Journalled(s) ==
    /\ tx[s].step \in Admitting /\ tx[s].gen # locator /\ locator # None
          => Retirement(locator) \in intents
    /\ tx[s].step \in {"journalled", "putting", "put", "staged"} =>
          tx[s].gen # None /\ tx[s].ref # None
    /\ tx[s].step \in {"admitting", "retired"} =>
          tx[s].ref # None /\ tx[s].gen = None /\ used < MaxGen
    /\ tx[s].step \in {"journalled", "putting", "put"} => tx[s].gen \in 1 .. used
    /\ tx[s].step \in {"journalled", "putting"} =>
          Upload(tx[s].gen) \in intents /\ tx[s].gen \notin confirmed
    /\ At(s, "put") /\ tx[s].receipt => tx[s].gen \notin late
    /\ tx[s].step \in {"put", "staged"} => tx[s].gen \in stored

ContentOK ==
    /\ locator = None => Present = {} /\ ~pending
    /\ RepresentationsReadable
    /\ NothingUnnamed
    /\ stored \cup late \cup confirmed \subseteq 1 .. used

RepositoryInv ==
    TypeOK /\ ContentOK /\ \A s \in Sessions : LocksHeld(s) /\ Journalled(s)
=============================================================================
