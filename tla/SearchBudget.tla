---------------------------- MODULE SearchBudget ----------------------------
(***************************************************************************)
(* The budgets of one paid search provider and its health record: the      *)
(* per-run call counts that a run's retrieval threads share, the counters  *)
(* of the UTC day in Redis that every process shares, and the provider's   *)
(* incident in the health file.                                            *)
(*                                                                         *)
(* A thread searches one reference after another.  A call is counted       *)
(* before it is made and given back when it is not made.                   *)
(***************************************************************************)
EXTENDS Integers, FiniteSets

CONSTANTS
    Threads,        \* retrieval threads, each with a retriever of its own
    Runs,           \* paper runs; the threads of a run share its call counts
    RunOf,          \* thread -> run
    Scopes,         \* checking scopes (a user, a course)
    ScopeOf,        \* run -> scope
    Everyone,       \* the deployment's own counter, beside the scopes'
    Required,       \* whether the provider is one of required_api_providers()
    Ceiling,        \* SEARCH_ESCALATION_MAX_CALLS
    Floor,          \* WEB_SEARCH_PER_REFERENCE_FLOOR
    HardMax,        \* WEB_SEARCH_HARD_MAX_CALLS
    DailyMax,       \* WEB_SEARCH_DAILY_MAX_CALLS; 0 for none
    ScopeMax,       \* WEB_SEARCH_SCOPE_DAILY_MAX_CALLS; 0 for none
    MaxDay,         \* bound: days after the first
    MaxReferences,  \* bound: references per thread
    MaxIncidents,   \* bound: incidents
    MaxFaults       \* bound: Redis errors and dead processes

Days  == 0 .. MaxDay
Keys  == Days \X (Scopes \cup {Everyone})
Limit == [k \in Keys |-> IF k[2] = Everyone THEN DailyMax ELSE ScopeMax]

ASSUME ThreadAssumption == /\ IsFiniteSet(Threads)
                           /\ RunOf \in [Threads -> Runs] /\ ScopeOf \in [Runs -> Scopes]
ASSUME LimitAssumption  == /\ Ceiling \in Nat /\ Floor \in Nat /\ HardMax \in Nat
                           /\ DailyMax \in Nat /\ ScopeMax \in Nat
                           /\ Required \in BOOLEAN
ASSUME BoundAssumption  == /\ MaxDay \in Nat /\ MaxReferences \in Nat
                           /\ MaxIncidents \in Nat /\ MaxFaults \in Nat

VARIABLES
    today,
    calls,          \* search_metrics["provider_calls:..."] of each run
    floorCalls,     \* search_metrics["floor_calls:..."] of each run
    count,          \* the daily counters in Redis
    thread,         \* what each thread is doing
    incident,       \* the provider's record in the health file
    opened,         \* incidents opened so far
    recoveries,     \* recoveries reported so far
    madeInRun,      \* requests really sent by a run
    madeOn,         \* requests really sent that were counted under a key
    faults

metrics == <<calls, floorCalls>>
health  == <<incident, opened, recoveries>>
made    == <<madeInRun, madeOn>>
vars    == <<today, metrics, count, thread, health, made, faults>>

-----------------------------------------------------------------------------
\* "short" and "long": younger or older than _REQUIRED_API_MIN_OUTAGE_SECONDS.
Incidents == {"none", "short", "long"}
Thread == [step : {"idle", "counted", "gate", "asked", "read"},
           started : 0 .. MaxReferences,    \* references begun
           refCalls : Int,                  \* _REFERENCE_PROVIDER_CALLS
           made : Nat,                      \* requests sent for the reference
           shut : BOOLEAN,                  \* a query met configured_call_ceiling
           held : SUBSET Keys,              \* counters to give back if unused
           seen : Incidents]                \* the incident as it was read
Fresh(n) == [step |-> "idle", started |-> n, refCalls |-> 0, made |-> 0,
             shut |-> FALSE, held |-> {}, seen |-> "none"]

TypeOK ==
    /\ today \in Days
    /\ calls \in [Runs -> Nat] /\ floorCalls \in [Runs -> Nat]
    /\ count \in [Keys -> Nat]
    /\ thread \in [Threads -> Thread]
    /\ incident \in Incidents /\ opened \in Nat /\ recoveries \in Nat
    /\ madeInRun \in [Runs -> Nat] /\ madeOn \in [Keys -> Nat]
    /\ faults \in 0 .. MaxFaults

Init ==
    /\ today = 0
    /\ calls = [r \in Runs |-> 0] /\ floorCalls = [r \in Runs |-> 0]
    /\ count = [k \in Keys |-> 0]
    /\ thread = [t \in Threads |-> Fresh(0)]
    /\ incident = "none" /\ opened = 0 /\ recoveries = 0
    /\ madeInRun = [r \in Runs |-> 0] /\ madeOn = [k \in Keys |-> 0]
    /\ faults = 0

At(t, step) == thread[t].step = step
Go(t, step) == thread' = [thread EXCEPT ![t].step = step]
Fault       == faults < MaxFaults /\ faults' = faults + 1

-----------------------------------------------------------------------------
(* The next reference of the thread, counted from nothing. *)
BeginReference(t) ==
    /\ At(t, "idle") /\ thread[t].started < MaxReferences
    /\ thread' = [thread EXCEPT ![t] = Fresh(thread[t].started + 1)]
    /\ UNCHANGED <<today, metrics, count, health, made, faults>>

(* The run's ceiling first; past it the reference's floor, up to the cap. *)
HardCap == IF HardMax > Ceiling THEN HardMax ELSE Ceiling
Permitted(t) ==
    LET c == calls[RunOf[t]]
    IN  \/ c < Ceiling
        \/ Required /\ Ceiling > 0 /\ c < HardCap /\ thread[t].refCalls < Floor

(* Check and count in one step, under the lock the run's threads share. *)
ReserveCall(t) ==
    LET r == RunOf[t]
    IN  /\ At(t, "idle") /\ thread[t].started > 0 /\ Permitted(t)
        /\ calls' = [calls EXCEPT ![r] = @ + 1]
        /\ floorCalls' = [floorCalls EXCEPT ![r] = IF calls[r] >= Ceiling THEN @ + 1 ELSE @]
        /\ thread' = [thread EXCEPT ![t].step = "counted", ![t].refCalls = @ + 1]
        /\ UNCHANGED <<today, count, health, made, faults>>

RefuseCall(t) ==
    /\ At(t, "idle") /\ thread[t].started > 0 /\ ~Permitted(t)
    /\ thread' = [thread EXCEPT ![t].shut = TRUE]
    /\ UNCHANGED <<today, metrics, count, health, made, faults>>

(* Give a call back that was counted and not made; the thread's next query. *)

\* Mutant: the floor's count is compared before the call is taken off.
GiveBackBefore(t) ==
    LET r == RunOf[t]
    IN  /\ calls' = [calls EXCEPT ![r] = @ - 1]
        /\ floorCalls' = [floorCalls EXCEPT ![r] = IF calls[r] >= Ceiling THEN @ - 1 ELSE @]
        /\ thread' = [thread EXCEPT ![t].step = "idle", ![t].refCalls = @ - 1, ![t].held = {}]

\* Mutant: the reference's own count keeps the call that was not made.
GiveBackToRun(t) ==
    LET r == RunOf[t]
    IN  /\ calls' = [calls EXCEPT ![r] = @ - 1]
        /\ floorCalls' = [floorCalls EXCEPT ![r] = IF calls[r] - 1 >= Ceiling THEN @ - 1 ELSE @]
        /\ thread' = [thread EXCEPT ![t].step = "idle", ![t].held = {}]

GiveBack(t) ==
    LET r == RunOf[t]
    IN  /\ calls' = [calls EXCEPT ![r] = @ - 1]
        /\ floorCalls' = [floorCalls EXCEPT ![r] = IF calls[r] - 1 >= Ceiling THEN @ - 1 ELSE @]
        /\ thread' = [thread EXCEPT ![t].step = "idle", ![t].refCalls = @ - 1, ![t].held = {}]

(* The counters of the day: one script checks and counts all of them. *)
KeysOf(t) == {k \in Keys : /\ k[1] = today /\ Limit[k] > 0
                           /\ k[2] \in {Everyone, ScopeOf[RunOf[t]]}}

\* Mutant: a counter may pass its limit by one.
InBudgetByOne(t) == \A k \in KeysOf(t) : count[k] <= Limit[k]

InBudget(t)  == \A k \in KeysOf(t) : count[k] < Limit[k]
CountDay(ks) == count' = [k \in Keys |-> IF k \in ks THEN count[k] + 1 ELSE count[k]]
DropDay(ks)  == count' = [k \in Keys |-> IF k \in ks THEN count[k] - 1 ELSE count[k]]

ReserveDay(t) ==
    /\ At(t, "counted") /\ InBudget(t)
    /\ CountDay(KeysOf(t))
    /\ thread' = [thread EXCEPT ![t].step = "gate", ![t].held = KeysOf(t)]
    /\ UNCHANGED <<today, metrics, health, made, faults>>

RefuseDay(t) ==
    /\ At(t, "counted") /\ ~InBudget(t)
    /\ GiveBack(t)
    /\ UNCHANGED <<today, count, health, made, faults>>

(* A Redis error refuses the call, whether or not the script had run. *)
LoseDay(t) ==
    /\ At(t, "counted") /\ KeysOf(t) # {} /\ Fault
    /\ UNCHANGED count \/ (InBudget(t) /\ CountDay(KeysOf(t)))
    /\ GiveBack(t)
    /\ UNCHANGED <<today, health, made>>

(* The gate admits the call, or it is never sent and given back; an error  *)
(* of the release is logged and nothing else.                              *)
Send(t) ==
    LET ks == thread[t].held
    IN  /\ At(t, "gate")
        /\ thread' = [thread EXCEPT ![t].step = "asked", ![t].made = @ + 1, ![t].held = {}]
        /\ madeInRun' = [madeInRun EXCEPT ![RunOf[t]] = @ + 1]
        /\ madeOn' = [k \in Keys |-> IF k \in ks THEN madeOn[k] + 1 ELSE madeOn[k]]
        /\ UNCHANGED <<today, metrics, count, health, faults>>

Release(t) == DropDay(thread[t].held)

Busy(t) ==
    /\ At(t, "gate")
    /\ \/ Release(t) /\ UNCHANGED faults
       \/ thread[t].held # {} /\ Fault /\ (UNCHANGED count \/ Release(t))
    /\ GiveBack(t)
    /\ UNCHANGED <<today, health, made>>

-----------------------------------------------------------------------------
(* A failed request opens an incident, or adds to the open one. *)
Failed(t) ==
    /\ At(t, "asked") /\ Go(t, "idle")
    /\ IF Required
       THEN \/ incident # "none" /\ UNCHANGED <<incident, opened>>
            \/ /\ incident = "none" /\ opened < MaxIncidents
               /\ incident' = "short" /\ opened' = opened + 1
       ELSE UNCHANGED <<incident, opened>>
    /\ UNCHANGED <<today, metrics, count, recoveries, made, faults>>

(* A request that worked reads the incident, in a locked step of its own. *)
Worked(t) ==
    /\ At(t, "asked")
    /\ IF Required /\ incident # "none"
       THEN thread' = [thread EXCEPT ![t].step = "read", ![t].seen = incident]
       ELSE Go(t, "idle")
    /\ UNCHANGED <<today, metrics, count, health, made, faults>>

(* record_success: True only for the call that closed the incident. *)

\* Mutant: the incident that was read counts, whoever closed it.
RecoveredAsSeen(t) == thread[t].seen = "long"

Recovered(t) == incident # "none" /\ thread[t].seen = "long"

CloseIncident(t) ==
    /\ At(t, "read") /\ incident' = "none"
    /\ recoveries' = IF Recovered(t) THEN recoveries + 1 ELSE recoveries
    /\ thread' = [thread EXCEPT ![t].step = "idle", ![t].seen = "none"]
    /\ UNCHANGED <<today, metrics, count, opened, made, faults>>

(* Time: an incident lasts, a day ends. *)
OutageLasts ==
    /\ incident = "short" /\ incident' = "long"
    /\ UNCHANGED <<today, metrics, count, thread, opened, recoveries, made, faults>>

NextDay ==
    /\ today < MaxDay /\ today' = today + 1
    /\ UNCHANGED <<metrics, count, thread, health, made, faults>>

(* A process dies: what it counted for the day stays counted, and its run  *)
(* starts again with counts of its own.                                    *)
Die(r) ==
    /\ \E t \in Threads : RunOf[t] = r /\ ~At(t, "idle")
    /\ Fault
    /\ thread' = [t \in Threads |-> IF RunOf[t] = r THEN Fresh(0) ELSE thread[t]]
    /\ calls' = [calls EXCEPT ![r] = 0] /\ floorCalls' = [floorCalls EXCEPT ![r] = 0]
    /\ madeInRun' = [madeInRun EXCEPT ![r] = 0]
    /\ UNCHANGED <<today, count, health, madeOn>>

Next ==
    \/ \E t \in Threads :
          \/ BeginReference(t)
          \/ ReserveCall(t) \/ RefuseCall(t) \/ ReserveDay(t) \/ RefuseDay(t) \/ LoseDay(t)
          \/ Send(t) \/ Busy(t)
          \/ Failed(t) \/ Worked(t) \/ CloseIncident(t)
    \/ OutageLasts \/ NextDay
    \/ \E r \in Runs : Die(r)

Spec == Init /\ [][Next]_vars

-----------------------------------------------------------------------------
(* Properties                                                              *)

(* A run never sends more requests than its hard cap, and a day, for the   *)
(* deployment and for each scope, never more than its limit, whatever      *)
(* threads, runs, Redis errors and deaths come between the count and the   *)
(* request (_reserve_policy_call, search_budget.reserve and release).      *)
WithinBudgets ==
    /\ \A r \in Runs : madeInRun[r] <= HardCap
    /\ \A k \in Keys : Limit[k] > 0 => madeOn[k] <= Limit[k]

(* The counts are exact inside a run: every counted call was sent or is    *)
(* about to be, and the floor's count is what lies above the ceiling.      *)
Pending(r) == {t \in Threads : RunOf[t] = r /\ thread[t].step \in {"counted", "gate"}}
CountsExact ==
    \A r \in Runs :
       /\ calls[r] = madeInRun[r] + Cardinality(Pending(r))
       /\ floorCalls[r] = IF calls[r] > Ceiling THEN calls[r] - Ceiling ELSE 0

(* No reference is told that the ceiling is spent before it has had its    *)
(* floor of real calls, as long as the hard cap covers every reference's   *)
(* floor (_policy_call_permitted: each reference keeps its floor of calls  *)
(* after the ceiling is spent).                                            *)
ThreadsOf(r) == {t \in Threads : RunOf[t] = r}
FloorGuaranteed ==
    \A t \in Threads :
       /\ Required /\ Ceiling > 0 /\ thread[t].shut
       /\ HardCap >= Ceiling + Floor * MaxReferences * Cardinality(ThreadsOf(RunOf[t]))
       => thread[t].made >= Floor

(* An outage is reported as recovered at most once, although every thread  *)
(* whose request worked may have read the same incident before one of them *)
(* closed it (_track_required_api_health).                                 *)
OneRecoveryPerIncident == recoveries <= opened
=============================================================================
