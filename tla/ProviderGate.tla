---------------------------- MODULE ProviderGate ----------------------------
(***************************************************************************)
(* The request gate of one provider: the start slot and the in-flight      *)
(* places kept in Redis for all processes, the pacing each process falls   *)
(* back to when Redis fails, and the callers that wait for both, make      *)
(* their request and report a refusal (429) to the others.                 *)
(*                                                                         *)
(* Time is a clock that counts every timer down: "gap" is how far away the *)
(* next free start slot is.  A script run by Redis is one step.            *)
(***************************************************************************)
EXTENDS Integers, FiniteSets

CONSTANTS
    Callers,        \* threads that call the provider
    Processes,      \* worker processes
    ProcessOf,      \* caller -> process
    Places,         \* in-flight places
    Interval,       \* time between two request starts
    Multiplier,     \* _UNSHARED_MULTIPLIER
    MaxWait,        \* MAX_WAIT_SECONDS
    Budgets,        \* what a reference's elapsed budget may leave a call
    Hold,           \* hold_seconds of a place
    KeyLife,        \* life of the slot's key: max(4 intervals, 60 seconds)
    DeferLife,      \* what the key lives on after the end of a hold
    Holds,          \* Retry-After values of a refusal
    RequestTime,    \* the longest a request takes (its timeout)
    Outage,         \* _RETRY_AFTER_SECONDS without Redis
    MaxRefusals,    \* bound: requests refused with 429
    MaxFaults       \* bound: Redis errors and dead processes

ASSUME CallerAssumption == IsFiniteSet(Callers) /\ ProcessOf \in [Callers -> Processes]
ASSUME TimeAssumption ==
    /\ {Places, Interval, Multiplier, Hold, KeyLife, RequestTime, Outage} \subseteq Nat \ {0}
    /\ MaxWait \in Nat /\ DeferLife \in Nat
    /\ Budgets \subseteq 0 .. MaxWait /\ Holds \subseteq 1 .. MaxWait
ASSUME BoundAssumption == MaxRefusals \in Nat /\ MaxFaults \in Nat

VARIABLES
    gap, life,      \* the key ":next": time to the next slot, and to its expiry
    place,          \* the set ":places": what is left of each caller's token
    down,           \* what is left of a process's pause from Redis
    localGap,       \* _local_next of a process
    localUsed,      \* places taken of a process's semaphore
    caller,         \* what each caller is doing
    since,          \* time since the last start in a shared slot
    forgot,         \* whether the key expired before the slot it named
    refusals, faults

shared == <<gap, life, place>>
locals == <<down, localGap, localUsed>>
history == <<since, forgot>>
vars   == <<shared, locals, caller, history, refusals, faults>>

-----------------------------------------------------------------------------
Caller == [step : {"idle", "place", "local", "slot", "booked", "sent", "refused"},
           kind : {"none", "shared", "local"},      \* the place it holds
           slot : {"none", "shared", "local"},      \* who gave its start
           left : Int,                              \* to its deadline
           wait : Nat,                              \* to its start
           held : Nat]                              \* of its place, by its own clock
Idle == [step |-> "idle", kind |-> "none", slot |-> "none", left |-> 0, wait |-> 0, held |-> 0]

TypeOK ==
    /\ gap \in Nat /\ life \in Nat /\ (life = 0 => gap = 0)
    /\ place \in [Callers -> 0 .. Hold]
    /\ down \in [Processes -> 0 .. Outage]
    /\ localGap \in [Processes -> Nat]
    /\ localUsed \in [Processes -> 0 .. Cardinality(Callers)]
    /\ caller \in [Callers -> Caller]
    /\ since \in 0 .. Interval /\ forgot \in BOOLEAN
    /\ refusals \in 0 .. MaxRefusals /\ faults \in 0 .. MaxFaults

Init ==
    /\ gap = 0 /\ life = 0
    /\ place = [c \in Callers |-> 0]
    /\ down = [p \in Processes |-> 0]
    /\ localGap = [p \in Processes |-> 0] /\ localUsed = [p \in Processes |-> 0]
    /\ caller = [c \in Callers |-> Idle]
    /\ since = Interval /\ forgot = FALSE
    /\ refusals = 0 /\ faults = 0

At(c, step) == caller[c].step = step
Up(c)       == down[ProcessOf[c]] = 0
Fault       == faults < MaxFaults /\ faults' = faults + 1
Disable(c)  == down' = [down EXCEPT ![ProcessOf[c]] = Outage]

-----------------------------------------------------------------------------
(* Leaving the gate: a place is given back by its token, or to the         *)
(* semaphore of the process.  While Redis is paused a token stays.         *)
\* Mutant: the oldest token is given back, whoever has it.
FreedOldest(c) ==
    \/ place = [d \in Callers |-> 0] /\ UNCHANGED place
    \/ \E d \in Callers :
          /\ place[d] > 0 /\ \A e \in Callers : place[e] > 0 => place[d] <= place[e]
          /\ place' = [place EXCEPT ![d] = 0]

Freed(c) == place' = [place EXCEPT ![c] = 0]
ReleasePlace(c) ==
    \/ caller[c].kind = "shared" /\ Up(c) /\ Freed(c)
       /\ UNCHANGED <<locals, faults>>
    \/ caller[c].kind = "shared" /\ ~Up(c) /\ UNCHANGED <<place, locals, faults>>
    \/ caller[c].kind = "shared" /\ Up(c) /\ Fault /\ Disable(c)
       /\ (UNCHANGED place \/ Freed(c)) /\ UNCHANGED <<localGap, localUsed>>
    \/ caller[c].kind = "local"
       /\ localUsed' = [localUsed EXCEPT ![ProcessOf[c]] = @ - 1]
       /\ UNCHANGED <<place, down, localGap, faults>>
    \/ caller[c].kind = "none" /\ UNCHANGED <<place, locals, faults>>

(* ProviderBusy: the caller skips its call and books nothing.  What a      *)
(* caller does between two calls takes time.                               *)
Resting == [Idle EXCEPT !.left = 1]

Busy(c) ==
    /\ ReleasePlace(c)
    /\ caller' = [caller EXCEPT ![c] = Resting]
    /\ UNCHANGED <<gap, life, history, refusals>>

Ask(c) ==
    /\ At(c, "idle") /\ caller[c].left = 0
    /\ \E b \in Budgets : caller' = [caller EXCEPT ![c].step = "place", ![c].left = b]
    /\ UNCHANGED <<shared, locals, history, refusals, faults>>

(* A place of Redis, polled until the deadline. *)
Taken   == {c \in Callers : place[c] > 0}
Free    == Cardinality(Taken) < Places
Take(c) == place' = [place EXCEPT ![c] = Hold]

TakePlace(c) ==
    /\ At(c, "place") /\ Up(c) /\ Free /\ Take(c)
    /\ caller' = [caller EXCEPT ![c].step = "slot", ![c].kind = "shared", ![c].held = Hold]
    /\ UNCHANGED <<gap, life, locals, history, refusals, faults>>

\* Mutant: a caller polls for a place past its deadline.
NoPlaceEver(c) == FALSE

NoPlace(c) ==
    /\ At(c, "place") /\ Up(c) /\ ~Free /\ caller[c].left = 0
    /\ Busy(c)

LosePlace(c) ==
    /\ At(c, "place") /\ Up(c) /\ Fault /\ Disable(c)
    /\ UNCHANGED place \/ (Free /\ Take(c))
    /\ caller' = [caller EXCEPT ![c].step = "local"]
    /\ UNCHANGED <<gap, life, localGap, localUsed, history, refusals>>

WithoutRedis(c) ==
    /\ At(c, "place") /\ ~Up(c)
    /\ caller' = [caller EXCEPT ![c].step = "local"]
    /\ UNCHANGED <<shared, locals, history, refusals, faults>>

(* A place of the process's semaphore, waited for until the deadline. *)
LocalPlaces == IF Places \div Multiplier > 1 THEN Places \div Multiplier ELSE 1

TakeLocalPlace(c) ==
    /\ At(c, "local") /\ localUsed[ProcessOf[c]] < LocalPlaces
    /\ localUsed' = [localUsed EXCEPT ![ProcessOf[c]] = @ + 1]
    /\ caller' = [caller EXCEPT ![c].step = "slot", ![c].kind = "local"]
    /\ UNCHANGED <<shared, down, localGap, history, refusals, faults>>

NoLocalPlace(c) ==
    /\ At(c, "local") /\ localUsed[ProcessOf[c]] >= LocalPlaces /\ caller[c].left = 0
    /\ Busy(c)

-----------------------------------------------------------------------------
(* The start slot: the next free one, if it is not past the deadline. *)
NextGap == gap + Interval
BookSlot == gap' = NextGap /\ life' = KeyLife
Booked(c, kind, wait) ==
    caller' = [caller EXCEPT ![c].step = "booked", ![c].slot = kind, ![c].wait = wait]

Book(c) ==
    /\ At(c, "slot") /\ Up(c) /\ gap <= caller[c].left
    /\ BookSlot /\ Booked(c, "shared", gap)
    /\ UNCHANGED <<place, locals, history, refusals, faults>>

NoSlot(c) ==
    /\ At(c, "slot") /\ Up(c) /\ gap > caller[c].left
    /\ Busy(c)

LocalSlot(c) ==
    LET p == ProcessOf[c]
    IN  /\ localGap[p] <= caller[c].left
        /\ localGap' = [localGap EXCEPT ![p] = @ + Interval * Multiplier]
        /\ Booked(c, "local", localGap[p])

LoseSlot(c) ==
    /\ At(c, "slot") /\ Up(c) /\ Fault /\ Disable(c)
    /\ UNCHANGED <<gap, life>> \/ (gap <= caller[c].left /\ BookSlot)
    /\ LocalSlot(c)
    /\ UNCHANGED <<place, localUsed, history, refusals>>

BookLocally(c) ==
    /\ At(c, "slot") /\ ~Up(c) /\ LocalSlot(c)
    /\ UNCHANGED <<shared, down, localUsed, history, refusals, faults>>

NoLocalSlot(c) ==
    /\ At(c, "slot") /\ ~Up(c) /\ localGap[ProcessOf[c]] > caller[c].left
    /\ Busy(c)

-----------------------------------------------------------------------------
(* The request itself.  After a refusal the place is free before the hold  *)
(* is set; a Retry-After of another process does not reach who has booked. *)
Start(c) ==
    /\ At(c, "booked") /\ caller[c].wait = 0
    /\ caller' = [caller EXCEPT ![c].step = "sent", ![c].left = RequestTime]
    /\ since' = IF caller[c].slot = "shared" THEN 0 ELSE since
    /\ UNCHANGED <<shared, locals, forgot, refusals, faults>>

Answered(c) == At(c, "sent") /\ Busy(c)

Refused(c) ==
    /\ At(c, "sent") /\ refusals < MaxRefusals /\ refusals' = refusals + 1
    /\ ReleasePlace(c)
    /\ caller' = [caller EXCEPT ![c] = [Idle EXCEPT !.step = "refused"]]
    /\ UNCHANGED <<gap, life, history>>

\* Mutant: a hold replaces a later slot.
DeferredTo(s) == s

Deferred(s) == IF gap > s THEN gap ELSE s
Push(s)     == gap' = Deferred(s) /\ life' = s + DeferLife

Defer(c) ==
    /\ At(c, "refused")
    /\ \/ Up(c) /\ (\E s \in Holds : Push(s)) /\ UNCHANGED <<down, faults>>
       \/ ~Up(c) /\ UNCHANGED <<gap, life, down, faults>>
       \/ Up(c) /\ Fault /\ Disable(c)
          /\ (UNCHANGED <<gap, life>> \/ \E s \in Holds : Push(s))
    /\ caller' = [caller EXCEPT ![c] = Resting]
    /\ UNCHANGED <<place, localGap, localUsed, history, refusals>>

(* A process dies: its tokens and slots stay in Redis until they expire. *)
Die(p) ==
    /\ \E c \in Callers : ProcessOf[c] = p /\ ~At(c, "idle")
    /\ Fault
    /\ caller' = [c \in Callers |-> IF ProcessOf[c] = p THEN Idle ELSE caller[c]]
    /\ down' = [down EXCEPT ![p] = 0]
    /\ localGap' = [localGap EXCEPT ![p] = 0] /\ localUsed' = [localUsed EXCEPT ![p] = 0]
    /\ UNCHANGED <<shared, history, refusals>>

(* One unit of time passes.  Starts, the ends of requests and what a       *)
(* caller does at once are on time; who waits for a place may look late.   *)
Less(n) == IF n > 0 THEN n - 1 ELSE 0
Due(c) ==
    \/ At(c, "booked") /\ caller[c].wait = 0
    \/ At(c, "sent") /\ caller[c].left = 0
    \/ At(c, "slot") \/ At(c, "refused")

Tick ==
    /\ \A c \in Callers : ~Due(c)
    /\ life' = Less(life)
    /\ gap' = IF life' = 0 THEN 0 ELSE Less(gap)
    /\ forgot' = (forgot \/ (life' = 0 /\ Less(gap) > 0))
    /\ place' = [c \in Callers |-> Less(place[c])]
    /\ down' = [p \in Processes |-> Less(down[p])]
    /\ localGap' = [p \in Processes |-> Less(localGap[p])]
    /\ caller' = [c \in Callers |-> [caller[c] EXCEPT
                    !.left = Less(@), !.wait = Less(@), !.held = Less(@)]]
    /\ since' = IF since < Interval THEN since + 1 ELSE since
    /\ UNCHANGED <<localUsed, refusals, faults>>

Call(c) ==
    \/ TakePlace(c) \/ NoPlace(c) \/ LosePlace(c) \/ WithoutRedis(c)
    \/ TakeLocalPlace(c) \/ NoLocalPlace(c)
    \/ Book(c) \/ NoSlot(c) \/ LoseSlot(c) \/ BookLocally(c) \/ NoLocalSlot(c)
    \/ Start(c) \/ Answered(c) \/ Refused(c) \/ Defer(c)

Next == Tick \/ (\E c \in Callers : Ask(c) \/ Call(c)) \/ \E p \in Processes : Die(p)

Spec == Init /\ [][Next]_vars

(* The clock goes on, and a caller goes on when it can. *)
FairSpec == Spec /\ WF_vars(Tick) /\ \A c \in Callers : WF_vars(Call(c))

-----------------------------------------------------------------------------
(* Properties                                                              *)

(* Of the callers that took a place of Redis less than its hold time ago   *)
(* and are not done, there are never more than places, although tokens     *)
(* expire under callers that then give them back (acquire_place,           *)
(* release_place).                                                         *)
Holders == {c \in Callers : caller[c].kind = "shared" /\ caller[c].held > 0}
PlacesKept == Cardinality(Holders) <= Places

(* Two requests that start in shared slots start an interval apart,        *)
(* whichever processes send them and whatever was skipped, held back or    *)
(* lost between, unless the key that names the slot expired before the     *)
(* slot (_RESERVE_WITHIN, _DEFER).                                         *)
StartsApart ==
    [][\A c \in Callers : Start(c) /\ caller[c].slot = "shared" /\ ~forgot
                          => since >= Interval]_vars

(* Every call is made or skipped in the end: no death, lost place or       *)
(* unreachable Redis leaves a caller waiting for ever (turn, _take_place). *)
CallsEnd == \A c \in Callers : ~At(c, "idle") ~> At(c, "idle")
=============================================================================
