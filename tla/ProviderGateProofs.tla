-------------------------- MODULE ProviderGateProofs --------------------------
(* Proofs about ProviderGate, for every value of its constants. *)
EXTENDS ProviderGate, FiniteSetTheorems, TLAPS

-----------------------------------------------------------------------------
(* The inductive invariant.  A token lives at least as long as its         *)
(* holder's own clock says, tokens are taken only while there is a place,  *)
(* and the slots booked lie an interval apart, before the next free one.   *)

Typed ==
    /\ gap \in Nat /\ life \in Nat /\ (life = 0 => gap = 0)
    /\ place \in [Callers -> 0 .. Hold]
    /\ down \in [Processes -> 0 .. Outage]
    /\ localGap \in [Processes -> Nat]
    /\ localUsed \in [Processes -> Int]
    /\ caller \in [Callers -> Caller]
    /\ since \in 0 .. Interval /\ forgot \in BOOLEAN
    /\ refusals \in 0 .. MaxRefusals /\ faults \in 0 .. MaxFaults

LocalHolders(p) == {c \in Callers : ProcessOf[c] = p /\ caller[c].kind = "local"}
LocalsCounted   == \A p \in Processes : localUsed[p] = Cardinality(LocalHolders(p))

Outside   == {"idle", "place", "local", "refused"}
HoldInside == \A c \in Callers : caller[c].step \in Outside => caller[c].kind = "none"

TokensLast  == \A c \in Callers : caller[c].kind = "shared" => caller[c].held <= place[c]
TokensFit   == Cardinality(Taken) <= Places

Waiting(c)    == At(c, "booked") /\ caller[c].slot = "shared"
NextApart     == since + gap >= Interval
BookedBefore  == \A c \in Callers : Waiting(c) =>
                     /\ caller[c].wait + Interval <= gap
                     /\ since + caller[c].wait >= Interval
BookedApart   == \A c, d \in Callers : Waiting(c) /\ Waiting(d) /\ c # d =>
                     \/ caller[c].wait + Interval <= caller[d].wait
                     \/ caller[d].wait + Interval <= caller[c].wait
SlotsApart    == ~forgot => NextApart /\ BookedBefore /\ BookedApart

GateInv == Typed /\ LocalsCounted /\ HoldInside /\ TokensLast /\ TokensFit /\ SlotsApart

-----------------------------------------------------------------------------
LEMMA Times ==
    /\ Places \in Nat /\ Interval \in Nat /\ Multiplier \in Nat /\ Hold \in Nat
    /\ KeyLife \in Nat /\ RequestTime \in Nat /\ Outage \in Nat
    /\ Places > 0 /\ Interval > 0 /\ KeyLife > 0 /\ Hold > 0 /\ Outage > 0
    /\ MaxWait \in Nat /\ DeferLife \in Nat /\ MaxRefusals \in Nat /\ MaxFaults \in Nat
    /\ \A b \in Budgets : b \in Nat
    /\ \A s \in Holds : s \in Nat /\ s > 0
BY TimeAssumption, BoundAssumption

LEMMA RestingCaller ==
    /\ Idle \in Caller /\ Resting \in Caller /\ [Idle EXCEPT !.step = "refused"] \in Caller
    /\ Idle.kind = "none" /\ Resting.kind = "none" /\ [Idle EXCEPT !.step = "refused"].kind = "none"
    /\ Idle.step = "idle" /\ Resting.step = "idle"
    /\ [Idle EXCEPT !.step = "refused"].step = "refused"
BY DEF Idle, Resting, Caller

LEMMA FiniteLocals ==
    \A p \in Processes : /\ IsFiniteSet(LocalHolders(p))
                         /\ Cardinality(LocalHolders(p)) \in 0 .. Cardinality(Callers)
<1> SUFFICES ASSUME NEW p \in Processes
             PROVE  /\ IsFiniteSet(LocalHolders(p))
                    /\ Cardinality(LocalHolders(p)) \in 0 .. Cardinality(Callers)
    OBVIOUS
<1>1. LocalHolders(p) \subseteq Callers
    BY DEF LocalHolders
<1> QED  BY <1>1, CallerAssumption, FS_Subset, FS_CardinalityType

LEMMA FiniteTaken == IsFiniteSet(Taken) /\ Cardinality(Taken) \in Nat
<1>1. Taken \subseteq Callers
    BY DEF Taken
<1> QED  BY <1>1, CallerAssumption, FS_Subset, FS_CardinalityType

LEMMA InitGate == Init => GateInv
<1> SUFFICES ASSUME Init PROVE GateInv
    OBVIOUS
<1>1. Typed
    <2>1. since \in 0 .. Interval /\ refusals \in 0 .. MaxRefusals /\ faults \in 0 .. MaxFaults
        BY Times DEF Init
    <2>2. place \in [Callers -> 0 .. Hold] /\ down \in [Processes -> 0 .. Outage]
        BY Times DEF Init
    <2>3. localGap \in [Processes -> Nat] /\ localUsed \in [Processes -> Int]
        BY DEF Init
    <2>4. caller \in [Callers -> Caller] /\ gap \in Nat /\ life \in Nat /\ (life = 0 => gap = 0)
        BY RestingCaller DEF Init
    <2>5. forgot \in BOOLEAN
        BY DEF Init
    <2> QED  BY <2>1, <2>2, <2>3, <2>4, <2>5 DEF Typed
<1>2. \A p \in Processes : LocalHolders(p) = {}
    BY RestingCaller DEF Init, LocalHolders
<1>3. LocalsCounted
    BY <1>2, FS_EmptySet DEF Init, LocalsCounted
<1>4. HoldInside /\ TokensLast
    BY RestingCaller DEF Init, HoldInside, TokensLast
<1>5. Taken = {}
    BY DEF Init, Taken
<1>6. TokensFit
    BY <1>5, FS_EmptySet, Times DEF TokensFit
<1>7. \A c \in Callers : ~Waiting(c)
    BY RestingCaller DEF Init, Waiting, At
<1>8. SlotsApart
    BY <1>7, Times DEF Init, SlotsApart, NextApart, BookedBefore, BookedApart
<1> QED  BY <1>1, <1>3, <1>4, <1>6, <1>8 DEF GateInv

-----------------------------------------------------------------------------
(* Leaving the gate, after the call or without one: the steps that give a  *)
(* place back.                                                             *)
Leave(c) ==
    /\ ReleasePlace(c)
    /\ \E r \in Caller :
          /\ r.kind = "none" /\ r.step \in {"idle", "refused"}
          /\ caller' = [caller EXCEPT ![c] = r]
    /\ UNCHANGED <<gap, life, since, forgot>>

Skips(c) == NoPlace(c) \/ NoLocalPlace(c) \/ NoSlot(c) \/ NoLocalSlot(c) \/ Answered(c)

LEMMA Leaving ==
    ASSUME NEW c \in Callers, Skips(c) \/ Refused(c)
    PROVE  Leave(c) /\ (refusals' = refusals \/ (refusals < MaxRefusals /\ refusals' = refusals + 1))
<1>1. CASE Skips(c)
    <2>1. Busy(c)
        BY <1>1 DEF Skips, NoPlace, NoLocalPlace, NoSlot, NoLocalSlot, Answered
    <2> QED  BY <2>1, RestingCaller DEF Busy, Leave, history
<1>2. CASE Refused(c)
    BY <1>2, RestingCaller DEF Refused, Leave, history
<1> QED  BY <1>1, <1>2

-----------------------------------------------------------------------------
(* Types.                                                                  *)
LEMMA CallerParts ==
    ASSUME Typed, NEW c \in Callers
    PROVE  /\ caller[c] \in Caller
           /\ caller[c].left \in Int /\ caller[c].wait \in Nat /\ caller[c].held \in Nat
           /\ ProcessOf[c] \in Processes
BY CallerAssumption DEF Typed, Caller

LEMMA LessNat == \A n \in Nat : Less(n) \in Nat /\ Less(n) <= n /\ (n > 0 => Less(n) = n - 1)
BY DEF Less

LEMMA CallerMade ==
    ASSUME NEW r \in Caller
    PROVE  /\ \A n \in Int : [r EXCEPT !.step = "place", !.left = n] \in Caller
           /\ \A n \in Int : [r EXCEPT !.step = "sent", !.left = n] \in Caller
           /\ [r EXCEPT !.left = Less(@), !.wait = Less(@), !.held = Less(@)] \in Caller
<1>1. \A n \in Int : [r EXCEPT !.step = "place", !.left = n] \in Caller
    BY DEF Caller
<1>2. \A n \in Int : [r EXCEPT !.step = "sent", !.left = n] \in Caller
    BY DEF Caller
<1>3. Less(r.left) \in Int /\ Less(r.wait) \in Nat /\ Less(r.held) \in Nat
    BY DEF Caller, Less
<1>4. [r EXCEPT !.left = Less(@), !.wait = Less(@), !.held = Less(@)] \in Caller
    <2> DEFINE a == Less(r.left)  b == Less(r.wait)  d == Less(r.held)
    <2>1. a \in Int /\ b \in Nat /\ d \in Nat
        BY <1>3
    <2> HIDE DEF a, b, d
    <2>2. [r EXCEPT !.left = a, !.wait = b, !.held = d] \in Caller
        BY <2>1 DEF Caller
    <2> QED  BY <2>2 DEF a, b, d
<1> QED  BY <1>1, <1>2, <1>4

LEMMA BookedTypes ==
    ASSUME Typed, NEW c \in Callers, NEW kind \in {"shared", "local"}, NEW wait \in Nat,
           Booked(c, kind, wait)
    PROVE  /\ caller' \in [Callers -> Caller]
           /\ caller'[c] = [caller[c] EXCEPT !.step = "booked", !.slot = kind, !.wait = wait]
           /\ \A d \in Callers : d # c => caller'[d] = caller[d]
<1> DEFINE booked == [caller[c] EXCEPT !.step = "booked", !.slot = kind, !.wait = wait]
<1>1. caller' = [caller EXCEPT ![c] = booked]
    BY DEF Booked, Typed
<1>2. booked \in Caller
    BY CallerParts DEF Caller
<1> QED  BY <1>1, <1>2 DEF Typed

LEMMA LocalSlotTypes ==
    ASSUME Typed, NEW c \in Callers, LocalSlot(c)
    PROVE  /\ localGap' \in [Processes -> Nat]
           /\ caller' \in [Callers -> Caller]
           /\ caller'[c] = [caller[c] EXCEPT !.step = "booked", !.slot = "local",
                                             !.wait = localGap[ProcessOf[c]]]
           /\ \A d \in Callers : d # c => caller'[d] = caller[d]
<1> DEFINE p == ProcessOf[c]
<1>1. p \in Processes /\ localGap[p] \in Nat
    BY CallerParts DEF Typed
<1>2. Interval * Multiplier \in Nat
    BY Times
<1>3. localGap' = [localGap EXCEPT ![p] = @ + Interval * Multiplier] /\ Booked(c, "local", localGap[p])
    BY DEF LocalSlot
<1>4. localGap' \in [Processes -> Nat]
    BY <1>1, <1>2, <1>3 DEF Typed
<1> QED  BY <1>1, <1>3, <1>4, BookedTypes

LEMMA ReleaseTypes ==
    ASSUME Typed, NEW c \in Callers, ReleasePlace(c)
    PROVE  /\ place' \in [Callers -> 0 .. Hold]
           /\ down' \in [Processes -> 0 .. Outage]
           /\ localGap' \in [Processes -> Nat]
           /\ localUsed' \in [Processes -> Int]
           /\ faults' \in 0 .. MaxFaults
<1>1. CASE UNCHANGED <<locals, faults>> /\ (Freed(c) \/ UNCHANGED place)
    BY <1>1, Times DEF Typed, locals, Freed
<1>2. CASE Fault /\ Disable(c) /\ UNCHANGED <<localGap, localUsed>> /\ (Freed(c) \/ UNCHANGED place)
    BY <1>2, Times, CallerParts DEF Typed, Fault, Disable, Freed
<1>3. CASE /\ localUsed' = [localUsed EXCEPT ![ProcessOf[c]] = @ - 1]
           /\ UNCHANGED <<place, down, localGap, faults>>
    BY <1>3, CallerParts DEF Typed
<1> QED  BY <1>1, <1>2, <1>3 DEF ReleasePlace

LEMMA CallTypes ==
    ASSUME Typed, NEW c \in Callers, Ask(c) \/ Call(c)
    PROVE  Typed'
<1> USE CallerParts, Times DEF Typed
<1>1. CASE Skips(c) \/ Refused(c)
    BY <1>1, Leaving, ReleaseTypes DEF Leave
<1>2. CASE Ask(c)
    <2>1. caller' \in [Callers -> Caller]
        <3>1. PICK b \in Budgets : caller' = [caller EXCEPT ![c].step = "place", ![c].left = b]
            BY <1>2 DEF Ask
        <3>2. [caller[c] EXCEPT !.step = "place", !.left = b] \in Caller
            <4>1. caller[c] \in Caller /\ b \in Int
                OBVIOUS
            <4> QED  BY <4>1, CallerMade
        <3>3. caller' = [caller EXCEPT ![c] = [caller[c] EXCEPT !.step = "place", !.left = b]]
            BY <3>1
        <3> QED  BY <3>2, <3>3
    <2> QED  BY <1>2, <2>1 DEF Ask, shared, locals, history
<1>3. CASE TakePlace(c)
    <2>1. caller' \in [Callers -> Caller]
        <3>1. [caller[c] EXCEPT !.step = "slot", !.kind = "shared", !.held = Hold] \in Caller
            BY DEF Caller
        <3>2. caller' = [caller EXCEPT ![c] = [caller[c] EXCEPT
                            !.step = "slot", !.kind = "shared", !.held = Hold]]
            BY <1>3 DEF TakePlace
        <3> QED  BY <3>1, <3>2
    <2> QED  BY <1>3, <2>1 DEF TakePlace, Take, locals, history
<1>4. CASE LosePlace(c)
    <2>1. place' \in [Callers -> 0 .. Hold]
        BY <1>4 DEF LosePlace, Take
    <2>2. down' \in [Processes -> 0 .. Outage] /\ faults' \in 0 .. MaxFaults
        BY <1>4 DEF LosePlace, Disable, Fault
    <2>3. caller' \in [Callers -> Caller]
        BY <1>4 DEF LosePlace, Caller
    <2> QED  BY <1>4, <2>1, <2>2, <2>3 DEF LosePlace, history
<1>5. CASE WithoutRedis(c)
    <2>1. caller' \in [Callers -> Caller]
        BY <1>5 DEF WithoutRedis, Caller
    <2> QED  BY <1>5, <2>1 DEF WithoutRedis, shared, locals, history
<1>6. CASE TakeLocalPlace(c)
    <2>1. caller' \in [Callers -> Caller]
        <3>1. [caller[c] EXCEPT !.step = "slot", !.kind = "local"] \in Caller
            BY DEF Caller
        <3>2. caller' = [caller EXCEPT ![c] = [caller[c] EXCEPT !.step = "slot", !.kind = "local"]]
            BY <1>6 DEF TakeLocalPlace
        <3> QED  BY <3>1, <3>2
    <2> QED  BY <1>6, <2>1 DEF TakeLocalPlace, shared, history
<1>7. CASE Book(c)
    <2>1. caller' \in [Callers -> Caller]
        BY <1>7, BookedTypes DEF Book
    <2> QED  BY <1>7, <2>1 DEF Book, BookSlot, NextGap, locals, history
<1>8. CASE LoseSlot(c)
    <2>1. /\ gap' \in Nat /\ life' \in Nat /\ (life' = 0 => gap' = 0)
        BY <1>8 DEF LoseSlot, BookSlot, NextGap
    <2>2. down' \in [Processes -> 0 .. Outage] /\ faults' \in 0 .. MaxFaults
        BY <1>8 DEF LoseSlot, Disable, Fault
    <2>3. localGap' \in [Processes -> Nat]
        BY <1>8, LocalSlotTypes DEF LoseSlot
    <2>4. caller' \in [Callers -> Caller]
        BY <1>8, LocalSlotTypes DEF LoseSlot
    <2> QED  BY <1>8, <2>1, <2>2, <2>3, <2>4 DEF LoseSlot, history
<1>9. CASE BookLocally(c)
    BY <1>9, LocalSlotTypes DEF BookLocally, shared, history
<1>10. CASE Start(c)
    <2>1. caller' \in [Callers -> Caller]
        <3>1. [caller[c] EXCEPT !.step = "sent", !.left = RequestTime] \in Caller
            <4>1. caller[c] \in Caller /\ RequestTime \in Int
                OBVIOUS
            <4> QED  BY <4>1, CallerMade
        <3>2. caller' = [caller EXCEPT ![c] = [caller[c] EXCEPT
                            !.step = "sent", !.left = RequestTime]]
            BY <1>10 DEF Start
        <3> QED  BY <3>1, <3>2
    <2> QED  BY <1>10, <2>1 DEF Start, shared, locals
<1>11. CASE Defer(c)
    <2>1. /\ gap' \in Nat /\ life' \in Nat /\ (life' = 0 => gap' = 0)
        BY <1>11 DEF Defer, Push, Deferred
    <2>2. down' \in [Processes -> 0 .. Outage] /\ faults' \in 0 .. MaxFaults
        BY <1>11 DEF Defer, Disable, Fault
    <2> QED  BY <1>11, <2>1, <2>2, RestingCaller DEF Defer, history
<1> QED  BY <1>1, <1>2, <1>3, <1>4, <1>5, <1>6, <1>7, <1>8, <1>9, <1>10, <1>11 DEF Call, Skips

LEMMA DieTypes ==
    ASSUME Typed, NEW p \in Processes, Die(p)
    PROVE  Typed'
<1> USE Times DEF Typed
<1>1. caller' \in [Callers -> Caller]
    BY RestingCaller DEF Die
<1>2. down' \in [Processes -> 0 .. Outage] /\ faults' \in 0 .. MaxFaults
    BY DEF Die, Fault
<1>3. localGap' \in [Processes -> Nat] /\ localUsed' \in [Processes -> Int]
    BY DEF Die
<1> QED  BY <1>1, <1>2, <1>3 DEF Die, shared, history

LEMMA TickTypes ==
    ASSUME Typed, Tick
    PROVE  Typed'
<1> USE Times DEF Typed
<1>1. gap' \in Nat /\ life' \in Nat /\ (life' = 0 => gap' = 0)
    BY LessNat DEF Tick
<1>2. place' \in [Callers -> 0 .. Hold] /\ down' \in [Processes -> 0 .. Outage]
    <2>1. \A n \in 0 .. Hold : Less(n) \in 0 .. Hold
        BY DEF Less
    <2>2. \A n \in 0 .. Outage : Less(n) \in 0 .. Outage
        BY DEF Less
    <2> QED  BY <2>1, <2>2 DEF Tick
<1>3. localGap' \in [Processes -> Nat]
    BY LessNat DEF Tick
<1>4. \A c \in Callers : [caller[c] EXCEPT !.left = Less(@), !.wait = Less(@), !.held = Less(@)]
                           \in Caller
    BY CallerParts, CallerMade
<1>5. caller' \in [Callers -> Caller]
    BY <1>4 DEF Tick
<1>6. since' \in 0 .. Interval
    <2>1. since' = IF since < Interval THEN since + 1 ELSE since
        BY DEF Tick
    <2> QED  BY <2>1
<1>7. forgot' \in BOOLEAN
    BY DEF Tick
<1> QED  BY <1>1, <1>2, <1>3, <1>5, <1>6, <1>7 DEF Tick

LEMMA TypedStep == Typed /\ [Next]_vars => Typed'
<1> SUFFICES ASSUME Typed, [Next]_vars PROVE Typed'
    OBVIOUS
<1>1. CASE UNCHANGED vars
    BY <1>1 DEF vars, shared, locals, history, Typed
<1>2. CASE Next
    BY <1>2, CallTypes, DieTypes, TickTypes DEF Next
<1> QED  BY <1>1, <1>2

-----------------------------------------------------------------------------
(* Places.                                                                 *)

LEMMA OthersUnmoved ==
    ASSUME Typed, NEW c \in Callers, Ask(c) \/ Call(c), NEW d \in Callers, d # c
    PROVE  caller'[d] = caller[d]
<1> USE DEF Typed
<1>1. CASE Skips(c) \/ Refused(c)
    BY <1>1, Leaving DEF Leave
<1>2. CASE Ask(c) \/ TakePlace(c) \/ LosePlace(c) \/ WithoutRedis(c) \/ TakeLocalPlace(c)
    BY <1>2 DEF Ask, TakePlace, LosePlace, WithoutRedis, TakeLocalPlace
<1>3. CASE Book(c) \/ LoseSlot(c) \/ BookLocally(c)
    BY <1>3 DEF Book, LoseSlot, BookLocally, LocalSlot, Booked
<1>4. CASE Start(c) \/ Defer(c)
    BY <1>4 DEF Start, Defer
<1> QED  BY <1>1, <1>2, <1>3, <1>4 DEF Call, Skips

\* The steps that change no place held.
Goes(c) ==
    \/ Ask(c) \/ LosePlace(c) \/ WithoutRedis(c) \/ Start(c)
    \/ Book(c) \/ LoseSlot(c) \/ BookLocally(c)

LEMMA KeepsPlace ==
    ASSUME Typed, NEW c \in Callers, Goes(c)
    PROVE  /\ caller'[c].kind = caller[c].kind /\ caller'[c].held = caller[c].held
           /\ caller'[c].step \in Outside => caller[c].step \in Outside
<1> USE CallerParts DEF Outside
<1>1. CASE Ask(c)
    BY <1>1 DEF Ask, At, Caller, Typed
<1>2. CASE LosePlace(c) \/ WithoutRedis(c)
    BY <1>2 DEF LosePlace, WithoutRedis, At, Caller, Typed
<1>3. CASE Start(c)
    BY <1>3 DEF Start, Caller, Typed
<1>4. CASE Book(c)
    BY <1>4 DEF Book, Booked, Caller, Typed
<1>5. CASE LoseSlot(c) \/ BookLocally(c)
    BY <1>5 DEF LoseSlot, BookLocally, LocalSlot, Booked, Caller, Typed
<1> QED  BY <1>1, <1>2, <1>3, <1>4, <1>5 DEF Goes

LEMMA Taking ==
    ASSUME Typed, NEW c \in Callers
    PROVE  /\ TakePlace(c) => /\ caller'[c].kind = "shared" /\ caller'[c].step = "slot"
                              /\ caller'[c].held = Hold
           /\ TakeLocalPlace(c) => caller'[c].kind = "local" /\ caller'[c].step = "slot"
           /\ Skips(c) \/ Refused(c) \/ Defer(c) => caller'[c].kind = "none"
<1>1. ASSUME TakePlace(c) PROVE /\ caller'[c].kind = "shared" /\ caller'[c].step = "slot"
                                /\ caller'[c].held = Hold
    BY <1>1, CallerParts DEF TakePlace, Caller, Typed
<1>2. ASSUME TakeLocalPlace(c) PROVE caller'[c].kind = "local" /\ caller'[c].step = "slot"
    BY <1>2, CallerParts DEF TakeLocalPlace, Caller, Typed
<1>3. ASSUME Skips(c) \/ Refused(c) \/ Defer(c) PROVE caller'[c].kind = "none"
    BY <1>3, Leaving, RestingCaller DEF Leave, Defer, Typed
<1> QED  BY <1>1, <1>2, <1>3

LEMMA CallKinds ==
    ASSUME NEW c \in Callers, Ask(c) \/ Call(c)
    PROVE  Goes(c) \/ TakePlace(c) \/ TakeLocalPlace(c) \/ Skips(c) \/ Refused(c) \/ Defer(c)
BY DEF Call, Goes, Skips


(* What a process's semaphore counts is its callers with a local place.    *)
LEMMA SameLocals ==
    ASSUME LocalsCounted, localUsed' = localUsed,
           \A d \in Callers : caller'[d].kind = "local" <=> caller[d].kind = "local"
    PROVE  LocalsCounted'
<1>1. \A p \in Processes : LocalHolders(p)' = LocalHolders(p)
    BY DEF LocalHolders
<1> QED  BY <1>1 DEF LocalsCounted

LEMMA LocalsStep == Typed /\ LocalsCounted /\ HoldInside /\ [Next]_vars => LocalsCounted'
<1> SUFFICES ASSUME Typed, LocalsCounted, HoldInside, [Next]_vars PROVE LocalsCounted'
    OBVIOUS
<1>1. ASSUME NEW c \in Callers, Goes(c) PROVE LocalsCounted'
    <2>1. localUsed' = localUsed
        BY <1>1 DEF Goes, Ask, LosePlace, WithoutRedis, Start, Book, LoseSlot, BookLocally, locals
    <2> QED  BY <2>1, <1>1, SameLocals, KeepsPlace, OthersUnmoved DEF Goes, Call
<1>2. ASSUME NEW c \in Callers, TakePlace(c) PROVE LocalsCounted'
    <2>1. localUsed' = localUsed /\ caller[c].kind = "none"
        BY <1>2 DEF TakePlace, locals, HoldInside, Outside, At
    <2> QED  BY <2>1, <1>2, SameLocals, Taking, OthersUnmoved DEF Call
<1>3. ASSUME NEW c \in Callers, TakeLocalPlace(c) PROVE LocalsCounted'
    <2>1. /\ caller[c].kind = "none"
          /\ localUsed' = [localUsed EXCEPT ![ProcessOf[c]] = @ + 1]
        BY <1>3 DEF TakeLocalPlace, HoldInside, Outside, At
    <2>2. \A p \in Processes : p # ProcessOf[c] => LocalHolders(p)' = LocalHolders(p)
        BY <1>3, Taking, OthersUnmoved DEF LocalHolders, Call
    <2>3. LocalHolders(ProcessOf[c])' = LocalHolders(ProcessOf[c]) \cup {c}
        BY <1>3, Taking, OthersUnmoved DEF LocalHolders, Call
    <2>4. c \notin LocalHolders(ProcessOf[c])
        BY <2>1 DEF LocalHolders
    <2>5. Cardinality(LocalHolders(ProcessOf[c]) \cup {c}) = Cardinality(LocalHolders(ProcessOf[c])) + 1
        BY <2>4, FiniteLocals, CallerParts, FS_AddElement
    <2> QED  BY <2>1, <2>2, <2>3, <2>5, CallerParts DEF LocalsCounted, Typed
<1>4. ASSUME NEW c \in Callers, Skips(c) \/ Refused(c) PROVE LocalsCounted'
    <2>1. ReleasePlace(c) /\ caller'[c].kind = "none"
        BY <1>4, Leaving, Taking DEF Leave
    <2>2. \A d \in Callers : d # c => caller'[d] = caller[d]
        BY <1>4, OthersUnmoved DEF Call, Skips
    <2>3. CASE caller[c].kind # "local"
        <3>1. localUsed' = localUsed
            BY <2>1, <2>3 DEF ReleasePlace, locals
        <3> QED  BY <3>1, <2>1, <2>2, <2>3, SameLocals
    <2>4. CASE caller[c].kind = "local"
        <3>1. localUsed' = [localUsed EXCEPT ![ProcessOf[c]] = @ - 1]
            BY <2>1, <2>4 DEF ReleasePlace
        <3>2. \A p \in Processes : p # ProcessOf[c] => LocalHolders(p)' = LocalHolders(p)
            BY <2>1, <2>2 DEF LocalHolders
        <3>3. LocalHolders(ProcessOf[c])' = LocalHolders(ProcessOf[c]) \ {c}
            BY <2>1, <2>2 DEF LocalHolders
        <3>4. c \in LocalHolders(ProcessOf[c])
            BY <2>4 DEF LocalHolders
        <3>5. Cardinality(LocalHolders(ProcessOf[c]) \ {c}) = Cardinality(LocalHolders(ProcessOf[c])) - 1
            BY <3>4, FiniteLocals, CallerParts, FS_RemoveElement
        <3> QED  BY <3>1, <3>2, <3>3, <3>5, CallerParts DEF LocalsCounted, Typed
    <2> QED  BY <2>3, <2>4
<1>5. ASSUME NEW c \in Callers, Defer(c) PROVE LocalsCounted'
    <2>1. localUsed' = localUsed /\ caller[c].kind = "none"
        BY <1>5 DEF Defer, HoldInside, Outside, At
    <2> QED  BY <2>1, <1>5, SameLocals, Taking, OthersUnmoved DEF Call
<1>6. ASSUME NEW p \in Processes, Die(p) PROVE LocalsCounted'
    <2>1. /\ localUsed' = [localUsed EXCEPT ![p] = 0]
          /\ \A d \in Callers : caller'[d] = IF ProcessOf[d] = p THEN Idle ELSE caller[d]
        BY <1>6 DEF Die
    <2>2. \A q \in Processes : q # p => LocalHolders(q)' = LocalHolders(q)
        BY <2>1 DEF LocalHolders
    <2>3. LocalHolders(p)' = {}
        BY <2>1, RestingCaller DEF LocalHolders
    <2> QED  BY <2>1, <2>2, <2>3, FS_EmptySet DEF LocalsCounted, Typed
<1>7. CASE Tick
    <2>1. localUsed' = localUsed
        BY <1>7 DEF Tick
    <2>2. \A d \in Callers : caller'[d].kind = caller[d].kind
        BY <1>7, CallerParts DEF Tick, Caller
    <2> QED  BY <2>1, <2>2, SameLocals
<1>8. CASE UNCHANGED vars
    BY <1>8, SameLocals DEF vars, locals
<1> QED  BY <1>1, <1>2, <1>3, <1>4, <1>5, <1>6, <1>7, <1>8, CallKinds DEF Next

(* Outside the gate a caller has no place.                                 *)
LEMMA HoldInsideStep == Typed /\ HoldInside /\ [Next]_vars => HoldInside'
<1> SUFFICES ASSUME Typed, HoldInside, [Next]_vars,
                    NEW d \in Callers, caller'[d].step \in Outside
             PROVE  caller'[d].kind = "none"
    BY DEF HoldInside, Outside
<1>1. ASSUME NEW c \in Callers, Ask(c) \/ Call(c), d # c PROVE caller'[d].kind = "none"
    BY <1>1, OthersUnmoved DEF HoldInside
<1>2. CASE Ask(d) \/ Call(d)
    BY <1>2, CallKinds, KeepsPlace, Taking DEF HoldInside, Outside
<1>3. ASSUME NEW p \in Processes, Die(p) PROVE caller'[d].kind = "none"
    BY <1>3, RestingCaller DEF Die, HoldInside
<1>4. CASE Tick
    BY <1>4, CallerParts DEF Tick, HoldInside, Caller
<1>5. CASE UNCHANGED vars
    BY <1>5 DEF vars, HoldInside
<1> QED  BY <1>1, <1>2, <1>3, <1>4, <1>5 DEF Next

(* A place of Redis stays taken while its holder counts on it.             *)
LEMMA TokensLastStep == Typed /\ TokensLast /\ [Next]_vars => TokensLast'
<1> SUFFICES ASSUME Typed, TokensLast, [Next]_vars,
                    NEW d \in Callers, caller'[d].kind = "shared"
             PROVE  caller'[d].held <= place'[d]
    BY DEF TokensLast
<1>1. ASSUME NEW c \in Callers, Ask(c) \/ Call(c), d # c PROVE caller'[d].held <= place'[d]
    <2>1. place'[d] = place[d]
        <3>1. CASE Goes(c)
            BY <1>1, <3>1 DEF Goes, Ask, LosePlace, WithoutRedis, Start, Book, LoseSlot, BookLocally,
                              Take, shared, Typed
        <3>2. CASE Skips(c) \/ Refused(c)
            BY <1>1, <3>2, Leaving DEF Leave, ReleasePlace, Freed, Typed
        <3>3. CASE TakePlace(c) \/ TakeLocalPlace(c) \/ Defer(c)
            BY <1>1, <3>3 DEF TakePlace, TakeLocalPlace, Defer, Take, shared, Typed
        <3> QED  BY <1>1, <3>1, <3>2, <3>3, CallKinds
    <2> QED  BY <1>1, <2>1, OthersUnmoved DEF TokensLast
<1>2. CASE Goes(d)
    <2>1. place'[d] = place[d] \/ place'[d] = Hold
        BY <1>2 DEF Goes, Ask, LosePlace, WithoutRedis, Start, Book, LoseSlot, BookLocally,
                    Take, shared, Typed
    <2>2. caller[d].held <= place[d] /\ place[d] <= Hold /\ caller'[d].held = caller[d].held
        BY <1>2, KeepsPlace DEF TokensLast, Typed
    <2> QED  BY <2>1, <2>2, CallerParts, Times DEF Typed
<1>3. CASE TakePlace(d)
    <2>1. place'[d] = Hold
        BY <1>3 DEF TakePlace, Take, Typed
    <2>2. caller'[d].held = Hold
        BY <1>3, Taking
    <2> QED  BY <2>1, <2>2, Times
<1>4. CASE TakeLocalPlace(d) \/ Skips(d) \/ Refused(d) \/ Defer(d)
    BY <1>4, Taking
<1>5. ASSUME NEW p \in Processes, Die(p) PROVE caller'[d].held <= place'[d]
    BY <1>5, RestingCaller DEF Die, TokensLast, shared
<1>6. CASE Tick
    <2>1. /\ caller'[d].kind = caller[d].kind /\ caller'[d].held = Less(caller[d].held)
          /\ place'[d] = Less(place[d])
        BY <1>6, CallerParts DEF Tick, Caller
    <2>2. caller[d].held <= place[d] /\ caller[d].held \in Nat /\ place[d] \in Nat
        BY <2>1, CallerParts, Times DEF TokensLast, Typed
    <2> QED  BY <2>1, <2>2 DEF Less
<1>7. CASE UNCHANGED vars
    BY <1>7 DEF vars, shared, TokensLast
<1> QED  BY <1>1, <1>2, <1>3, <1>4, <1>5, <1>6, <1>7, CallKinds DEF Next


(* A token is added only while there is a place.                           *)
LEMMA FewerTokens ==
    ASSUME TokensFit, \A d \in Callers : place'[d] > 0 => place[d] > 0
    PROVE  TokensFit'
<1>1. Taken' \in SUBSET Taken
    BY DEF Taken
<1>2. Cardinality(Taken') <= Cardinality(Taken)
    BY <1>1, FiniteTaken, FS_Subset
<1>3. Cardinality(Taken') \in Nat
    BY <1>1, FiniteTaken, FS_Subset, FS_CardinalityType
<1> QED  BY <1>2, <1>3, FiniteTaken, Times DEF TokensFit

LEMMA OneToken ==
    ASSUME Typed, NEW c \in Callers, Free, Take(c)
    PROVE  TokensFit'
<1>1. Taken' = Taken \cup {c}
    BY Times DEF Take, Taken, Typed
<1>2. Cardinality(Taken \cup {c}) <= Cardinality(Taken) + 1
    BY FiniteTaken, FS_AddElement
<1>3. Cardinality(Taken \cup {c}) \in Nat
    BY FiniteTaken, FS_AddElement, FS_CardinalityType
<1> QED  BY <1>1, <1>2, <1>3, FiniteTaken, Times DEF Free, TokensFit

LEMMA TokensFitStep == Typed /\ TokensFit /\ [Next]_vars => TokensFit'
<1> SUFFICES ASSUME Typed, TokensFit, [Next]_vars PROVE TokensFit'
    OBVIOUS
<1>1. ASSUME NEW c \in Callers, Skips(c) \/ Refused(c) PROVE TokensFit'
    <2>1. Freed(c) \/ UNCHANGED place
        BY <1>1, Leaving DEF Leave, ReleasePlace
    <2>2. \A d \in Callers : place'[d] > 0 => place[d] > 0
        BY <2>1, Times DEF Freed, Typed
    <2> QED  BY <2>2, FewerTokens
<1>2. ASSUME NEW c \in Callers, TakePlace(c) PROVE TokensFit'
    BY <1>2, OneToken DEF TakePlace
<1>3. ASSUME NEW c \in Callers, LosePlace(c) PROVE TokensFit'
    BY <1>3, OneToken, FewerTokens DEF LosePlace
<1>4. ASSUME NEW c \in Callers,
             \/ Ask(c) \/ WithoutRedis(c) \/ TakeLocalPlace(c) \/ Book(c) \/ LoseSlot(c)
             \/ BookLocally(c) \/ Start(c) \/ Defer(c)
      PROVE  TokensFit'
    <2>1. place' = place
        BY <1>4 DEF Ask, WithoutRedis, TakeLocalPlace, Book, LoseSlot, BookLocally, Start, Defer, shared
    <2> QED  BY <2>1, FewerTokens
<1>5. ASSUME NEW p \in Processes, Die(p) PROVE TokensFit'
    BY <1>5, FewerTokens DEF Die, shared
<1>6. CASE Tick
    <2>1. \A d \in Callers : place'[d] = Less(place[d])
        BY <1>6 DEF Tick
    <2>2. \A d \in Callers : place'[d] > 0 => place[d] > 0
        BY <2>1, Times DEF Less, Typed
    <2> QED  BY <2>2, FewerTokens
<1>7. CASE UNCHANGED vars
    BY <1>7, FewerTokens DEF vars, shared
<1> QED  BY <1>1, <1>2, <1>3, <1>4, <1>5, <1>6, <1>7 DEF Next, Call, Skips

-----------------------------------------------------------------------------
(* Slots.                                                                  *)

\* A step that books and starts nothing, and holds back at most.
LEMMA SlotsKept ==
    ASSUME Typed, Typed', SlotsApart, forgot' = forgot, since' = since, gap' >= gap,
           \A d \in Callers : Waiting(d)' => Waiting(d) /\ caller'[d].wait = caller[d].wait
    PROVE  SlotsApart'
<1> SUFFICES ASSUME ~forgot PROVE NextApart' /\ BookedBefore' /\ BookedApart'
    BY DEF SlotsApart
<1>1. NextApart /\ BookedBefore /\ BookedApart
    BY DEF SlotsApart
<1>2. since \in Nat /\ gap \in Nat /\ gap' \in Nat
    BY Times DEF Typed
<1>3. NextApart'
    <2>1. since + gap >= Interval /\ Interval \in Nat
        BY <1>1, Times DEF NextApart
    <2>2. since' = since /\ gap' >= gap
        OBVIOUS
    <2>3. since' + gap' >= Interval
        <3> DEFINE later == gap'
        <3>1. later \in Nat /\ later >= gap /\ since + gap >= Interval
            BY <1>2, <2>1, <2>2
        <3> HIDE DEF later
        <3>2. since + later >= Interval
            BY <3>1, <2>1, <1>2
        <3> QED  BY <3>2, <2>2 DEF later
    <2> QED  BY <2>3 DEF NextApart
<1>4. BookedBefore'
    <2> SUFFICES ASSUME NEW d \in Callers, Waiting(d)'
                 PROVE  /\ caller'[d].wait + Interval <= gap'
                        /\ since' + caller'[d].wait >= Interval
        BY DEF BookedBefore
    <2>1. /\ caller[d].wait + Interval <= gap
          /\ since + caller[d].wait >= Interval
          /\ caller'[d].wait = caller[d].wait
        BY <1>1 DEF BookedBefore
    <2> QED  BY <2>1, <1>2, CallerParts, Times
<1>5. BookedApart'
    BY <1>1 DEF BookedApart
<1> QED  BY <1>3, <1>4, <1>5

LEMMA BookSlots ==
    ASSUME Typed, SlotsApart, NEW c \in Callers, Book(c)
    PROVE  SlotsApart'
<1> SUFFICES ASSUME ~forgot PROVE NextApart' /\ BookedBefore' /\ BookedApart'
    BY DEF SlotsApart, Book, history
<1>1. NextApart /\ BookedBefore /\ BookedApart
    BY DEF SlotsApart, Book, history
<1>2. gap \in Nat /\ since \in Nat /\ since' = since /\ gap' = gap + Interval
    BY Times DEF Typed, Book, BookSlot, NextGap, history
<1>3. /\ caller'[c].wait = gap
      /\ \A d \in Callers : d # c => caller'[d] = caller[d]
    <2>1. Booked(c, "shared", gap)
        BY DEF Book
    <2>2. /\ caller'[c] = [caller[c] EXCEPT !.step = "booked", !.slot = "shared", !.wait = gap]
          /\ \A d \in Callers : d # c => caller'[d] = caller[d]
        BY <1>2, <2>1, BookedTypes
    <2> QED  BY <2>2, CallerParts DEF Caller
<1>4. \A d \in Callers : Waiting(d)' /\ d # c => Waiting(d)
    BY <1>3 DEF Waiting, At
<1>5. NextApart'
    <2>1. since + gap >= Interval /\ Interval \in Nat
        BY <1>1, Times DEF NextApart
    <2>2. since' + gap' >= Interval
        BY <1>2, <2>1
    <2> QED  BY <2>2 DEF NextApart
<1>6. ASSUME NEW d \in Callers, Waiting(d)', d # c
      PROVE  /\ caller'[d].wait = caller[d].wait /\ caller[d].wait \in Nat
             /\ caller[d].wait + Interval <= gap
             /\ since + caller[d].wait >= Interval
    BY <1>1, <1>3, <1>4, <1>6, CallerParts DEF BookedBefore
<1>7. BookedBefore'
    <2> SUFFICES ASSUME NEW d \in Callers, Waiting(d)'
                 PROVE  /\ caller'[d].wait + Interval <= gap'
                        /\ since' + caller'[d].wait >= Interval
        BY DEF BookedBefore
    <2>1. CASE d = c
        BY <2>1, <1>1, <1>2, <1>3, Times DEF NextApart
    <2>2. CASE d # c
        BY <2>2, <1>2, <1>6, Times
    <2> QED  BY <2>1, <2>2
<1>8. BookedApart'
    <2> SUFFICES ASSUME NEW d \in Callers, NEW e \in Callers, Waiting(d)', Waiting(e)', d # e
                 PROVE  \/ caller'[d].wait + Interval <= caller'[e].wait
                        \/ caller'[e].wait + Interval <= caller'[d].wait
        BY DEF BookedApart
    <2>1. CASE d = c
        BY <2>1, <1>3, <1>6
    <2>2. CASE e = c
        BY <2>2, <1>3, <1>6
    <2>3. CASE d # c /\ e # c
        BY <2>3, <1>1, <1>4, <1>6 DEF BookedApart
    <2> QED  BY <2>1, <2>2, <2>3
<1> QED  BY <1>5, <1>7, <1>8

LEMMA StartSlots ==
    ASSUME Typed, SlotsApart, NEW c \in Callers, Start(c)
    PROVE  SlotsApart'
<1> SUFFICES ASSUME ~forgot PROVE NextApart' /\ BookedBefore' /\ BookedApart'
    BY DEF SlotsApart, Start
<1>1. NextApart /\ BookedBefore /\ BookedApart
    BY DEF SlotsApart, Start
<1>2. gap \in Nat /\ since \in Nat /\ gap' = gap
    BY Times DEF Typed, Start, shared
<1>3. caller[c].wait = 0 /\ At(c, "booked") /\ ~Waiting(c)'
    BY CallerParts DEF Start, Waiting, At, Typed, Caller
<1>4. \A d \in Callers : d # c => caller'[d] = caller[d]
    BY DEF Start, Typed
<1>5. ASSUME NEW d \in Callers, Waiting(d)'
      PROVE  /\ d # c /\ Waiting(d) /\ caller'[d].wait = caller[d].wait /\ caller[d].wait \in Nat
             /\ caller[d].wait + Interval <= gap
             /\ since + caller[d].wait >= Interval
    BY <1>1, <1>3, <1>4, <1>5, CallerParts DEF BookedBefore, Waiting, At
<1>6. BookedApart'
    BY <1>1, <1>5 DEF BookedApart
<1>7. CASE caller[c].slot = "shared"
    <2>1. since' = 0 /\ Waiting(c)
        BY <1>3, <1>7 DEF Start, Waiting
    <2>2. Interval <= gap
        BY <1>1, <1>2, <1>3, <2>1, Times DEF BookedBefore
    <2>3. NextApart'
        BY <2>1, <2>2, <1>2, Times DEF NextApart
    <2>4. ASSUME NEW d \in Callers, Waiting(d)' PROVE Interval <= caller[d].wait
        <3>1. \/ caller[d].wait + Interval <= caller[c].wait
              \/ caller[c].wait + Interval <= caller[d].wait
            BY <1>1, <1>5, <2>1, <2>4 DEF BookedApart
        <3> QED  BY <3>1, <1>3, <1>5, <2>4, Times
    <2>5. BookedBefore'
        BY <2>1, <2>4, <1>2, <1>5, Times DEF BookedBefore
    <2> QED  BY <2>3, <2>5, <1>6
<1>8. CASE caller[c].slot # "shared"
    <2>1. since' = since
        BY <1>8 DEF Start
    <2>2. BookedBefore'
        BY <2>1, <1>2, <1>5 DEF BookedBefore
    <2> QED  BY <2>1, <2>2, <1>1, <1>2, <1>6 DEF NextApart
<1> QED  BY <1>7, <1>8

LEMMA TickSlots ==
    ASSUME Typed, SlotsApart, Tick
    PROVE  SlotsApart'
<1> SUFFICES ASSUME ~forgot' PROVE NextApart' /\ BookedBefore' /\ BookedApart'
    BY DEF SlotsApart
<1>1. ~forgot /\ ~(life' = 0 /\ Less(gap) > 0)
    BY DEF Tick, Typed
<1>2. NextApart /\ BookedBefore /\ BookedApart
    BY <1>1 DEF SlotsApart
<1>3. gap' = Less(gap)
    <2>1. gap' = IF life' = 0 THEN 0 ELSE Less(gap)
        BY DEF Tick
    <2> QED  BY <2>1, <1>1, LessNat DEF Typed
<1>4. since' = IF since < Interval THEN since + 1 ELSE since
    BY DEF Tick
<1>5. since \in 0 .. Interval /\ gap \in Nat
    BY DEF Typed
<1>6. NextApart'
    BY <1>2, <1>3, <1>4, <1>5, Times DEF NextApart, Less
<1>7. ASSUME NEW d \in Callers, Waiting(d)'
      PROVE  /\ Waiting(d) /\ caller[d].wait \in Nat /\ caller[d].wait > 0
             /\ caller'[d].wait = caller[d].wait - 1
    <2>1. /\ caller'[d].step = caller[d].step /\ caller'[d].slot = caller[d].slot
          /\ caller'[d].wait = Less(caller[d].wait)
        BY CallerParts DEF Tick, Caller
    <2>2. Waiting(d)
        BY <1>7, <2>1 DEF Waiting, At
    <2>3. caller[d].wait # 0
        BY <2>2 DEF Tick, Due, Waiting
    <2> QED  BY <2>1, <2>2, <2>3, CallerParts DEF Less
<1>8. BookedBefore'
    <2> SUFFICES ASSUME NEW d \in Callers, Waiting(d)'
                 PROVE  /\ caller'[d].wait + Interval <= gap'
                        /\ since' + caller'[d].wait >= Interval
        BY DEF BookedBefore
    <2>1. /\ caller[d].wait + Interval <= gap
          /\ since + caller[d].wait >= Interval
        BY <1>2, <1>7 DEF BookedBefore
    <2> QED  BY <2>1, <1>3, <1>4, <1>5, <1>7, Times DEF Less
<1>9. BookedApart'
    <2> SUFFICES ASSUME NEW d \in Callers, NEW e \in Callers, Waiting(d)', Waiting(e)', d # e
                 PROVE  \/ caller'[d].wait + Interval <= caller'[e].wait
                        \/ caller'[e].wait + Interval <= caller'[d].wait
        BY DEF BookedApart
    <2>1. \/ caller[d].wait + Interval <= caller[e].wait
          \/ caller[e].wait + Interval <= caller[d].wait
        BY <1>2, <1>7 DEF BookedApart
    <2> QED  BY <2>1, <1>7, Times
<1> QED  BY <1>6, <1>8, <1>9

LEMMA SlotsStep == Typed /\ SlotsApart /\ [Next]_vars => SlotsApart'
<1> SUFFICES ASSUME Typed, SlotsApart, [Next]_vars PROVE SlotsApart'
    OBVIOUS
<1>1. Typed'
    BY TypedStep
<1>2. gap \in Nat
    BY DEF Typed
<1>3. ASSUME NEW c \in Callers, Book(c) \/ Start(c) PROVE SlotsApart'
    BY <1>3, BookSlots, StartSlots
<1>4. ASSUME NEW c \in Callers, Ask(c) \/ Call(c), ~Book(c), ~Start(c) PROVE SlotsApart'
    <2>1. forgot' = forgot /\ since' = since
        <3>1. CASE Skips(c) \/ Refused(c)
            BY <3>1, Leaving DEF Leave
        <3>2. CASE Ask(c) \/ TakePlace(c) \/ LosePlace(c) \/ WithoutRedis(c) \/ TakeLocalPlace(c)
            BY <3>2 DEF Ask, TakePlace, LosePlace, WithoutRedis, TakeLocalPlace, history
        <3>3. CASE LoseSlot(c) \/ BookLocally(c) \/ Defer(c)
            BY <3>3 DEF LoseSlot, BookLocally, Defer, history
        <3> QED  BY <1>4, <3>1, <3>2, <3>3 DEF Call, Skips
    <2>2. gap' >= gap
        <3>1. CASE Skips(c) \/ Refused(c)
            BY <3>1, <1>2, Leaving DEF Leave
        <3>2. CASE Ask(c) \/ TakePlace(c) \/ LosePlace(c) \/ WithoutRedis(c) \/ TakeLocalPlace(c)
            BY <3>2, <1>2 DEF Ask, TakePlace, LosePlace, WithoutRedis, TakeLocalPlace, shared
        <3>3. CASE LoseSlot(c) \/ BookLocally(c)
            BY <3>3, <1>2, Times DEF LoseSlot, BookLocally, BookSlot, NextGap, shared
        <3>4. CASE Defer(c)
            BY <3>4, <1>2, Times DEF Defer, Push, Deferred
        <3> QED  BY <1>4, <3>1, <3>2, <3>3, <3>4 DEF Call, Skips
    <2>3. ~Waiting(c)'
        <3>1. CASE Skips(c) \/ Refused(c)
            BY <3>1, Leaving DEF Leave, Waiting, At, Typed
        <3>2. CASE Ask(c) \/ LosePlace(c) \/ WithoutRedis(c)
            BY <3>2, CallerParts DEF Ask, LosePlace, WithoutRedis, Waiting, At, Caller, Typed
        <3>3. CASE TakePlace(c) \/ TakeLocalPlace(c)
            BY <3>3, Taking DEF Waiting, At
        <3>4. CASE LoseSlot(c) \/ BookLocally(c)
            BY <3>4, LocalSlotTypes, CallerParts DEF LoseSlot, BookLocally, Waiting, At, Caller
        <3>5. CASE Defer(c)
            BY <3>5, RestingCaller DEF Defer, Waiting, At, Typed
        <3> QED  BY <1>4, <3>1, <3>2, <3>3, <3>4, <3>5 DEF Call, Skips
    <2>4. \A d \in Callers : d # c => caller'[d] = caller[d]
        BY <1>4, OthersUnmoved
    <2>5. \A d \in Callers : Waiting(d)' => Waiting(d) /\ caller'[d].wait = caller[d].wait
        BY <2>3, <2>4 DEF Waiting, At
    <2> QED  BY <1>1, <2>1, <2>2, <2>5, SlotsKept
<1>5. ASSUME NEW p \in Processes, Die(p) PROVE SlotsApart'
    <2>1. \A d \in Callers : Waiting(d)' => Waiting(d) /\ caller'[d].wait = caller[d].wait
        BY <1>5, RestingCaller DEF Die, Waiting, At
    <2> QED  BY <1>1, <1>2, <1>5, <2>1, SlotsKept DEF Die, shared, history
<1>6. CASE Tick
    BY <1>6, TickSlots
<1>7. CASE UNCHANGED vars
    BY <1>1, <1>2, <1>7, SlotsKept DEF vars, shared, history, Waiting, At
<1> QED  BY <1>3, <1>4, <1>5, <1>6, <1>7 DEF Next, Call

-----------------------------------------------------------------------------
LEMMA GateStep == GateInv /\ [Next]_vars => GateInv'
BY TypedStep, LocalsStep, HoldInsideStep, TokensLastStep, TokensFitStep, SlotsStep DEF GateInv

(* The gate's places and slots stay as described above.                    *)
THEOREM GateInvariant == Spec => []GateInv
<1>1. Init => GateInv
    BY InitGate
<1>2. GateInv /\ [Next]_vars => GateInv'
    BY GateStep
<1> QED  BY <1>1, <1>2, PTL DEF Spec

(* The gate's state has its type; each process's semaphore counts its      *)
(* callers with a local place (acquire_place, release_place).              *)
THEOREM GateTypes == Spec => []TypeOK
<1>1. GateInv => TypeOK
    BY FiniteLocals DEF GateInv, Typed, TypeOK, LocalsCounted
<1> QED  BY <1>1, GateInvariant, PTL

(* Of the callers that took a place of Redis less than its hold time ago   *)
(* and are not done, there are never more than places, for any number of   *)
(* processes, callers and failures of Redis.                               *)
THEOREM PlacesAreKept == Spec => []PlacesKept
<1>1. GateInv => PlacesKept
    <2> SUFFICES ASSUME GateInv PROVE PlacesKept
        OBVIOUS
    <2>1. Holders \in SUBSET Taken
        <3> SUFFICES ASSUME NEW c \in Callers, caller[c].kind = "shared", caller[c].held > 0
                     PROVE  place[c] > 0
            BY DEF Holders, Taken
        <3>1. caller[c].held <= place[c]
            BY DEF GateInv, TokensLast
        <3>2. caller[c].held \in Nat /\ place[c] \in Nat
            BY CallerParts, Times DEF GateInv, Typed
        <3> QED  BY <3>1, <3>2
    <2>2. Cardinality(Holders) <= Cardinality(Taken) /\ Cardinality(Holders) \in Nat
        BY <2>1, FiniteTaken, FS_Subset, FS_CardinalityType
    <2> QED  BY <2>2, FiniteTaken, Times DEF GateInv, TokensFit, PlacesKept
<1> QED  BY <1>1, GateInvariant, PTL

(* Two requests that start in shared slots start an interval apart unless  *)
(* the key expired before the slot it named, for any interval, any holds   *)
(* after refusals and any deaths and faults between.                       *)
THEOREM StartsStayApart == Spec => StartsApart
<1>1. GateInv /\ [Next]_vars =>
        [\A c \in Callers : Start(c) /\ caller[c].slot = "shared" /\ ~forgot
                            => since >= Interval]_vars
    <2> SUFFICES ASSUME GateInv, NEW c \in Callers, Start(c), caller[c].slot = "shared", ~forgot
                 PROVE  since >= Interval
        OBVIOUS
    <2>1. caller[c].wait = 0 /\ Waiting(c)
        BY DEF Start, Waiting
    <2>2. since + caller[c].wait >= Interval
        BY <2>1 DEF GateInv, SlotsApart, BookedBefore
    <2>3. since \in Nat
        BY Times DEF GateInv, Typed
    <2> QED  BY <2>1, <2>2, <2>3, Times
<1> QED  BY <1>1, GateInvariant, PTL DEF Spec, StartsApart

=============================================================================
