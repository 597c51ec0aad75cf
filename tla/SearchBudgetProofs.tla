-------------------------- MODULE SearchBudgetProofs --------------------------
(* Proofs about SearchBudget, for every value of its constants. *)
EXTENDS SearchBudget, FiniteSetTheorems, TLAPS

-----------------------------------------------------------------------------
(* The inductive invariant: what a thread holds is counted under every key *)
(* it will give back, beside what was sent.                                *)

Holding(k) == {t \in Threads : k \in thread[t].held}

HeldAtGate == \A t \in Threads :
    /\ thread[t].held # {} => thread[t].step = "gate"
    /\ \A k \in thread[t].held : Limit[k] > 0

DaysCounted == \A k \in Keys : Limit[k] > 0 =>
    madeOn[k] + Cardinality(Holding(k)) <= count[k] /\ count[k] <= Limit[k]

RunsCapped == \A r \in Runs : calls[r] <= HardCap

CountInv == TypeOK /\ CountsExact /\ HeldAtGate /\ DaysCounted /\ RunsCapped

-----------------------------------------------------------------------------
LEMMA Bounds == HardCap \in Nat /\ Ceiling <= HardCap /\ \A k \in Keys : Limit[k] \in Nat
BY LimitAssumption DEF HardCap, Limit

LEMMA FinitePending == \A r \in Runs : IsFiniteSet(Pending(r)) /\ Cardinality(Pending(r)) \in Nat
<1> SUFFICES ASSUME NEW r \in Runs
             PROVE  IsFiniteSet(Pending(r)) /\ Cardinality(Pending(r)) \in Nat
    OBVIOUS
<1>1. Pending(r) \subseteq Threads
    BY DEF Pending
<1> QED  BY <1>1, ThreadAssumption, FS_Subset, FS_CardinalityType

LEMMA FiniteHolding == \A k \in Keys : IsFiniteSet(Holding(k)) /\ Cardinality(Holding(k)) \in Nat
<1> SUFFICES ASSUME NEW k \in Keys
             PROVE  IsFiniteSet(Holding(k)) /\ Cardinality(Holding(k)) \in Nat
    OBVIOUS
<1>1. Holding(k) \subseteq Threads
    BY DEF Holding
<1> QED  BY <1>1, ThreadAssumption, FS_Subset, FS_CardinalityType

LEMMA InitCount == Init => CountInv
<1> SUFFICES ASSUME Init PROVE CountInv
    OBVIOUS
<1>1. Fresh(0) \in Thread
    BY BoundAssumption DEF Fresh, Thread, Incidents
<1>2. TypeOK
    BY <1>1, BoundAssumption DEF Init, TypeOK, Days, Incidents
<1>3. \A r \in Runs : Pending(r) = {}
    BY DEF Init, Pending, Fresh
<1>4. \A k \in Keys : Holding(k) = {}
    BY DEF Init, Holding, Fresh
<1>5. CountsExact
    BY <1>3, FS_EmptySet, LimitAssumption DEF Init, CountsExact
<1>6. HeldAtGate
    BY DEF Init, HeldAtGate, Fresh
<1>7. DaysCounted
    <2> SUFFICES ASSUME NEW k \in Keys
                 PROVE  madeOn[k] + Cardinality(Holding(k)) <= count[k] /\ count[k] <= Limit[k]
        BY DEF DaysCounted
    <2>1. Cardinality(Holding(k)) = 0
        BY <1>4, FS_EmptySet
    <2>2. count[k] = 0 /\ madeOn[k] = 0 /\ Limit[k] \in Nat
        BY Bounds DEF Init
    <2> QED  BY <2>1, <2>2
<1>8. RunsCapped
    BY Bounds DEF Init, RunsCapped
<1> QED  BY <1>2, <1>5, <1>6, <1>7, <1>8 DEF CountInv

-----------------------------------------------------------------------------
(* What one thread's step does to the two sets that are counted.           *)

LEMMA PendingJoins ==
    ASSUME CountInv, NEW t \in Threads, ~At(t, "counted"), ~At(t, "gate"),
           thread' \in [Threads -> Thread], thread'[t].step \in {"counted", "gate"},
           \A u \in Threads \ {t} : thread'[u] = thread[u]
    PROVE  \A r \in Runs : Cardinality(Pending(r))' =
              IF r = RunOf[t] THEN Cardinality(Pending(r)) + 1 ELSE Cardinality(Pending(r))
<1> SUFFICES ASSUME NEW r \in Runs
             PROVE  Cardinality(Pending(r)') =
                    IF r = RunOf[t] THEN Cardinality(Pending(r)) + 1 ELSE Cardinality(Pending(r))
    OBVIOUS
<1>1. Pending(r)' = IF r = RunOf[t] THEN Pending(r) \cup {t} ELSE Pending(r)
    BY DEF Pending, At
<1>2. t \notin Pending(r)
    BY DEF Pending, At
<1> QED  BY <1>1, <1>2, FinitePending, FS_AddElement

LEMMA PendingLeaves ==
    ASSUME CountInv, NEW t \in Threads, At(t, "counted") \/ At(t, "gate"),
           thread' \in [Threads -> Thread], thread'[t].step \notin {"counted", "gate"},
           \A u \in Threads \ {t} : thread'[u] = thread[u]
    PROVE  /\ \A r \in Runs : Cardinality(Pending(r))' =
                 IF r = RunOf[t] THEN Cardinality(Pending(r)) - 1 ELSE Cardinality(Pending(r))
           /\ Cardinality(Pending(RunOf[t])) >= 1
<1>1. RunOf[t] \in Runs
    BY ThreadAssumption
<1>2. \A r \in Runs : Pending(r)' = IF r = RunOf[t] THEN Pending(r) \ {t} ELSE Pending(r)
    BY DEF Pending, At
<1>3. t \in Pending(RunOf[t])
    BY DEF Pending, At
<1>4. Cardinality(Pending(RunOf[t]) \ {t}) = Cardinality(Pending(RunOf[t])) - 1
    BY <1>1, <1>3, FinitePending, FS_RemoveElement
<1>5. Cardinality(Pending(RunOf[t]) \ {t}) \in Nat
    BY <1>1, FinitePending, FS_RemoveElement, FS_CardinalityType
<1>6. ASSUME NEW r \in Runs
      PROVE  Cardinality(Pending(r)') =
             IF r = RunOf[t] THEN Cardinality(Pending(r)) - 1 ELSE Cardinality(Pending(r))
    BY <1>2, <1>4
<1>7. Cardinality(Pending(RunOf[t])) >= 1
    BY <1>1, <1>4, <1>5, FinitePending
<1> QED  BY <1>6, <1>7

LEMMA PendingStays ==
    ASSUME CountInv, NEW t \in Threads, thread' \in [Threads -> Thread],
           (thread'[t].step \in {"counted", "gate"}) <=> (thread[t].step \in {"counted", "gate"}),
           \A u \in Threads \ {t} : thread'[u] = thread[u]
    PROVE  \A r \in Runs : Cardinality(Pending(r))' = Cardinality(Pending(r))
<1>1. \A r \in Runs : Pending(r)' = Pending(r)
    BY DEF Pending
<1> QED  BY <1>1

LEMMA HoldingLeaves ==
    ASSUME CountInv, NEW t \in Threads,
           thread' \in [Threads -> Thread], thread'[t].held = {},
           \A u \in Threads \ {t} : thread'[u] = thread[u]
    PROVE  /\ \A k \in Keys : Cardinality(Holding(k))' =
                 IF k \in thread[t].held THEN Cardinality(Holding(k)) - 1
                                         ELSE Cardinality(Holding(k))
           /\ \A k \in thread[t].held : k \in Keys /\ Cardinality(Holding(k)) >= 1
<1>1. thread[t].held \subseteq Keys
    BY DEF CountInv, TypeOK, Thread
<1>2. \A k \in Keys : Holding(k)' = Holding(k) \ {t}
    BY DEF Holding
<1>3. \A k \in Keys : k \in thread[t].held <=> t \in Holding(k)
    BY DEF Holding
<1>4. \A k \in Keys : t \in Holding(k) =>
         Cardinality(Holding(k) \ {t}) = Cardinality(Holding(k)) - 1
    BY FiniteHolding, FS_RemoveElement
<1>5. \A k \in Keys : t \notin Holding(k) => Holding(k) \ {t} = Holding(k)
    OBVIOUS
<1>6. \A k \in Keys : Cardinality(Holding(k) \ {t}) \in Nat
    BY FiniteHolding, FS_RemoveElement, FS_CardinalityType
<1>7. ASSUME NEW k \in Keys
      PROVE  Cardinality(Holding(k)') =
             IF k \in thread[t].held THEN Cardinality(Holding(k)) - 1
                                     ELSE Cardinality(Holding(k))
    <2>1. CASE k \in thread[t].held
        BY <2>1, <1>2, <1>3, <1>4
    <2>2. CASE k \notin thread[t].held
        BY <2>2, <1>2, <1>3, <1>5
    <2> QED  BY <2>1, <2>2
<1>8. ASSUME NEW k \in thread[t].held PROVE k \in Keys /\ Cardinality(Holding(k)) >= 1
    <2>1. k \in Keys /\ t \in Holding(k)
        BY <1>1, <1>3
    <2>2. Cardinality(Holding(k)) \in Nat /\ Cardinality(Holding(k)) - 1 \in Nat
        BY <2>1, <1>4, <1>6, FiniteHolding
    <2> QED  BY <2>1, <2>2
<1> QED  BY <1>7, <1>8

LEMMA HoldingStays ==
    ASSUME CountInv, NEW t \in Threads, thread' \in [Threads -> Thread],
           thread'[t].held = thread[t].held,
           \A u \in Threads \ {t} : thread'[u] = thread[u]
    PROVE  \A k \in Keys : Cardinality(Holding(k))' = Cardinality(Holding(k))
<1>1. \A k \in Keys : Holding(k)' = Holding(k)
    BY DEF Holding
<1> QED  BY <1>1

-----------------------------------------------------------------------------
(* Steps that move a thread without counting anything.                     *)

LEMMA QuietKeeps ==
    ASSUME CountInv, TypeOK', NEW t \in Threads,
           (thread'[t].step \in {"counted", "gate"}) <=> (thread[t].step \in {"counted", "gate"}),
           thread'[t].held = thread[t].held,
           thread[t].step = "gate" => thread'[t].step = "gate",
           \A u \in Threads \ {t} : thread'[u] = thread[u],
           UNCHANGED <<metrics, count, made>>
    PROVE  CountInv'
<1>1. thread' \in [Threads -> Thread]
    BY DEF TypeOK
<1>2. \A r \in Runs : Cardinality(Pending(r))' = Cardinality(Pending(r))
    BY <1>1, PendingStays
<1>3. \A k \in Keys : Cardinality(Holding(k))' = Cardinality(Holding(k))
    BY <1>1, HoldingStays
<1>4. CountsExact'
    BY <1>2 DEF CountInv, CountsExact, metrics, made
<1>5. HeldAtGate'
    BY DEF CountInv, HeldAtGate
<1>6. DaysCounted'
    BY <1>3 DEF CountInv, DaysCounted, made
<1>7. RunsCapped'
    BY DEF CountInv, RunsCapped, metrics
<1> QED  BY <1>4, <1>5, <1>6, <1>7 DEF CountInv

LEMMA QuietSteps ==
    ASSUME CountInv, NEW t \in Threads,
           \/ BeginReference(t) \/ RefuseCall(t) \/ Failed(t) \/ Worked(t) \/ CloseIncident(t)
    PROVE  CountInv'
<1> USE DEF CountInv
<1>1. thread[t] \in Thread /\ thread \in [Threads -> Thread]
    BY DEF TypeOK
<1>2. CASE BeginReference(t)
    <2>1. thread[t].held = {}
        BY <1>2 DEF HeldAtGate, BeginReference, At
    <2>2. TypeOK'
        <3>1. Fresh(thread[t].started + 1) \in Thread
            <4>1. thread[t].started + 1 \in 0 .. MaxReferences
                BY <1>1, <1>2, BoundAssumption DEF BeginReference, Thread
            <4> QED  BY <4>1 DEF Fresh, Thread, Incidents
        <3> QED  BY <3>1, <1>1, <1>2
                 DEF BeginReference, TypeOK, metrics, health, made
    <2>3. thread'[t].held = {} /\ thread'[t].step = "idle" /\ thread[t].step = "idle"
        BY <1>1, <1>2 DEF BeginReference, Fresh, At
    <2>4. \A u \in Threads \ {t} : thread'[u] = thread[u]
        BY <1>1, <1>2 DEF BeginReference
    <2> QED  BY <2>1, <2>2, <2>3, <2>4, <1>2, QuietKeeps DEF BeginReference
<1>3. CASE RefuseCall(t)
    <2>1. TypeOK'
        BY <1>1, <1>3 DEF RefuseCall, TypeOK, Thread, metrics, health, made
    <2>2. /\ thread'[t].held = thread[t].held /\ thread'[t].step = thread[t].step
          /\ \A u \in Threads \ {t} : thread'[u] = thread[u]
        BY <1>1, <1>3 DEF RefuseCall, Thread
    <2> QED  BY <2>1, <2>2, <1>3, QuietKeeps DEF RefuseCall
<1>4. CASE Failed(t)
    <2>1. TypeOK'
        BY <1>1, <1>4 DEF Failed, Go, TypeOK, Thread, Incidents, metrics, made
    <2>2. /\ thread'[t].held = thread[t].held /\ thread'[t].step = "idle"
          /\ thread[t].step = "asked"
          /\ \A u \in Threads \ {t} : thread'[u] = thread[u]
        BY <1>1, <1>4 DEF Failed, Go, At, Thread
    <2> QED  BY <2>1, <2>2, <1>4, QuietKeeps DEF Failed
<1>5. CASE Worked(t)
    <2>1. TypeOK'
        <3>1. thread' \in [Threads -> Thread]
            BY <1>1, <1>5 DEF Worked, Go, TypeOK, Thread, Incidents
        <3> QED  BY <3>1, <1>5 DEF Worked, TypeOK, metrics, health, made
    <2>2. /\ thread'[t].held = thread[t].held /\ thread'[t].step \in {"idle", "read"}
          /\ thread[t].step = "asked"
          /\ \A u \in Threads \ {t} : thread'[u] = thread[u]
        BY <1>1, <1>5 DEF Worked, Go, At, Thread
    <2> QED  BY <2>1, <2>2, <1>5, QuietKeeps DEF Worked
<1>6. CASE CloseIncident(t)
    <2>1. TypeOK'
        <3>1. thread' \in [Threads -> Thread]
            BY <1>1, <1>6 DEF CloseIncident, Thread, Incidents
        <3>2. recoveries' \in Nat /\ incident' \in Incidents
            BY <1>6 DEF CloseIncident, TypeOK, Incidents
        <3> QED  BY <3>1, <3>2, <1>6 DEF CloseIncident, TypeOK, metrics, made
    <2>2. /\ thread'[t].held = thread[t].held /\ thread'[t].step = "idle"
          /\ thread[t].step = "read"
          /\ \A u \in Threads \ {t} : thread'[u] = thread[u]
        BY <1>1, <1>6 DEF CloseIncident, At, Thread
    <2> QED  BY <2>1, <2>2, <1>6, QuietKeeps DEF CloseIncident
<1> QED  BY <1>2, <1>3, <1>4, <1>5, <1>6

-----------------------------------------------------------------------------
(* Steps that count, send or give back.                                    *)

LEMMA ReserveCallKeeps ==
    ASSUME CountInv, NEW t \in Threads, ReserveCall(t) PROVE CountInv'
<1> USE DEF CountInv
<1>1. thread[t] \in Thread /\ thread \in [Threads -> Thread] /\ RunOf[t] \in Runs
    BY ThreadAssumption DEF TypeOK
<1>2. /\ thread'[t].held = thread[t].held /\ thread'[t].step = "counted"
      /\ thread[t].step = "idle"
      /\ \A u \in Threads \ {t} : thread'[u] = thread[u]
    BY <1>1 DEF ReserveCall, At, Thread
<1>3. TypeOK'
    <2>1. thread' \in [Threads -> Thread]
        BY <1>1 DEF ReserveCall, Thread
    <2>2. calls' \in [Runs -> Nat] /\ floorCalls' \in [Runs -> Nat]
        BY <1>1, LimitAssumption DEF ReserveCall, TypeOK
    <2> QED  BY <2>1, <2>2 DEF ReserveCall, TypeOK, health, made
<1>4. \A r \in Runs : Cardinality(Pending(r))' =
         IF r = RunOf[t] THEN Cardinality(Pending(r)) + 1 ELSE Cardinality(Pending(r))
    BY <1>2, <1>3, PendingJoins DEF TypeOK, At
<1>5. \A k \in Keys : Cardinality(Holding(k))' = Cardinality(Holding(k))
    BY <1>2, <1>3, HoldingStays DEF TypeOK
<1>6. CountsExact'
    <2> SUFFICES ASSUME NEW r \in Runs
                 PROVE  /\ calls'[r] = madeInRun'[r] + Cardinality(Pending(r))'
                        /\ floorCalls'[r] = IF calls'[r] > Ceiling THEN calls'[r] - Ceiling ELSE 0
        BY DEF CountsExact
    <2>1. /\ calls[r] = madeInRun[r] + Cardinality(Pending(r))
          /\ floorCalls[r] = IF calls[r] > Ceiling THEN calls[r] - Ceiling ELSE 0
          /\ calls[r] \in Nat /\ madeInRun[r] \in Nat /\ Ceiling \in Nat
          /\ Cardinality(Pending(r)) \in Nat
        BY FinitePending, LimitAssumption DEF CountsExact, TypeOK
    <2>2. /\ madeInRun' = madeInRun
          /\ calls'[r] = IF r = RunOf[t] THEN calls[r] + 1 ELSE calls[r]
          /\ floorCalls'[r] = IF r = RunOf[t] /\ calls[r] >= Ceiling
                              THEN floorCalls[r] + 1 ELSE floorCalls[r]
        BY <1>1 DEF ReserveCall, TypeOK, made
    <2> QED  BY <2>1, <2>2, <1>4
<1>7. HeldAtGate'
    BY <1>2 DEF HeldAtGate
<1>8. DaysCounted'
    BY <1>5 DEF DaysCounted, ReserveCall, made
<1>9. RunsCapped'
    <2>1. calls[RunOf[t]] < HardCap
        BY <1>1, Bounds, LimitAssumption DEF ReserveCall, Permitted, TypeOK
    <2> QED  BY <2>1, <1>1, Bounds DEF ReserveCall, RunsCapped, TypeOK
<1> QED  BY <1>3, <1>6, <1>7, <1>8, <1>9

(* Giving a call back, whatever becomes of the day's counters: they must   *)
(* still cover what was sent and what the other threads hold.              *)
LEMMA GiveBackKeeps ==
    ASSUME CountInv, NEW t \in Threads, At(t, "counted") \/ At(t, "gate"), GiveBack(t),
           UNCHANGED <<today, health, made>>, faults' \in 0 .. MaxFaults,
           count' \in [Keys -> Nat],
           \A k \in Keys : Limit[k] > 0 => count'[k] <= Limit[k],
           \A k \in Keys : Limit[k] > 0 =>
              count'[k] >= (IF k \in thread[t].held THEN count[k] - 1 ELSE count[k])
    PROVE  CountInv'
<1> USE DEF CountInv
<1>1. thread[t] \in Thread /\ thread \in [Threads -> Thread] /\ RunOf[t] \in Runs
    BY ThreadAssumption DEF TypeOK
<1>2. /\ thread'[t].held = {} /\ thread'[t].step = "idle"
      /\ thread' \in [Threads -> Thread]
      /\ \A u \in Threads \ {t} : thread'[u] = thread[u]
    BY <1>1 DEF GiveBack, Thread
<1>3. /\ \A r \in Runs : Cardinality(Pending(r))' =
            IF r = RunOf[t] THEN Cardinality(Pending(r)) - 1 ELSE Cardinality(Pending(r))
      /\ Cardinality(Pending(RunOf[t])) >= 1
    BY <1>2, PendingLeaves
<1>4. \A k \in Keys : Cardinality(Holding(k))' =
         IF k \in thread[t].held THEN Cardinality(Holding(k)) - 1 ELSE Cardinality(Holding(k))
    BY <1>2, HoldingLeaves
<1>5. ASSUME NEW r \in Runs
      PROVE  /\ calls'[r] \in Nat /\ floorCalls'[r] \in Nat /\ calls'[r] <= calls[r]
             /\ calls'[r] = madeInRun'[r] + Cardinality(Pending(r))'
             /\ floorCalls'[r] = IF calls'[r] > Ceiling THEN calls'[r] - Ceiling ELSE 0
    <2>1. /\ calls[r] = madeInRun[r] + Cardinality(Pending(r))
          /\ floorCalls[r] = IF calls[r] > Ceiling THEN calls[r] - Ceiling ELSE 0
          /\ calls[r] \in Nat /\ madeInRun[r] \in Nat /\ Ceiling \in Nat
          /\ Cardinality(Pending(r)) \in Nat
        BY FinitePending, LimitAssumption DEF CountsExact, TypeOK
    <2>2. /\ madeInRun' = madeInRun
          /\ calls'[r] = IF r = RunOf[t] THEN calls[r] - 1 ELSE calls[r]
          /\ floorCalls'[r] = IF r = RunOf[t] /\ calls[r] - 1 >= Ceiling
                              THEN floorCalls[r] - 1 ELSE floorCalls[r]
        BY <1>1 DEF GiveBack, TypeOK, made
    <2> QED  BY <2>1, <2>2, <1>3
<1>6. TypeOK'
    <2>1. calls' \in [Runs -> Nat] /\ floorCalls' \in [Runs -> Nat]
        BY <1>5 DEF GiveBack, TypeOK
    <2> QED  BY <2>1, <1>2 DEF TypeOK, health, made
<1>7. CountsExact'
    BY <1>5 DEF CountsExact
<1>8. HeldAtGate'
    BY <1>2 DEF HeldAtGate
<1>9. DaysCounted'
    <2> SUFFICES ASSUME NEW k \in Keys, Limit[k] > 0
                 PROVE  /\ madeOn'[k] + Cardinality(Holding(k))' <= count'[k]
                        /\ count'[k] <= Limit[k]
        BY DEF DaysCounted
    <2>1. /\ madeOn[k] + Cardinality(Holding(k)) <= count[k]
          /\ madeOn[k] \in Nat /\ count[k] \in Nat /\ count'[k] \in Nat
          /\ Cardinality(Holding(k)) \in Nat /\ madeOn' = madeOn
        BY FiniteHolding DEF DaysCounted, TypeOK, made
    <2> QED  BY <2>1, <1>4
<1>10. RunsCapped'
    <2> SUFFICES ASSUME NEW r \in Runs PROVE calls'[r] <= HardCap
        BY DEF RunsCapped
    <2>1. calls[r] <= HardCap /\ calls[r] \in Nat
        BY DEF RunsCapped, TypeOK
    <2> QED  BY <2>1, <1>5, Bounds
<1> QED  BY <1>6, <1>7, <1>8, <1>9, <1>10

LEMMA GivingBackKeeps ==
    ASSUME CountInv, NEW t \in Threads, RefuseDay(t) \/ LoseDay(t) \/ Busy(t)
    PROVE  CountInv'
<1> USE DEF CountInv
<1>1. thread[t] \in Thread /\ thread \in [Threads -> Thread]
    BY DEF TypeOK
<1>2. KeysOf(t) \subseteq Keys /\ \A k \in KeysOf(t) : Limit[k] > 0
    BY DEF KeysOf
<1>3. thread[t].held \subseteq Keys /\ \A k \in thread[t].held : count[k] >= 1
    <2>1. thread[t].held \subseteq Keys
        BY <1>1 DEF Thread
    <2> SUFFICES ASSUME NEW k \in thread[t].held PROVE count[k] >= 1
        BY <2>1
    <2>2. t \in Holding(k) /\ k \in Keys
        BY <2>1 DEF Holding
    <2>3. Cardinality(Holding(k)) # 0
        BY <2>2, FiniteHolding, FS_EmptySet
    <2>4. /\ madeOn[k] + Cardinality(Holding(k)) <= count[k]
          /\ madeOn[k] \in Nat /\ count[k] \in Nat /\ Cardinality(Holding(k)) \in Nat
        BY <2>2, FiniteHolding DEF HeldAtGate, DaysCounted, TypeOK
    <2> QED  BY <2>3, <2>4
<1>4. thread[t].step = "counted" => thread[t].held = {}
    BY DEF HeldAtGate
<1>5. CASE RefuseDay(t)
    <2>1. count' = count /\ faults' = faults
        BY <1>5 DEF RefuseDay
    <2>2. /\ count' \in [Keys -> Nat] /\ faults' \in 0 .. MaxFaults
          /\ \A k \in Keys : Limit[k] > 0 => count'[k] <= Limit[k]
        BY <2>1 DEF TypeOK, DaysCounted
    <2>3. thread[t].held = {}
        BY <1>4, <1>5 DEF RefuseDay, At
    <2>4. \A k \in Keys : count'[k] >= (IF k \in thread[t].held THEN count[k] - 1 ELSE count[k])
        BY <2>1, <2>3 DEF TypeOK
    <2> QED  BY <2>2, <2>4, <1>5, GiveBackKeeps DEF RefuseDay
<1>6. CASE LoseDay(t)
    <2>1. faults' \in 0 .. MaxFaults
        BY <1>6, BoundAssumption DEF LoseDay, Fault, TypeOK
    <2>2. \A k \in Keys : /\ count'[k] \in Nat /\ count'[k] >= count[k]
                          /\ Limit[k] > 0 => count'[k] <= Limit[k]
        <3>1. CASE UNCHANGED count
            BY <3>1 DEF TypeOK, DaysCounted
        <3>2. CASE InBudget(t) /\ CountDay(KeysOf(t))
            BY <3>2, <1>2, Bounds DEF InBudget, CountDay, TypeOK, DaysCounted
        <3> QED  BY <3>1, <3>2, <1>6 DEF LoseDay
    <2>3. count' \in [Keys -> Nat]
        BY <2>2, <1>6 DEF LoseDay, CountDay, TypeOK
    <2>4. thread[t].held = {}
        BY <1>4, <1>6 DEF LoseDay, At
    <2>5. \A k \in Keys : count'[k] >= (IF k \in thread[t].held THEN count[k] - 1 ELSE count[k])
        BY <2>2, <2>4
    <2> QED  BY <2>1, <2>2, <2>3, <2>5, <1>6, GiveBackKeeps DEF LoseDay
<1>7. CASE Busy(t)
    <2>1. faults' \in 0 .. MaxFaults
        BY <1>7, BoundAssumption DEF Busy, Fault, TypeOK
    <2>2. count' \in [Keys -> Nat] /\ \A k \in Keys :
             /\ count'[k] >= (IF k \in thread[t].held THEN count[k] - 1 ELSE count[k])
             /\ Limit[k] > 0 => count'[k] <= Limit[k]
        <3>1. CASE UNCHANGED count
            BY <3>1 DEF TypeOK, DaysCounted
        <3>2. CASE Release(t)
            <4>1. \A k \in Keys : /\ count[k] \in Nat /\ Limit[k] \in Nat
                                  /\ Limit[k] > 0 => count[k] <= Limit[k]
                BY Bounds DEF TypeOK, DaysCounted
            <4>2. \A k \in Keys :
                     count'[k] = IF k \in thread[t].held THEN count[k] - 1 ELSE count[k]
                BY <3>2 DEF Release, DropDay
            <4>3. \A k \in Keys : count'[k] \in Nat
                BY <4>1, <4>2, <1>3
            <4>4. count' \in [Keys -> Nat]
                BY <4>3, <3>2 DEF Release, DropDay
            <4> QED  BY <4>1, <4>2, <4>3, <4>4
        <3> QED  BY <3>1, <3>2, <1>7 DEF Busy
    <2> QED  BY <2>1, <2>2, <1>7, GiveBackKeeps DEF Busy
<1> QED  BY <1>5, <1>6, <1>7

LEMMA ReserveDayKeeps ==
    ASSUME CountInv, NEW t \in Threads, ReserveDay(t) PROVE CountInv'
<1> USE DEF CountInv
<1>1. thread[t] \in Thread /\ thread \in [Threads -> Thread]
    BY DEF TypeOK
<1>2. /\ KeysOf(t) \subseteq Keys
      /\ \A k \in KeysOf(t) : Limit[k] > 0 /\ count[k] < Limit[k]
    BY DEF ReserveDay, InBudget, KeysOf
<1>3. /\ thread'[t].held = KeysOf(t) /\ thread'[t].step = "gate"
      /\ thread[t].step = "counted" /\ thread[t].held = {}
      /\ thread' \in [Threads -> Thread]
      /\ \A u \in Threads \ {t} : thread'[u] = thread[u]
    BY <1>1, <1>2 DEF ReserveDay, At, Thread, HeldAtGate
<1>4. \A r \in Runs : Cardinality(Pending(r))' = Cardinality(Pending(r))
    BY <1>3, PendingStays
<1>5. \A k \in Keys : Cardinality(Holding(k)') =
         IF k \in KeysOf(t) THEN Cardinality(Holding(k)) + 1 ELSE Cardinality(Holding(k))
    <2> SUFFICES ASSUME NEW k \in Keys
                 PROVE  Cardinality(Holding(k)') = IF k \in KeysOf(t)
                           THEN Cardinality(Holding(k)) + 1 ELSE Cardinality(Holding(k))
        OBVIOUS
    <2>1. Holding(k)' = IF k \in KeysOf(t) THEN Holding(k) \cup {t} ELSE Holding(k)
        BY <1>3 DEF Holding
    <2>2. t \notin Holding(k)
        BY <1>3 DEF Holding
    <2> QED  BY <2>1, <2>2, FiniteHolding, FS_AddElement
<1>6. TypeOK'
    <2>1. count' \in [Keys -> Nat]
        BY DEF ReserveDay, CountDay, TypeOK
    <2> QED  BY <2>1, <1>3 DEF ReserveDay, TypeOK, metrics, health, made
<1>7. CountsExact'
    BY <1>4 DEF CountsExact, ReserveDay, metrics, made
<1>8. HeldAtGate'
    BY <1>2, <1>3 DEF HeldAtGate
<1>9. DaysCounted'
    <2> SUFFICES ASSUME NEW k \in Keys, Limit[k] > 0
                 PROVE  /\ madeOn'[k] + Cardinality(Holding(k)') <= count'[k]
                        /\ count'[k] <= Limit[k]
        BY DEF DaysCounted
    <2>1. /\ madeOn[k] + Cardinality(Holding(k)) <= count[k] /\ count[k] <= Limit[k]
          /\ madeOn[k] \in Nat /\ count[k] \in Nat /\ Limit[k] \in Nat
          /\ Cardinality(Holding(k)) \in Nat /\ madeOn' = madeOn
          /\ count'[k] = IF k \in KeysOf(t) THEN count[k] + 1 ELSE count[k]
        BY FiniteHolding, Bounds DEF DaysCounted, TypeOK, ReserveDay, CountDay, made
    <2> QED  BY <2>1, <1>2, <1>5
<1>10. RunsCapped'
    BY DEF RunsCapped, ReserveDay, metrics
<1> QED  BY <1>6, <1>7, <1>8, <1>9, <1>10

LEMMA SendKeeps ==
    ASSUME CountInv, NEW t \in Threads, Send(t) PROVE CountInv'
<1> USE DEF CountInv
<1>1. thread[t] \in Thread /\ thread \in [Threads -> Thread] /\ RunOf[t] \in Runs
    BY ThreadAssumption DEF TypeOK
<1>2. /\ thread'[t].held = {} /\ thread'[t].step = "asked"
      /\ thread' \in [Threads -> Thread]
      /\ \A u \in Threads \ {t} : thread'[u] = thread[u]
    BY <1>1 DEF Send, Thread
<1>3. /\ \A r \in Runs : Cardinality(Pending(r))' =
            IF r = RunOf[t] THEN Cardinality(Pending(r)) - 1 ELSE Cardinality(Pending(r))
      /\ Cardinality(Pending(RunOf[t])) >= 1
    BY <1>2, PendingLeaves DEF Send
<1>4. \A k \in Keys : Cardinality(Holding(k))' =
         IF k \in thread[t].held THEN Cardinality(Holding(k)) - 1 ELSE Cardinality(Holding(k))
    BY <1>2, HoldingLeaves
<1>5. TypeOK'
    <2>1. madeInRun' \in [Runs -> Nat] /\ madeOn' \in [Keys -> Nat]
        BY <1>1 DEF Send, TypeOK
    <2> QED  BY <2>1, <1>2 DEF Send, TypeOK, metrics, health
<1>6. CountsExact'
    <2> SUFFICES ASSUME NEW r \in Runs
                 PROVE  /\ calls'[r] = madeInRun'[r] + Cardinality(Pending(r))'
                        /\ floorCalls'[r] = IF calls'[r] > Ceiling THEN calls'[r] - Ceiling ELSE 0
        BY DEF CountsExact
    <2>1. /\ calls[r] = madeInRun[r] + Cardinality(Pending(r))
          /\ floorCalls[r] = IF calls[r] > Ceiling THEN calls[r] - Ceiling ELSE 0
          /\ calls[r] \in Nat /\ madeInRun[r] \in Nat /\ Cardinality(Pending(r)) \in Nat
        BY FinitePending DEF CountsExact, TypeOK
    <2>2. /\ calls' = calls /\ floorCalls' = floorCalls
          /\ madeInRun'[r] = IF r = RunOf[t] THEN madeInRun[r] + 1 ELSE madeInRun[r]
        BY <1>1 DEF Send, TypeOK, metrics
    <2> QED  BY <2>1, <2>2, <1>3
<1>7. HeldAtGate'
    BY <1>2 DEF HeldAtGate
<1>8. DaysCounted'
    <2> SUFFICES ASSUME NEW k \in Keys, Limit[k] > 0
                 PROVE  /\ madeOn'[k] + Cardinality(Holding(k))' <= count'[k]
                        /\ count'[k] <= Limit[k]
        BY DEF DaysCounted
    <2>1. /\ madeOn[k] + Cardinality(Holding(k)) <= count[k] /\ count[k] <= Limit[k]
          /\ madeOn[k] \in Nat /\ count[k] \in Nat /\ Cardinality(Holding(k)) \in Nat
          /\ count' = count
          /\ madeOn'[k] = IF k \in thread[t].held THEN madeOn[k] + 1 ELSE madeOn[k]
        BY FiniteHolding DEF DaysCounted, TypeOK, Send
    <2> QED  BY <2>1, <1>4
<1>9. RunsCapped'
    BY DEF RunsCapped, Send, metrics
<1> QED  BY <1>5, <1>6, <1>7, <1>8, <1>9

LEMMA DieKeeps ==
    ASSUME CountInv, NEW d \in Runs, Die(d) PROVE CountInv'
<1> USE DEF CountInv
<1>1. Fresh(0) \in Thread
    BY BoundAssumption DEF Fresh, Thread, Incidents
<1>2. TypeOK'
    <2>1. thread' \in [Threads -> Thread]
        BY <1>1 DEF Die, TypeOK
    <2>2. faults' \in 0 .. MaxFaults
        BY BoundAssumption DEF Die, Fault, TypeOK
    <2> QED  BY <2>1, <2>2 DEF Die, TypeOK, health
<1>3. \A r \in Runs : Pending(r)' = IF r = d THEN {} ELSE Pending(r)
    BY DEF Pending, Die, Fresh
<1>4. CountsExact'
    <2> SUFFICES ASSUME NEW r \in Runs
                 PROVE  /\ calls'[r] = madeInRun'[r] + Cardinality(Pending(r)')
                        /\ floorCalls'[r] = IF calls'[r] > Ceiling THEN calls'[r] - Ceiling ELSE 0
        BY DEF CountsExact
    <2>1. CASE r = d
        <3>1. calls'[r] = 0 /\ floorCalls'[r] = 0 /\ madeInRun'[r] = 0
            BY <2>1 DEF Die, TypeOK
        <3>2. Cardinality(Pending(r)') = 0
            BY <2>1, <1>3, FS_EmptySet
        <3> QED  BY <3>1, <3>2, LimitAssumption
    <2>2. CASE r # d
        BY <2>2, <1>3 DEF Die, TypeOK, CountsExact
    <2> QED  BY <2>1, <2>2
<1>5. HeldAtGate'
    BY DEF HeldAtGate, Die, Fresh
<1>6. DaysCounted'
    <2> SUFFICES ASSUME NEW k \in Keys, Limit[k] > 0
                 PROVE  /\ madeOn'[k] + Cardinality(Holding(k)') <= count'[k]
                        /\ count'[k] <= Limit[k]
        BY DEF DaysCounted
    <2>1. Holding(k)' \subseteq Holding(k)
        BY DEF Holding, Die, Fresh
    <2>2. /\ Cardinality(Holding(k)') \in Nat
          /\ Cardinality(Holding(k)') <= Cardinality(Holding(k))
        BY <2>1, FiniteHolding, FS_Subset, FS_CardinalityType
    <2>3. /\ madeOn[k] + Cardinality(Holding(k)) <= count[k] /\ count[k] <= Limit[k]
          /\ madeOn[k] \in Nat /\ count[k] \in Nat /\ Cardinality(Holding(k)) \in Nat
          /\ count' = count /\ madeOn' = madeOn
        BY FiniteHolding DEF DaysCounted, TypeOK, Die
    <2> QED  BY <2>2, <2>3
<1>7. RunsCapped'
    BY Bounds DEF RunsCapped, Die, TypeOK
<1> QED  BY <1>2, <1>4, <1>5, <1>6, <1>7

LEMMA NextCount == CountInv /\ [Next]_vars => CountInv'
<1> SUFFICES ASSUME CountInv, [Next]_vars PROVE CountInv'
    OBVIOUS
<1>1. ASSUME UNCHANGED <<metrics, count, thread, made>>, TypeOK'
      PROVE  CountInv'
    BY <1>1 DEF CountInv, CountsExact, HeldAtGate, DaysCounted, RunsCapped, Pending, Holding,
                metrics, made
<1>2. CASE OutageLasts
    <2>1. TypeOK'
        BY <1>2 DEF OutageLasts, CountInv, TypeOK, Incidents, metrics, made
    <2> QED  BY <1>1, <1>2, <2>1 DEF OutageLasts
<1>3. CASE NextDay
    <2>1. TypeOK'
        BY <1>3, BoundAssumption DEF NextDay, CountInv, TypeOK, Days, metrics, health, made
    <2> QED  BY <1>1, <1>3, <2>1 DEF NextDay
<1>4. CASE UNCHANGED vars
    <2>1. TypeOK'
        BY <1>4 DEF vars, CountInv, TypeOK, metrics, health, made
    <2> QED  BY <1>1, <1>4, <2>1 DEF vars
<1>5. ASSUME NEW t \in Threads,
             \/ BeginReference(t) \/ RefuseCall(t) \/ Failed(t) \/ Worked(t) \/ CloseIncident(t)
      PROVE  CountInv'
    BY <1>5, QuietSteps
<1>6. ASSUME NEW t \in Threads, RefuseDay(t) \/ LoseDay(t) \/ Busy(t) PROVE CountInv'
    BY <1>6, GivingBackKeeps
<1>7. ASSUME NEW t \in Threads, ReserveCall(t) PROVE CountInv'
    BY <1>7, ReserveCallKeeps
<1>8. ASSUME NEW t \in Threads, ReserveDay(t) PROVE CountInv'
    BY <1>8, ReserveDayKeeps
<1>9. ASSUME NEW t \in Threads, Send(t) PROVE CountInv'
    BY <1>9, SendKeeps
<1>10. ASSUME NEW r \in Runs, Die(r) PROVE CountInv'
    BY <1>10, DieKeeps
<1> QED  BY <1>2, <1>3, <1>4, <1>5, <1>6, <1>7, <1>8, <1>9, <1>10 DEF Next

-----------------------------------------------------------------------------
(* Every reachable state satisfies the inductive invariant. *)
THEOREM CountInvariant == Spec => []CountInv
<1>1. Init => CountInv
    BY InitCount
<1>2. CountInv /\ [Next]_vars => CountInv'
    BY NextCount
<1> QED  BY <1>1, <1>2, PTL DEF Spec

(* A run's calls are counted exactly: what is counted was sent or is about *)
(* to be, however the threads of the run interleave and calls come back    *)
(* (_reserve_policy_call and _release_policy_call).                        *)
THEOREM CountsStayExact == Spec => []CountsExact
<1>1. CountInv => CountsExact
    BY DEF CountInv
<1> QED  BY <1>1, CountInvariant, PTL

(* No run sends more requests than its hard cap, and no day's deployment   *)
(* or scope more than its limit, with any number of threads, runs, scopes, *)
(* days, Redis errors and deaths (_policy_call_permitted, search_budget).  *)
THEOREM RequestsWithinBudgets == Spec => []WithinBudgets
<1>1. CountInv => WithinBudgets
    <2> SUFFICES ASSUME CountInv PROVE WithinBudgets
        OBVIOUS
    <2>1. ASSUME NEW r \in Runs PROVE madeInRun[r] <= HardCap
        <3>1. /\ calls[r] = madeInRun[r] + Cardinality(Pending(r)) /\ calls[r] <= HardCap
              /\ madeInRun[r] \in Nat /\ Cardinality(Pending(r)) \in Nat /\ HardCap \in Nat
            BY FinitePending, Bounds DEF CountInv, CountsExact, RunsCapped, TypeOK
        <3> QED  BY <3>1
    <2>2. ASSUME NEW k \in Keys, Limit[k] > 0 PROVE madeOn[k] <= Limit[k]
        <3>1. /\ madeOn[k] + Cardinality(Holding(k)) <= count[k] /\ count[k] <= Limit[k]
              /\ madeOn[k] \in Nat /\ count[k] \in Nat /\ Limit[k] \in Nat
              /\ Cardinality(Holding(k)) \in Nat
            BY <2>2, FiniteHolding, Bounds DEF CountInv, DaysCounted, TypeOK
        <3> QED  BY <3>1
    <2> QED  BY <2>1, <2>2 DEF WithinBudgets
<1> QED  BY <1>1, CountInvariant, PTL


-----------------------------------------------------------------------------
(* Recoveries: every incident that is not open any more was reported as    *)
(* recovered once at most, and the open one not at all.                    *)

OpenIncidents == IF incident = "none" THEN 0 ELSE 1
RecoveryInv   == recoveries + OpenIncidents <= opened

LEMMA RecoveryStep == CountInv /\ RecoveryInv /\ [Next]_vars => RecoveryInv'
<1> SUFFICES ASSUME CountInv, RecoveryInv, [Next]_vars PROVE RecoveryInv'
    OBVIOUS
<1>1. recoveries \in Nat /\ opened \in Nat
    BY DEF CountInv, TypeOK
<1>2. ASSUME UNCHANGED health PROVE RecoveryInv'
    BY <1>2 DEF health, RecoveryInv, OpenIncidents
<1>3. ASSUME NEW t \in Threads, Failed(t) PROVE RecoveryInv'
    BY <1>1, <1>3 DEF Failed, RecoveryInv, OpenIncidents
<1>4. ASSUME NEW t \in Threads, CloseIncident(t) PROVE RecoveryInv'
    BY <1>1, <1>4 DEF CloseIncident, Recovered, RecoveryInv, OpenIncidents
<1>5. CASE OutageLasts
    BY <1>5 DEF OutageLasts, RecoveryInv, OpenIncidents
<1>6. ASSUME NEW t \in Threads,
             \/ BeginReference(t) \/ ReserveCall(t) \/ RefuseCall(t) \/ ReserveDay(t)
             \/ RefuseDay(t) \/ LoseDay(t) \/ Send(t) \/ Busy(t) \/ Worked(t)
      PROVE  RecoveryInv'
    BY <1>2, <1>6 DEF BeginReference, ReserveCall, RefuseCall, ReserveDay, RefuseDay, LoseDay,
                      Send, Busy, Worked
<1>7. ASSUME NEW r \in Runs, Die(r) PROVE RecoveryInv'
    BY <1>2, <1>7 DEF Die
<1>8. CASE NextDay \/ UNCHANGED vars
    BY <1>2, <1>8 DEF NextDay, vars
<1> QED  BY <1>3, <1>4, <1>5, <1>6, <1>7, <1>8 DEF Next

(* An outage is reported as recovered at most once, however many threads   *)
(* have read the incident before one of them closes it                     *)
(* (_track_required_api_health, record_success).                           *)
THEOREM OneRecovery == Spec => []OneRecoveryPerIncident
<1>1. Init => RecoveryInv
    BY DEF Init, RecoveryInv, OpenIncidents
<1>2. CountInv /\ RecoveryInv /\ [Next]_vars => RecoveryInv'
    BY RecoveryStep
<1>3. CountInv /\ RecoveryInv => OneRecoveryPerIncident
    BY DEF CountInv, TypeOK, RecoveryInv, OpenIncidents, OneRecoveryPerIncident
<1> QED  BY <1>1, <1>2, <1>3, CountInvariant, PTL DEF Spec

-----------------------------------------------------------------------------
(* The floor: what a run has counted above its ceiling are calls that      *)
(* references had of their floors.  Used(r) names these calls by thread,   *)
(* reference and number, and so many at least the floors have given.       *)

References == 1 .. MaxReferences
Allowed(r) == ThreadsOf(r) \X (References \X (1 .. Floor))
Used(r) == {u \in Allowed(r) :
              \/ u[2][1] < thread[u[1]].started
              \/ u[2][1] = thread[u[1]].started /\ u[2][2] <= thread[u[1]].refCalls}

UsedCovers  == \A r \in Runs : calls[r] <= Ceiling + Cardinality(Used(r))
HeldCall(t) == IF thread[t].step \in {"counted", "gate"} THEN 1 ELSE 0
CallsMade   == \A t \in Threads : thread[t].refCalls = thread[t].made + HeldCall(t)
FloorInv    == UsedCovers /\ CallsMade /\ FloorGuaranteed

LEMMA FiniteUsed ==
    \A r \in Runs :
       /\ IsFiniteSet(ThreadsOf(r)) /\ Cardinality(ThreadsOf(r)) \in Nat
       /\ IsFiniteSet(Allowed(r)) /\ Cardinality(Allowed(r)) \in Nat
       /\ Cardinality(Allowed(r)) = Cardinality(ThreadsOf(r)) * (MaxReferences * Floor)
       /\ IsFiniteSet(Used(r)) /\ Cardinality(Used(r)) \in Nat
<1> SUFFICES ASSUME NEW r \in Runs
             PROVE  /\ IsFiniteSet(ThreadsOf(r)) /\ Cardinality(ThreadsOf(r)) \in Nat
                    /\ IsFiniteSet(Allowed(r)) /\ Cardinality(Allowed(r)) \in Nat
                    /\ Cardinality(Allowed(r)) = Cardinality(ThreadsOf(r)) * (MaxReferences * Floor)
                    /\ IsFiniteSet(Used(r)) /\ Cardinality(Used(r)) \in Nat
    OBVIOUS
<1>1. IsFiniteSet(ThreadsOf(r)) /\ Cardinality(ThreadsOf(r)) \in Nat
    <2>1. ThreadsOf(r) \subseteq Threads
        BY DEF ThreadsOf
    <2> QED  BY <2>1, ThreadAssumption, FS_Subset, FS_CardinalityType
<1>2. /\ IsFiniteSet(References) /\ Cardinality(References) = MaxReferences
      /\ IsFiniteSet(1 .. Floor) /\ Cardinality(1 .. Floor) = Floor
    BY FS_Interval, LimitAssumption, BoundAssumption DEF References
<1>3. /\ IsFiniteSet(References \X (1 .. Floor))
      /\ Cardinality(References \X (1 .. Floor)) = MaxReferences * Floor
    BY <1>2, FS_Product
<1>4. /\ IsFiniteSet(Allowed(r))
      /\ Cardinality(Allowed(r)) = Cardinality(ThreadsOf(r)) * (MaxReferences * Floor)
    BY <1>1, <1>3, FS_Product DEF Allowed
<1>5. Used(r) \in SUBSET Allowed(r)
    BY DEF Used
<1> QED  BY <1>1, <1>4, <1>5, FS_Subset, FS_CardinalityType

LEMMA InitFloor == Init => FloorInv
<1> SUFFICES ASSUME Init PROVE FloorInv
    OBVIOUS
<1>1. UsedCovers
    <2> SUFFICES ASSUME NEW r \in Runs PROVE calls[r] <= Ceiling + Cardinality(Used(r))
        BY DEF UsedCovers
    <2> QED  BY FiniteUsed, LimitAssumption DEF Init
<1>2. CallsMade
    BY DEF Init, CallsMade, HeldCall, Fresh
<1>3. FloorGuaranteed
    BY DEF Init, FloorGuaranteed, Fresh
<1> QED  BY <1>1, <1>2, <1>3 DEF FloorInv

(* A thread that goes on, or begins its next reference, uses no less.      *)
Onward(t) == \/ /\ thread'[t].started = thread[t].started
                /\ thread'[t].refCalls >= thread[t].refCalls
             \/ thread'[t].started > thread[t].started

LEMMA UsedGrows ==
    ASSUME CountInv, CountInv', NEW r \in Runs,
           \A t \in Threads : RunOf[t] = r => Onward(t)
    PROVE  Cardinality(Used(r)) <= Cardinality(Used(r)')
<1>1. Used(r) \subseteq Used(r)'
    <2> SUFFICES ASSUME NEW u \in Used(r) PROVE u \in Used(r)'
        OBVIOUS
    <2>1. u \in Allowed(r) /\ u[1] \in Threads /\ RunOf[u[1]] = r
        BY DEF Used, Allowed, ThreadsOf
    <2>2. u[2][1] \in Nat /\ u[2][2] \in Nat
        BY <2>1 DEF Allowed, References
    <2>3. /\ thread[u[1]].started \in Nat /\ thread'[u[1]].started \in Nat
          /\ thread[u[1]].refCalls \in Int /\ thread'[u[1]].refCalls \in Int
        BY <2>1, BoundAssumption DEF CountInv, TypeOK, Thread
    <2>4. Onward(u[1])
        BY <2>1
    <2>5. \/ u[2][1] < thread'[u[1]].started
          \/ u[2][1] = thread'[u[1]].started /\ u[2][2] <= thread'[u[1]].refCalls
        BY <2>2, <2>3, <2>4 DEF Used, Onward
    <2> QED  BY <2>1, <2>5 DEF Used, Allowed, ThreadsOf
<1>2. IsFiniteSet(Used(r)')
    <2>1. Used(r)' \in SUBSET Allowed(r)
        BY DEF Used, Allowed, ThreadsOf
    <2> QED  BY <2>1, FiniteUsed, FS_Subset
<1> QED  BY <1>1, <1>2, FS_Subset

LEMMA UsedLater == \A r \in Runs : /\ Used(r)' \in SUBSET Allowed(r)
                                   /\ IsFiniteSet(Used(r)')
                                   /\ Cardinality(Used(r)') \in Nat
<1>1. \A r \in Runs : Used(r)' \in SUBSET Allowed(r)
    BY DEF Used, Allowed, ThreadsOf
<1> QED  BY <1>1, FiniteUsed, FS_Subset, FS_CardinalityType

LEMMA OnwardCovers ==
    ASSUME CountInv, CountInv', UsedCovers, NEW r \in Runs, calls'[r] <= calls[r],
           \A t \in Threads : RunOf[t] = r => Onward(t)
    PROVE  calls'[r] <= Ceiling + Cardinality(Used(r)')
<1>1. Cardinality(Used(r)) <= Cardinality(Used(r)')
    BY UsedGrows
<1>2. calls[r] <= Ceiling + Cardinality(Used(r))
    BY DEF UsedCovers
<1>3. calls[r] \in Nat /\ calls'[r] \in Nat
    BY DEF CountInv, TypeOK
<1> QED  BY <1>1, <1>2, <1>3, FiniteUsed, UsedLater, LimitAssumption


(* Reserving past the ceiling takes a call of the reference's floor that   *)
(* was not used yet; giving back returns at most one.                      *)
LEMMA ReserveCovers ==
    ASSUME CountInv, CountInv', UsedCovers, CallsMade, NEW t \in Threads, ReserveCall(t)
    PROVE  UsedCovers'
<1> SUFFICES ASSUME NEW r \in Runs PROVE calls'[r] <= Ceiling + Cardinality(Used(r)')
    BY DEF UsedCovers
<1>1. /\ thread \in [Threads -> Thread] /\ thread[t] \in Thread /\ RunOf[t] \in Runs
      /\ calls[r] \in Nat /\ calls'[r] \in Nat
    BY ThreadAssumption DEF CountInv, TypeOK
<1>2. /\ thread'[t].started = thread[t].started
      /\ thread'[t].refCalls = thread[t].refCalls + 1
      /\ \A u \in Threads \ {t} : thread'[u] = thread[u]
    BY <1>1 DEF ReserveCall, Thread
<1>3. \A u \in Threads : Onward(u)
    BY <1>1, <1>2, BoundAssumption DEF Onward, Thread
<1>4. CASE r # RunOf[t]
    <2>1. calls'[r] = calls[r]
        BY <1>4, <1>1 DEF ReserveCall, CountInv, TypeOK
    <2> QED  BY <1>1, <1>3, <2>1, OnwardCovers
<1>5. CASE r = RunOf[t] /\ calls[r] < Ceiling
    <2>1. calls'[r] = calls[r] + 1
        BY <1>5, <1>1 DEF ReserveCall, CountInv, TypeOK
    <2> QED  BY <1>1, <1>5, <2>1, UsedLater, LimitAssumption
<1>6. CASE r = RunOf[t] /\ ~(calls[r] < Ceiling)
    <2>1. calls'[r] = calls[r] + 1
        BY <1>6, <1>1 DEF ReserveCall, CountInv, TypeOK
    <2>2. thread[t].refCalls < Floor /\ thread[t].started > 0 /\ thread[t].step = "idle"
        BY <1>6 DEF ReserveCall, Permitted, At
    <2>3. thread[t].refCalls \in Nat
        BY <1>1, <2>2 DEF CallsMade, HeldCall, Thread
    <2> DEFINE x == <<t, <<thread[t].started, thread[t].refCalls + 1>>>>
    <2>4. x \in Allowed(r)
        BY <1>1, <1>6, <2>2, <2>3, LimitAssumption, BoundAssumption
           DEF Allowed, ThreadsOf, References, Thread
    <2>5. x \notin Used(r)
        BY <1>1, <2>3, BoundAssumption DEF Used, Thread
    <2>6. x \in Used(r)'
        <3>1. x[1] = t /\ x[2][1] = thread'[t].started /\ x[2][2] = thread'[t].refCalls
            BY <1>2
        <3>2. x[2][2] <= thread'[x[1]].refCalls
            BY <3>1, <1>2, <2>3
        <3> QED  BY <3>1, <3>2, <2>4 DEF Used, Allowed, ThreadsOf
    <2>7. Used(r) \subseteq Used(r)'
        <3> SUFFICES ASSUME NEW u \in Used(r) PROVE u \in Used(r)'
            OBVIOUS
        <3>1. u \in Allowed(r) /\ u[1] \in Threads /\ u[2][1] \in Nat /\ u[2][2] \in Nat
            BY DEF Used, Allowed, ThreadsOf, References
        <3>2. thread[u[1]].refCalls \in Int
            BY <3>1, <1>1 DEF Thread
        <3>3. \/ u[2][1] < thread'[u[1]].started
              \/ u[2][1] = thread'[u[1]].started /\ u[2][2] <= thread'[u[1]].refCalls
            BY <3>1, <3>2, <1>2 DEF Used
        <3> QED  BY <3>1, <3>3 DEF Used, Allowed, ThreadsOf
    <2>8. Used(r) \cup {x} \in SUBSET Used(r)'
        BY <2>6, <2>7
    <2>9. Cardinality(Used(r) \cup {x}) = Cardinality(Used(r)) + 1
        BY <2>5, FiniteUsed, FS_AddElement
    <2>10. Cardinality(Used(r)) + 1 <= Cardinality(Used(r)')
        BY <2>8, <2>9, UsedLater, FS_Subset
    <2>11. calls[r] <= Ceiling + Cardinality(Used(r))
        BY DEF UsedCovers
    <2> QED  BY <1>1, <2>1, <2>10, <2>11, FiniteUsed, UsedLater, LimitAssumption
<1> QED  BY <1>4, <1>5, <1>6

LEMMA GiveBackCovers ==
    ASSUME CountInv, CountInv', UsedCovers, NEW t \in Threads, GiveBack(t)
    PROVE  UsedCovers'
<1> SUFFICES ASSUME NEW r \in Runs PROVE calls'[r] <= Ceiling + Cardinality(Used(r)')
    BY DEF UsedCovers
<1>1. /\ thread \in [Threads -> Thread] /\ thread[t] \in Thread /\ RunOf[t] \in Runs
      /\ calls[r] \in Nat /\ calls'[r] \in Nat
    BY ThreadAssumption DEF CountInv, TypeOK
<1>2. /\ thread'[t].started = thread[t].started
      /\ thread'[t].refCalls = thread[t].refCalls - 1
      /\ \A u \in Threads \ {t} : thread'[u] = thread[u]
    BY <1>1 DEF GiveBack, Thread
<1>3. CASE r # RunOf[t]
    <2>1. calls'[r] = calls[r]
        BY <1>3, <1>1 DEF GiveBack, CountInv, TypeOK
    <2>2. \A u \in Threads : RunOf[u] = r => Onward(u)
        BY <1>1, <1>2, <1>3, BoundAssumption DEF Onward, Thread
    <2> QED  BY <1>1, <2>1, <2>2, OnwardCovers
<1>4. CASE r = RunOf[t]
    <2>1. calls'[r] = calls[r] - 1
        BY <1>4, <1>1 DEF GiveBack, CountInv, TypeOK
    <2> DEFINE x == <<t, <<thread[t].started, thread[t].refCalls>>>>
    <2>2. Used(r) \ {x} \in SUBSET Used(r)'
        <3> SUFFICES ASSUME NEW u \in Used(r), u # x PROVE u \in Used(r)'
            OBVIOUS
        <3>1. /\ u \in Allowed(r) /\ u[1] \in Threads /\ u[2][1] \in Nat /\ u[2][2] \in Nat
              /\ u = <<u[1], <<u[2][1], u[2][2]>>>>
            BY DEF Used, Allowed, ThreadsOf, References
        <3>2. thread[u[1]].refCalls \in Int
            BY <3>1, <1>1 DEF Thread
        <3>3. u[1] = t /\ u[2][1] = thread[t].started => u[2][2] # thread[t].refCalls
            BY <3>1
        <3>4. \/ u[2][1] < thread'[u[1]].started
              \/ u[2][1] = thread'[u[1]].started /\ u[2][2] <= thread'[u[1]].refCalls
            BY <3>1, <3>2, <3>3, <1>2 DEF Used
        <3> QED  BY <3>1, <3>4 DEF Used, Allowed, ThreadsOf
    <2>3. Cardinality(Used(r) \ {x}) >= Cardinality(Used(r)) - 1
        <3>1. IsFiniteSet(Used(r)) /\ Cardinality(Used(r)) \in Nat
            BY FiniteUsed
        <3>2. Cardinality(Used(r) \ {x}) =
                 IF x \in Used(r) THEN Cardinality(Used(r)) - 1 ELSE Cardinality(Used(r))
            BY <3>1, FS_RemoveElement
        <3> QED  BY <3>1, <3>2
    <2>4. Cardinality(Used(r) \ {x}) <= Cardinality(Used(r)') /\ Cardinality(Used(r) \ {x}) \in Nat
        BY <2>2, FiniteUsed, UsedLater, FS_Subset, FS_CardinalityType, FS_RemoveElement
    <2>5. calls[r] <= Ceiling + Cardinality(Used(r))
        BY DEF UsedCovers
    <2> QED  BY <1>1, <2>1, <2>3, <2>4, <2>5, FiniteUsed, UsedLater, LimitAssumption
<1> QED  BY <1>3, <1>4

LEMMA UsedCoversStep == CountInv /\ UsedCovers /\ CallsMade /\ [Next]_vars => UsedCovers'
<1> SUFFICES ASSUME CountInv, UsedCovers, CallsMade, [Next]_vars PROVE UsedCovers'
    OBVIOUS
<1>1. CountInv'
    BY NextCount
<1>2. calls \in [Runs -> Nat] /\ thread \in [Threads -> Thread]
    BY DEF CountInv, TypeOK
<1>3. ASSUME calls' = calls, \A u \in Threads : Onward(u) PROVE UsedCovers'
    BY <1>1, <1>2, <1>3, OnwardCovers DEF UsedCovers
<1>4. ASSUME NEW t \in Threads, BeginReference(t) PROVE UsedCovers'
    <2>1. thread' = [thread EXCEPT ![t] = Fresh(thread[t].started + 1)] /\ calls' = calls
        BY <1>4 DEF BeginReference, metrics
    <2>2. \A u \in Threads : Onward(u)
        BY <1>2, <2>1, BoundAssumption DEF Onward, Fresh, Thread
    <2> QED  BY <1>3, <2>1, <2>2
<1>5. ASSUME NEW t \in Threads,
             \/ RefuseCall(t) \/ ReserveDay(t) \/ Send(t)
             \/ Failed(t) \/ Worked(t) \/ CloseIncident(t)
      PROVE  UsedCovers'
    <2>1. calls' = calls
        BY <1>5 DEF RefuseCall, ReserveDay, Send, Failed, Worked, CloseIncident, metrics
    <2>2. /\ thread'[t].started = thread[t].started /\ thread'[t].refCalls = thread[t].refCalls
          /\ \A u \in Threads \ {t} : thread'[u] = thread[u]
        BY <1>2, <1>5 DEF RefuseCall, ReserveDay, Send, Failed, Worked, CloseIncident, Go, Thread
    <2>3. \A u \in Threads : Onward(u)
        BY <1>2, <2>2 DEF Onward, Thread
    <2> QED  BY <1>3, <2>1, <2>3
<1>6. ASSUME NEW t \in Threads, RefuseDay(t) \/ LoseDay(t) \/ Busy(t) PROVE UsedCovers'
    BY <1>1, <1>6, GiveBackCovers DEF RefuseDay, LoseDay, Busy
<1>7. ASSUME NEW t \in Threads, ReserveCall(t) PROVE UsedCovers'
    BY <1>1, <1>7, ReserveCovers
<1>8. ASSUME NEW d \in Runs, Die(d) PROVE UsedCovers'
    <2> SUFFICES ASSUME NEW r \in Runs PROVE calls'[r] <= Ceiling + Cardinality(Used(r)')
        BY DEF UsedCovers
    <2>1. CASE r = d
        <3>1. calls'[r] = 0
            BY <1>2, <1>8, <2>1 DEF Die
        <3> QED  BY <3>1, UsedLater, LimitAssumption
    <2>2. CASE r # d
        <3>1. calls'[r] = calls[r]
            BY <1>2, <1>8, <2>2 DEF Die
        <3>2. \A u \in Threads : RunOf[u] = r => thread'[u] = thread[u]
            BY <1>8, <2>2 DEF Die
        <3>3. \A u \in Threads : RunOf[u] = r => Onward(u)
            BY <1>2, <3>2 DEF Onward, Thread
        <3> QED  BY <1>1, <1>2, <3>1, <3>3, OnwardCovers
    <2> QED  BY <2>1, <2>2
<1>9. CASE OutageLasts \/ NextDay \/ UNCHANGED vars
    <2>1. calls' = calls /\ thread' = thread
        BY <1>9 DEF OutageLasts, NextDay, vars, metrics
    <2>2. \A u \in Threads : Onward(u)
        BY <1>2, <2>1 DEF Onward, Thread
    <2> QED  BY <1>3, <2>1, <2>2
<1> QED  BY <1>4, <1>5, <1>6, <1>7, <1>8, <1>9 DEF Next

(* A reference has counted the calls it has sent and the one it is about   *)
(* to send.                                                                *)
LEMMA CallsMadeStep == CountInv /\ CallsMade /\ [Next]_vars => CallsMade'
<1> SUFFICES ASSUME CountInv, CallsMade, [Next]_vars,
                    NEW u \in Threads
             PROVE  thread'[u].refCalls = thread'[u].made + HeldCall(u)'
    BY DEF CallsMade
<1> DEFINE Kept == thread'[u].refCalls = thread'[u].made + HeldCall(u)'
<1>1. /\ thread \in [Threads -> Thread] /\ thread[u] \in Thread
      /\ thread[u].refCalls = thread[u].made + HeldCall(u)
      /\ thread[u].refCalls \in Int /\ thread[u].made \in Nat
    BY DEF CountInv, TypeOK, CallsMade, Thread
<1>2. ASSUME thread'[u] = thread[u] PROVE Kept
    BY <1>1, <1>2 DEF HeldCall
<1>3. ASSUME NEW t \in Threads, t # u,
             \/ BeginReference(t) \/ ReserveCall(t) \/ RefuseCall(t) \/ ReserveDay(t)
             \/ RefuseDay(t) \/ LoseDay(t) \/ Send(t) \/ Busy(t)
             \/ Failed(t) \/ Worked(t) \/ CloseIncident(t)
      PROVE  Kept
    <2>1. thread'[u] = thread[u]
        BY <1>1, <1>3 DEF BeginReference, ReserveCall, RefuseCall, ReserveDay, RefuseDay, LoseDay,
                          Send, Busy, Failed, Worked, CloseIncident, GiveBack, Go
    <2> QED  BY <1>2, <2>1
<1>4. CASE BeginReference(u)
    BY <1>1, <1>4 DEF BeginReference, Fresh, HeldCall
<1>5. CASE ReserveCall(u)
    BY <1>1, <1>5 DEF ReserveCall, At, HeldCall, Thread
<1>6. CASE RefuseCall(u) \/ ReserveDay(u)
    BY <1>1, <1>6 DEF RefuseCall, ReserveDay, At, HeldCall, Thread
<1>7. CASE RefuseDay(u) \/ LoseDay(u) \/ Busy(u)
    BY <1>1, <1>7 DEF RefuseDay, LoseDay, Busy, GiveBack, At, HeldCall, Thread
<1>8. CASE Send(u)
    BY <1>1, <1>8 DEF Send, At, HeldCall, Thread
<1>9. CASE Failed(u) \/ Worked(u) \/ CloseIncident(u)
    BY <1>1, <1>9 DEF Failed, Worked, CloseIncident, Go, At, HeldCall, Thread
<1>10. ASSUME NEW d \in Runs, Die(d) PROVE Kept
    BY <1>1, <1>2, <1>10 DEF Die, Fresh, HeldCall
<1>11. CASE OutageLasts \/ NextDay \/ UNCHANGED vars
    BY <1>2, <1>11 DEF OutageLasts, NextDay, vars
<1> QED  BY <1>3, <1>4, <1>5, <1>6, <1>7, <1>8, <1>9, <1>10, <1>11 DEF Next

(* A refused reference has had its floor: were it short of it, the hard    *)
(* cap would be spent on the floors of others and a part of its own, which *)
(* is less than all floors together.                                       *)
Covered(t) == HardCap >= Ceiling + Floor * MaxReferences * Cardinality(ThreadsOf(RunOf[t]))

LEMMA RefusedHadFloor ==
    ASSUME CountInv, UsedCovers, CallsMade, NEW t \in Threads, RefuseCall(t),
           Required, Ceiling > 0, Covered(t)
    PROVE  thread[t].made >= Floor
<1> SUFFICES ASSUME thread[t].made < Floor PROVE FALSE
    BY LimitAssumption DEF CountInv, TypeOK, Thread
<1> DEFINE r == RunOf[t]
<1>1. /\ thread[t] \in Thread /\ r \in Runs /\ calls[r] \in Nat
      /\ thread[t].made \in Nat /\ thread[t].started \in 0 .. MaxReferences
    BY ThreadAssumption DEF CountInv, TypeOK, Thread
<1>2. thread[t].step = "idle" /\ thread[t].started > 0 /\ ~Permitted(t)
    BY DEF RefuseCall, At
<1>3. thread[t].refCalls = thread[t].made
    BY <1>1, <1>2 DEF CallsMade, HeldCall
<1>4. calls[r] >= HardCap
    BY <1>1, <1>2, <1>3, Bounds DEF Permitted
<1> DEFINE x == <<t, <<thread[t].started, Floor>>>>
<1>5. x \in Allowed(r)
    BY <1>1, <1>2, LimitAssumption, BoundAssumption DEF Allowed, ThreadsOf, References
<1>6. x \notin Used(r)
    BY <1>1, <1>3, LimitAssumption, BoundAssumption DEF Used
<1>7. Used(r) \in SUBSET (Allowed(r) \ {x})
    BY <1>6 DEF Used
<1>8. /\ Cardinality(Allowed(r) \ {x}) = Cardinality(Allowed(r)) - 1
      /\ Cardinality(Used(r)) <= Cardinality(Allowed(r) \ {x})
    <2>1. IsFiniteSet(Allowed(r))
        BY <1>1, FiniteUsed
    <2>2. /\ IsFiniteSet(Allowed(r) \ {x})
          /\ Cardinality(Allowed(r) \ {x}) = Cardinality(Allowed(r)) - 1
        BY <2>1, <1>5, FS_RemoveElement
    <2> QED  BY <2>2, <1>7, FS_Subset
<1>9. calls[r] <= Ceiling + Cardinality(Used(r))
    BY <1>1 DEF UsedCovers
<1>10. Cardinality(Allowed(r)) = Floor * MaxReferences * Cardinality(ThreadsOf(r))
    <2>1. \A m, n, k \in Nat : m * (n * k) = k * n * m
        OBVIOUS
    <2> QED  BY <1>1, <2>1, FiniteUsed, LimitAssumption, BoundAssumption
<1>11. HardCap >= Ceiling + Cardinality(Allowed(r))
    BY <1>10 DEF Covered
<1> QED  BY <1>1, <1>4, <1>8, <1>9, <1>11, FiniteUsed, Bounds, LimitAssumption

LEMMA FloorStep ==
    CountInv /\ FloorInv /\ [Next]_vars => FloorGuaranteed'
<1> SUFFICES ASSUME CountInv, FloorInv, [Next]_vars,
                    NEW u \in Threads, Required, Ceiling > 0, thread'[u].shut, Covered(u)
             PROVE  thread'[u].made >= Floor
    BY DEF FloorGuaranteed, Covered, ThreadsOf
<1>1. /\ thread \in [Threads -> Thread] /\ thread[u] \in Thread /\ thread[u].made \in Nat
    BY DEF CountInv, TypeOK, Thread
<1>2. ASSUME thread[u].shut, thread'[u].made >= thread[u].made, thread'[u].made \in Nat
      PROVE  thread'[u].made >= Floor
    <2>1. thread[u].made >= Floor
        BY <1>2 DEF FloorInv, FloorGuaranteed, Covered
    <2> QED  BY <1>1, <1>2, <2>1, LimitAssumption
<1>3. ASSUME NEW t \in Threads, t # u,
             \/ BeginReference(t) \/ ReserveCall(t) \/ RefuseCall(t) \/ ReserveDay(t)
             \/ RefuseDay(t) \/ LoseDay(t) \/ Send(t) \/ Busy(t)
             \/ Failed(t) \/ Worked(t) \/ CloseIncident(t)
      PROVE  thread'[u].made >= Floor
    <2>1. thread'[u] = thread[u]
        BY <1>1, <1>3 DEF BeginReference, ReserveCall, RefuseCall, ReserveDay, RefuseDay, LoseDay,
                          Send, Busy, Failed, Worked, CloseIncident, GiveBack, Go
    <2> QED  BY <1>1, <1>2, <2>1
<1>4. CASE BeginReference(u)
    BY <1>1, <1>4 DEF BeginReference, Fresh
<1>5. CASE RefuseCall(u)
    <2>1. thread'[u].made = thread[u].made
        BY <1>1, <1>5 DEF RefuseCall, Thread
    <2>2. thread[u].made >= Floor
        BY <1>5, RefusedHadFloor DEF FloorInv
    <2> QED  BY <2>1, <2>2
<1>6. CASE \/ ReserveCall(u) \/ ReserveDay(u) \/ RefuseDay(u) \/ LoseDay(u) \/ Busy(u)
           \/ Failed(u) \/ Worked(u) \/ CloseIncident(u)
    <2>1. thread'[u].made = thread[u].made /\ thread'[u].shut = thread[u].shut
        <3>1. CASE ReserveCall(u)
            BY <1>1, <3>1 DEF ReserveCall, Thread
        <3>4. CASE ReserveDay(u)
            BY <1>1, <3>4 DEF ReserveDay, Thread
        <3>2. CASE RefuseDay(u) \/ LoseDay(u) \/ Busy(u)
            BY <1>1, <3>2 DEF RefuseDay, LoseDay, Busy, GiveBack, Thread
        <3>3. CASE Failed(u)
            BY <1>1, <3>3 DEF Failed, Go, Thread
        <3>5. CASE Worked(u)
            <4>1. CASE Required /\ incident # "none"
                <5>1. thread' = [thread EXCEPT ![u].step = "read", ![u].seen = incident]
                    BY <3>5, <4>1 DEF Worked
                <5>2. thread'[u] = [thread[u] EXCEPT !.step = "read", !.seen = incident]
                    BY <1>1, <5>1
                <5> QED  BY <1>1, <5>2 DEF Thread
            <4>2. CASE ~(Required /\ incident # "none")
                BY <1>1, <3>5, <4>2 DEF Worked, Go, Thread
            <4> QED  BY <4>1, <4>2
        <3>6. CASE CloseIncident(u)
            BY <1>1, <3>6 DEF CloseIncident, Thread
        <3> QED  BY <1>6, <3>1, <3>2, <3>3, <3>4, <3>5, <3>6
    <2> QED  BY <1>1, <1>2, <2>1
<1>7. CASE Send(u)
    <2>1. thread'[u].made = thread[u].made + 1 /\ thread'[u].shut = thread[u].shut
        BY <1>1, <1>7 DEF Send, Thread
    <2> QED  BY <1>1, <1>2, <2>1
<1>8. ASSUME NEW d \in Runs, Die(d) PROVE thread'[u].made >= Floor
    <2>1. thread'[u] = thread[u]
        BY <1>8 DEF Die, Fresh
    <2> QED  BY <1>1, <1>2, <2>1
<1>9. CASE OutageLasts \/ NextDay \/ UNCHANGED vars
    <2>1. thread'[u] = thread[u]
        BY <1>9 DEF OutageLasts, NextDay, vars
    <2> QED  BY <1>1, <1>2, <2>1
<1> QED  BY <1>3, <1>4, <1>5, <1>6, <1>7, <1>8, <1>9 DEF Next

(* No reference is refused before it has had its floor of real calls, when *)
(* the hard cap covers the floors of all: for any threads, references,     *)
(* ceilings and floors, whatever is refused by the day's budgets, given    *)
(* back, lost or started again between (_policy_call_permitted,            *)
(* _release_policy_call).                                                  *)
THEOREM FloorsAreGiven == Spec => []FloorGuaranteed
<1>1. Init => FloorInv
    BY InitFloor
<1>2. CountInv /\ FloorInv /\ [Next]_vars => FloorInv'
    BY UsedCoversStep, CallsMadeStep, FloorStep DEF FloorInv
<1>3. FloorInv => FloorGuaranteed
    BY DEF FloorInv
<1> QED  BY <1>1, <1>2, <1>3, CountInvariant, PTL DEF Spec

=============================================================================
