--------------------------- MODULE QuantityProofs ---------------------------
(***************************************************************************)
(* Proofs about what the program adds up, as MCData composes it: the slots *)
(* and the money of a backtest's allocation, for any trades, sizes and     *)
(* number of slots; the equity curve of a live portfolio, for any watches, *)
(* symbols, prices and readings of the monitor; and the volume of ticks,   *)
(* and by direction, for any symbols, bursts, restarts and resets.         *)
(***************************************************************************)
EXTENDS MCData, FoldTheorems, SequenceTheorems

-----------------------------------------------------------------------------
(* The allocation of a backtest.                                           *)

(* What a step of the composition is for an allocation.                    *)
LEMMA AllocationStep ==
  ASSUME [Next]_vars, part = "allocation"
  PROVE  part' = "allocation" /\ (Allocated!Next \/ UNCHANGED allocVars)
BY DEF Next, NextBacktest, NextDelta, NextPrice, NextRecord, vars, backtestVars

(* Each step of the walk looks at a trade's result, and each step of the   *)
(* simulation at what another step of the walk did.                        *)
PairingTyped ==
  /\ paired \in [1 .. MaxTrades -> 1 .. MaxTrades]
  /\ turn \in [1 .. MaxTrades -> 1 .. MaxTrades]
  /\ \A m, n \in 1 .. MaxTrades : turn[m] = turn[n] => m = n

AllocationTyped ==
  /\ trade \in [1 .. MaxTrades -> Inputs]
  /\ \A i, j \in 1 .. MaxTrades : i < j => trade[i].at <= trade[j].at
  /\ PairingTyped
  /\ phase \in {"allocation", "simulation", "done"} /\ next \in 1 .. MaxTrades + 1
  /\ out \in [1 .. MaxTrades -> [fate : Allocated!Fates, exit : Int]]

(* The trades before k that hold a slot when k is entered.                 *)
Before(k) == {i \in 1 .. k - 1 : Allocated!Taken(i) /\ out[i].exit > Allocated!Label(k)}

(* While trades are allocated, a trade that was taken is open, or over     *)
(* when the last one was entered.                                          *)
Walked ==
  phase = "allocation" =>
    /\ open \subseteq 1 .. next - 1 /\ Cardinality(open) <= MaxOpen
    /\ \A i \in open : Allocated!Taken(i)
    /\ \A i \in 1 .. MaxTrades : i >= next => ~Allocated!Taken(i)
    /\ \A i \in 1 .. next - 1 : Allocated!Taken(i) =>
         i \in open \/ out[i].exit <= Allocated!Label(next - 1)

(* A trade that was taken left no more than a slot for itself.             *)
SlotFor(k) == /\ Cardinality(Allocated!OpenAt(k)) <= MaxOpen
              /\ Allocated!Taken(k) => Cardinality(Before(k)) < MaxOpen

SlotsFound == \A k \in 1 .. MaxTrades : phase # "allocation" \/ k < next => SlotFor(k)

Simulated ==
  /\ phase = "allocation" => active = {}
  /\ phase = "simulation" =>
       \A i \in active : Allocated!Taken(i) /\ \E m \in 1 .. next - 1 : i = turn[m]

AllocationInv == AllocationTyped /\ Walked /\ SlotsFound /\ Simulated

LEMMA AllocationCardinality == \A S : Allocated!Cardinality(S) = Cardinality(S)
BY DEF Allocated!Cardinality, Cardinality

LEMMA AllocationInitially == Allocated!Init => AllocationInv
<1> USE AllocationAssumption
<1> SUFFICES ASSUME Allocated!Init PROVE AllocationInv
  OBVIOUS
<1>1. /\ trade \in [1 .. MaxTrades -> Inputs] /\ open = {} /\ phase = "allocation" /\ next = 1
      /\ \A i, j \in 1 .. MaxTrades : i < j => trade[i].at <= trade[j].at
      /\ out = [i \in 1 .. MaxTrades |-> [fate |-> "unknown", exit |-> 0]]
      /\ active = {}
  BY DEF Allocated!Init, Allocated!Trades
<1>o. PICK place, symbol : paired \in Allocated!Results(place, symbol) /\ turn \in Allocated!Turns(place)
  BY DEF Allocated!Init
<1>b. \A f : f \in Allocated!Bijection(1 .. MaxTrades, 1 .. MaxTrades) =>
           /\ f \in [1 .. MaxTrades -> 1 .. MaxTrades]
           /\ \A m, n \in 1 .. MaxTrades : f[m] = f[n] => m = n
  BY DEF Allocated!Bijection, Allocated!Injection, Allocated!IsInjective
<1>p. /\ paired \in Allocated!Bijection(1 .. MaxTrades, 1 .. MaxTrades)
      /\ turn \in Allocated!Bijection(1 .. MaxTrades, 1 .. MaxTrades)
  BY <1>o, Zenon DEF Allocated!Results, Allocated!Turns, Allocated!Trades
<1>q. PairingTyped
  BY <1>b, <1>p DEF PairingTyped
<1>2. AllocationTyped
  BY <1>1, <1>q, AllocationAssumption DEF AllocationTyped, Allocated!Fates
<1>3. Cardinality({}) = 0
  BY FS_EmptySet
<1>4. \A i \in 1 .. MaxTrades : ~Allocated!Taken(i)
  BY <1>1 DEF Allocated!Taken
<1> QED BY <1>1, <1>2, <1>3, <1>4 DEF AllocationInv, Walked, SlotsFound, Simulated

LEMMA LabelsGrow ==
  ASSUME AllocationTyped, NEW i \in 1 .. MaxTrades, NEW j \in 1 .. MaxTrades, i <= j
  PROVE  /\ Allocated!Label(i) \in Int /\ Allocated!Label(j) \in Int
         /\ Allocated!Label(i) <= Allocated!Label(j)
         /\ Allocated!FullExit(i) \in Int
<1> USE AllocationAssumption
<1>p. paired[i] \in 1 .. MaxTrades
  BY DEF AllocationTyped, PairingTyped
<1>1. trade[i] \in Inputs /\ trade[j] \in Inputs /\ trade[paired[i]] \in Inputs /\ (i = j \/ i < j)
  BY <1>p DEF AllocationTyped
<1>2. trade[i].at <= trade[j].at
  BY <1>1, AllocationAssumption DEF AllocationTyped
<1> QED BY <1>1, <1>2, AllocationAssumption DEF Allocated!Label, Allocated!FullExit, Allocated!Result

LEMMA SmallerSets ==
  ASSUME NEW S, NEW T, IsFiniteSet(T), S \subseteq T
  PROVE  IsFiniteSet(S) /\ Cardinality(S) \in Nat /\ Cardinality(T) \in Nat
         /\ Cardinality(S) <= Cardinality(T)
BY FS_Subset, FS_CardinalityType

LEMMA OpenFinite ==
  ASSUME AllocationTyped, Walked, phase = "allocation"
  PROVE  /\ IsFiniteSet(open) /\ Cardinality(open) \in Nat
         /\ IsFiniteSet(Allocated!StillOpen) /\ Cardinality(Allocated!StillOpen) \in Nat
         /\ Cardinality(Allocated!StillOpen) <= MaxOpen
         /\ Allocated!StillOpen \subseteq open /\ next \notin open
<1> USE AllocationAssumption
<1>1. IsFiniteSet(1 .. next - 1) /\ next \notin 1 .. next - 1
  BY FS_Interval DEF AllocationTyped
<1>2. Allocated!StillOpen \subseteq open /\ open \subseteq 1 .. next - 1
  BY DEF Allocated!StillOpen, Walked
<1>3. IsFiniteSet(open)
  BY <1>1, <1>2, FS_Subset DEF Walked
<1>4. Cardinality(open) <= MaxOpen
  BY DEF Walked
<1>5. /\ IsFiniteSet(Allocated!StillOpen) /\ Cardinality(Allocated!StillOpen) \in Nat
      /\ Cardinality(open) \in Nat /\ Cardinality(Allocated!StillOpen) <= Cardinality(open)
  BY <1>2, <1>3, SmallerSets
<1>6. Cardinality(Allocated!StillOpen) <= MaxOpen
  BY <1>4, <1>5
<1>7. next \notin open
  BY <1>1, <1>2
<1> QED BY <1>2, <1>3, <1>5, <1>6, <1>7

(* What one trade of the walk does: it is over, open, or refused, and at   *)
(* most one open trade is cut off where it is entered.                     *)
Advanced ==
  /\ open' \subseteq Allocated!StillOpen \cup {next} /\ Cardinality(open') <= MaxOpen
  /\ out'[next].fate \in {"taken", "replaced"} <=> next \in open'
  /\ \A i \in 1 .. MaxTrades : i # next =>
       \/ out'[i] = out[i] /\ (i \in Allocated!StillOpen => i \in open')
       \/ /\ i \in Allocated!StillOpen /\ i \notin open'
          /\ out'[i].exit = Allocated!Label(next) /\ out'[i].fate = "replaced"

LEMMA AllocateAdvances ==
  ASSUME AllocationTyped, Walked, Allocated!Allocate
  PROVE  /\ phase = "allocation" /\ phase' = phase /\ UNCHANGED <<trade, paired, turn>>
         /\ next \in 1 .. MaxTrades /\ next' = next + 1
         /\ AllocationTyped' /\ Advanced
<1> USE AllocationAssumption
<1>1. /\ phase = "allocation" /\ phase' = phase /\ UNCHANGED <<trade, paired, turn>>
      /\ next \in 1 .. MaxTrades /\ next' = next + 1
  BY DEF Allocated!Allocate, Allocated!inputs, AllocationTyped
<1>2. /\ IsFiniteSet(Allocated!StillOpen) /\ Cardinality(Allocated!StillOpen) \in Nat
      /\ Cardinality(Allocated!StillOpen) <= MaxOpen
      /\ Allocated!StillOpen \subseteq open /\ next \notin open
      /\ open \subseteq 1 .. next - 1
  BY <1>1, OpenFinite DEF Walked
<1>3. Allocated!Label(next) \in Int /\ Allocated!FullExit(next) \in Int /\ MaxOpen \in Nat
  BY <1>1, LabelsGrow, AllocationAssumption
<1>4. out \in [1 .. MaxTrades -> [fate : Allocated!Fates, exit : Int]]
  BY DEF AllocationTyped
<1>5. Allocated!Take(next) \in [fate : Allocated!Fates, exit : Int]
  BY <1>3 DEF Allocated!Take, Allocated!Fates
<1>p. PairingTyped' /\ trade' = trade
  BY <1>1 DEF AllocationTyped, PairingTyped
<1>6. SUFFICES /\ out' \in [1 .. MaxTrades -> [fate : Allocated!Fates, exit : Int]]
               /\ Advanced
  BY <1>1, <1>p DEF AllocationTyped
<1>7. CASE Allocated!NoData
  <2>1. out' = [out EXCEPT ![next].fate = "no_data"] /\ open' = Allocated!StillOpen
    BY <1>7 DEF Allocated!NoData
  <2> QED BY <1>1, <1>2, <1>4, <2>1 DEF Advanced, Allocated!Fates
<1>8. CASE Allocated!SkipTrade
  <2>1. out' = [out EXCEPT ![next].fate = "skipped"] /\ open' = Allocated!StillOpen
    BY <1>8 DEF Allocated!SkipTrade
  <2> QED BY <1>1, <1>2, <1>4, <2>1 DEF Advanced, Allocated!Fates
<1>9. CASE Allocated!TakeTrade
  <2>1. /\ out' = [out EXCEPT ![next] = Allocated!Take(next)]
        /\ open' = Allocated!StillOpen \cup {next} /\ Cardinality(Allocated!StillOpen) < MaxOpen
    BY <1>9, AllocationCardinality DEF Allocated!TakeTrade
  <2>2. Cardinality(open') = Cardinality(Allocated!StillOpen) + 1
    BY <1>2, <2>1, FS_AddElement
  <2>3. out'[next] = Allocated!Take(next) /\ Allocated!Take(next).fate = "taken"
    BY <1>1, <1>4, <2>1 DEF Allocated!Take
  <2>4. \A i \in 1 .. MaxTrades : i # next => out'[i] = out[i]
    BY <1>4, <2>1
  <2>5. out' \in [1 .. MaxTrades -> [fate : Allocated!Fates, exit : Int]]
    BY <1>4, <1>5, <2>1
  <2> QED BY <1>2, <1>3, <2>1, <2>2, <2>3, <2>4, <2>5 DEF Advanced
<1>10. ASSUME NEW v \in Allocated!StillOpen, Allocated!ReplaceWeakest(v)
       PROVE  out' \in [1 .. MaxTrades -> [fate : Allocated!Fates, exit : Int]] /\ Advanced
  <2>1. /\ out' = [out EXCEPT ![v] = Allocated!Replaced(v), ![next] = Allocated!Take(next)]
        /\ open' = (Allocated!StillOpen \ {v}) \cup {next}
    BY <1>10 DEF Allocated!ReplaceWeakest
  <2>2. /\ IsFiniteSet(Allocated!StillOpen \ {v})
        /\ Cardinality(Allocated!StillOpen \ {v}) = Cardinality(Allocated!StillOpen) - 1
    BY <1>2, FS_RemoveElement
  <2>3. Cardinality(open') = Cardinality(Allocated!StillOpen)
    <3>1. next \notin Allocated!StillOpen \ {v}
      BY <1>2
    <3>2. Cardinality((Allocated!StillOpen \ {v}) \cup {next}) = Cardinality(Allocated!StillOpen \ {v}) + 1
      BY <2>2, <3>1, FS_AddElement
    <3> QED BY <1>2, <2>1, <2>2, <3>2
  <2>4. v \in 1 .. MaxTrades /\ v # next
    BY <1>1, <1>2
  <2>5. /\ out'[next] = Allocated!Take(next) /\ Allocated!Take(next).fate = "taken"
        /\ out'[v] = Allocated!Replaced(v) /\ Allocated!Replaced(v).fate = "replaced"
        /\ Allocated!Replaced(v).exit = Allocated!Label(next)
    BY <1>1, <1>4, <2>1, <2>4 DEF Allocated!Take, Allocated!Replaced
  <2>6. \A i \in 1 .. MaxTrades : i # next /\ i # v => out'[i] = out[i]
    BY <1>4, <2>1
  <2>7. Allocated!Replaced(v) \in [fate : Allocated!Fates, exit : Int]
    BY <1>3 DEF Allocated!Replaced, Allocated!Fates
  <2>8. out' \in [1 .. MaxTrades -> [fate : Allocated!Fates, exit : Int]]
    BY <1>4, <1>5, <2>1, <2>7
  <2> QED BY <1>2, <1>3, <2>1, <2>3, <2>4, <2>5, <2>6, <2>8 DEF Advanced
<1> QED BY <1>7, <1>8, <1>9, <1>10 DEF Allocated!Allocate

(* A trade that was looked at before keeps its slot.                       *)
LEMMA SlotsShrink ==
  ASSUME AllocationTyped, Walked, phase = "allocation", trade' = trade, next \in 1 .. MaxTrades,
         Advanced, NEW k \in 1 .. next - 1, SlotFor(k)
  PROVE  SlotFor(k)'
<1> USE AllocationAssumption
<1>1. next \in Nat /\ k \in 1 .. MaxTrades /\ k < next /\ IsFiniteSet(1 .. k)
  BY FS_Interval DEF AllocationTyped
<1>2. Allocated!Label(k) \in Int /\ Allocated!Label(next) \in Int /\ Allocated!Label(k) <= Allocated!Label(next)
  BY <1>1, LabelsGrow
<1>3. Allocated!Label(k)' = Allocated!Label(k)
  BY DEF Allocated!Label
<1>4. ASSUME NEW i \in 1 .. k, Allocated!Taken(i)'
      PROVE  Allocated!Taken(i) /\ (out'[i].exit > Allocated!Label(k) => out[i].exit > Allocated!Label(k))
  <2>1. i \in 1 .. MaxTrades /\ i # next
    BY <1>1
  <2>2. CASE out'[i] = out[i]
    BY <1>4, <2>2 DEF Allocated!Taken
  <2>3. CASE i \in Allocated!StillOpen
    <3>1. out[i].exit > Allocated!Label(next) /\ i \in open /\ out[i].exit \in Int
      BY <2>1, <2>3 DEF Allocated!StillOpen, AllocationTyped
    <3> QED BY <1>2, <3>1 DEF Walked
  <2> QED BY <2>1, <2>2, <2>3 DEF Advanced
<1>5. Allocated!OpenAt(k)' \subseteq Allocated!OpenAt(k) /\ Before(k)' \subseteq Before(k)
  BY <1>1, <1>3, <1>4 DEF Allocated!OpenAt, Before
<1>6. IsFiniteSet(Allocated!OpenAt(k)) /\ IsFiniteSet(Before(k))
  <2>1. Allocated!OpenAt(k) \subseteq 1 .. k /\ Before(k) \subseteq 1 .. k
    BY <1>1 DEF Allocated!OpenAt, Before
  <2> QED BY <1>1, <2>1, FS_Subset
<1>7. /\ Cardinality(Allocated!OpenAt(k)') <= Cardinality(Allocated!OpenAt(k))
      /\ Cardinality(Allocated!OpenAt(k)') \in Nat /\ Cardinality(Allocated!OpenAt(k)) \in Nat
      /\ Cardinality(Before(k)') <= Cardinality(Before(k))
      /\ Cardinality(Before(k)') \in Nat /\ Cardinality(Before(k)) \in Nat
  BY <1>5, <1>6, SmallerSets
<1>8. Allocated!Taken(k)' => Allocated!Taken(k)
  BY <1>1, <1>4
<1> QED BY <1>7, <1>8, AllocationAssumption DEF SlotFor

LEMMA AllocateKeeps ==
  ASSUME AllocationInv, Allocated!Allocate
  PROVE  AllocationInv'
<1> USE AllocationAssumption
<1>1. AllocationTyped /\ Walked /\ SlotsFound
  BY DEF AllocationInv
<1>2. /\ phase = "allocation" /\ phase' = phase /\ UNCHANGED <<trade, paired, turn>>
      /\ next \in 1 .. MaxTrades /\ next' = next + 1
      /\ AllocationTyped' /\ Advanced
  BY <1>1, AllocateAdvances
<1>n. PICK n \in 1 .. MaxTrades : n = next
  BY <1>2
<1>3. /\ IsFiniteSet(Allocated!StillOpen) /\ Allocated!StillOpen \subseteq open
      /\ open \subseteq 1 .. next - 1 /\ next \notin open
  BY <1>1, <1>2, OpenFinite DEF Walked
<1>4. Allocated!Label(n)' = Allocated!Label(n) /\ Allocated!Label(n) \in Int
  BY <1>1, <1>2, LabelsGrow DEF Allocated!Label
(* Whatever was taken and is not over when next is entered is open.        *)
<1>5. ASSUME NEW i \in 1 .. n, Allocated!Taken(i)'
      PROVE  i \in open' \/ out'[i].exit <= Allocated!Label(n)
  <2>1. CASE i = n
    BY <1>n, <1>2, <1>5, <2>1 DEF Advanced, Allocated!Taken
  <2>2. CASE i # n
    <3>1. i \in 1 .. n - 1 /\ i \in 1 .. MaxTrades
      BY <1>n, <1>2, <2>2
    <3>2. CASE out'[i] = out[i] /\ (i \in Allocated!StillOpen => i \in open')
      <4>1. Allocated!Taken(i) /\ out[i].exit \in Int
        BY <1>1, <1>5, <3>1, <3>2 DEF Allocated!Taken, AllocationTyped
      <4>2. CASE i \in open
        BY <1>n, <1>4, <3>2, <4>1, <4>2 DEF Allocated!StillOpen
      <4>3. CASE out[i].exit <= Allocated!Label(n - 1)
        <5>1. /\ Allocated!Label(n - 1) \in Int
              /\ Allocated!Label(n - 1) <= Allocated!Label(n)
          <6>1. n - 1 \in 1 .. MaxTrades /\ n - 1 <= n
            BY <1>n, <1>2, <3>1
          <6> QED BY <1>n, <1>1, <1>2, <6>1, LabelsGrow
        <5> QED BY <1>n, <1>4, <3>2, <4>1, <4>3, <5>1
      <4> QED BY <1>n, <1>1, <1>2, <3>1, <4>1, <4>2, <4>3 DEF Walked
    <3>3. CASE out'[i].exit = Allocated!Label(n)
      BY <1>n, <1>4, <3>3
    <3> QED BY <1>n, <1>2, <2>2, <3>1, <3>2, <3>3 DEF Advanced
  <2> QED BY <2>1, <2>2
<1>6. open' \subseteq 1 .. n /\ IsFiniteSet(open') /\ Cardinality(open') \in Nat
  <2>1. open' \subseteq 1 .. n
    BY <1>n, <1>2, <1>3 DEF Advanced
  <2>2. IsFiniteSet(1 .. n)
    BY <1>n, FS_Interval
  <2> QED BY <2>1, <2>2, FS_Subset, FS_CardinalityType
<1>7. Walked'
  <2>1. \A i \in open' : Allocated!Taken(i)'
    BY <1>n, <1>1, <1>2, <1>3 DEF Advanced, Walked, Allocated!Taken
  <2>2. \A i \in 1 .. MaxTrades : i >= n + 1 => ~Allocated!Taken(i)'
    BY <1>n, <1>1, <1>2, <1>3 DEF Advanced, Walked, Allocated!Taken
  <2>3. (n + 1) - 1 = n
    BY <1>n, <1>2
  <2> QED BY <1>n, <1>2, <1>4, <1>5, <1>6, <2>1, <2>2, <2>3 DEF Walked, Advanced
<1>8. SlotFor(n)'
  <2>1. Allocated!OpenAt(n)' \subseteq open' /\ Before(n)' \subseteq open' \ {n}
    <3>1. \A i \in 1 .. n : out'[i].exit \in Int
      BY <1>n, <1>2 DEF AllocationTyped
    <3> QED BY <1>n, <1>2, <1>4, <1>5, <3>1 DEF Allocated!OpenAt, Before
  <2>2. Cardinality(Allocated!OpenAt(n)') <= MaxOpen
    BY <1>n, <1>2, <1>6, <2>1, SmallerSets, AllocationAssumption DEF Advanced
  <2>3. ASSUME Allocated!Taken(n)' PROVE Cardinality(Before(n)') < MaxOpen
    <3>1. n \in open'
      BY <1>n, <1>2, <2>3 DEF Advanced, Allocated!Taken
    <3>2. IsFiniteSet(open' \ {n}) /\ Cardinality(open' \ {n}) = Cardinality(open') - 1
      BY <1>6, <3>1, FS_RemoveElement
    <3> QED BY <1>n, <1>2, <1>6, <2>1, <3>2, SmallerSets, AllocationAssumption DEF Advanced
  <2> QED BY <2>2, <2>3 DEF SlotFor
<1>9. SlotsFound'
  <2>1. \A k \in 1 .. MaxTrades : k < n + 1 => k = n \/ k \in 1 .. n - 1
    BY <1>n, <1>2
  <2>2. \A k \in 1 .. n - 1 : SlotFor(k)
    BY <1>n, <1>1, <1>2 DEF SlotsFound
  <2>3. \A k \in 1 .. n - 1 : SlotFor(k)'
    BY <1>n, <1>1, <1>2, <2>2, SlotsShrink
  <2> QED BY <1>n, <1>2, <1>8, <2>1, <2>3 DEF SlotsFound
<1>10. active' = active
  BY DEF Allocated!Allocate, Allocated!simVars
<1> QED BY <1>n, <1>2, <1>7, <1>9, <1>10 DEF AllocationInv, Simulated

LEMMA AllocationStepKeeps == AllocationInv /\ (Allocated!Next \/ UNCHANGED allocVars) => AllocationInv'
<1> USE AllocationAssumption
<1> SUFFICES ASSUME AllocationInv, Allocated!Next \/ UNCHANGED allocVars PROVE AllocationInv'
  OBVIOUS
<1>1. CASE Allocated!Allocate
  BY <1>1, AllocateKeeps
<1> DEFINE Fixed == UNCHANGED <<trade, paired, turn, out>>
<1>2. ASSUME Fixed, NEW k \in 1 .. MaxTrades, SlotFor(k) PROVE SlotFor(k)'
  BY <1>2 DEF SlotFor, Allocated!OpenAt, Before, Allocated!Taken, Allocated!Label
<1>3. CASE Allocated!StartSimulation
  <2>1. /\ Fixed /\ phase = "allocation" /\ next > MaxTrades /\ phase' = "simulation" /\ next' = 1
        /\ active' = active
    BY <1>3 DEF Allocated!StartSimulation, Allocated!inputs, Allocated!allocVars, Allocated!simVars
  <2>p. PairingTyped'
    BY <2>1 DEF AllocationInv, AllocationTyped, PairingTyped
  <2>2. AllocationTyped'
    BY <2>1, <2>p, AllocationAssumption DEF AllocationInv, AllocationTyped
  <2>3. SlotsFound'
    BY <1>2, <2>1 DEF AllocationInv, SlotsFound, AllocationTyped
  <2> QED BY <2>1, <2>2, <2>3 DEF AllocationInv, Walked, Simulated
<1>4. CASE Allocated!Simulate
  <2>1. /\ Fixed /\ phase = "simulation" /\ next \in 1 .. MaxTrades /\ phase' = phase
        /\ next' = next + 1
    BY <1>4 DEF Allocated!Simulate, Allocated!inputs, Allocated!allocVars, AllocationInv,
                AllocationTyped
  <2>2. AllocationTyped' /\ SlotsFound'
    BY <1>2, <2>1 DEF AllocationInv, AllocationTyped, PairingTyped, SlotsFound
  <2>3. active' \subseteq active \/ (Allocated!Taken(turn[next]) /\ active' \subseteq active \cup {turn[next]})
    BY <1>4 DEF Allocated!Simulate, Allocated!SimulateTrade, Allocated!PassOver, Allocated!simVars,
                Allocated!Exited
  <2>4. \A i \in active : Allocated!Taken(i) /\ \E m \in 1 .. next - 1 : i = turn[m]
    BY <2>1 DEF AllocationInv, Simulated
  <2>5. \A i : Allocated!Taken(i)' <=> Allocated!Taken(i)
    BY <2>1 DEF Allocated!Taken
  <2>6. next' - 1 = next /\ next \in 1 .. next /\ 1 .. next - 1 \subseteq 1 .. next /\ turn' = turn
    BY <2>1
  <2>7. Simulated'
    BY <2>1, <2>3, <2>4, <2>5, <2>6 DEF Simulated
  <2> QED BY <2>1, <2>2, <2>7 DEF AllocationInv, Walked
<1>5. CASE Allocated!Finish
  <2>1. Fixed /\ next' = next /\ phase' = "done" /\ phase = "simulation"
    BY <1>5 DEF Allocated!Finish, Allocated!inputs, Allocated!allocVars
  <2> QED BY <1>2, <2>1 DEF AllocationInv, AllocationTyped, PairingTyped, Walked, SlotsFound, Simulated
<1>6. CASE UNCHANGED allocVars
  <2>1. UNCHANGED <<trade, paired, turn, out, phase, next, open, active>>
    BY <1>6 DEF allocVars
  <2> QED BY <1>2, <2>1 DEF AllocationInv, AllocationTyped, PairingTyped, Walked, SlotsFound,
                            Simulated, Allocated!Taken, Allocated!Label
<1> QED BY <1>1, <1>3, <1>4, <1>5, <1>6 DEF Allocated!Next

(* Positions that the simulation has not evicted by itself held a slot     *)
(* when the trade was allocated.                                           *)
LEMMA SlotsAreKept == AllocationInv => Allocated!CapKept /\ Allocated!TakenHasSlot
<1> USE AllocationAssumption
<1> SUFFICES ASSUME AllocationInv PROVE Allocated!CapKept /\ Allocated!TakenHasSlot
  OBVIOUS
<1>1. Allocated!CapKept
  BY AllocationCardinality DEF AllocationInv, SlotsFound, SlotFor, Allocated!CapKept, Allocated!Trades
<1>2. ASSUME Allocated!SameOrder, phase = "simulation", next <= MaxTrades, Allocated!Taken(turn[next])
      PROVE  Allocated!Opens > 0
  <2>1. next \in 1 .. MaxTrades /\ next \in Nat
    BY <1>2 DEF AllocationInv, AllocationTyped
  <2>o. turn[next] = next /\ paired[next] = next /\ Allocated!Now = Allocated!Label(next)
    BY <1>2, <2>1 DEF Allocated!SameOrder, Allocated!Trades, Allocated!Now, Allocated!Entered
  <2>2. active \ Allocated!Exited \subseteq Before(next)
    <3>1. active \subseteq {i \in 1 .. next - 1 : Allocated!Taken(i)}
      <4>1. \A m \in 1 .. next - 1 : turn[m] = m
        BY <1>2, <2>1 DEF Allocated!SameOrder, Allocated!Trades
      <4> QED BY <1>2, <4>1 DEF AllocationInv, Simulated
    <3>2. ASSUME NEW i \in active, i \notin Allocated!Exited
          PROVE  i \in Before(next)
      <4>0. ~(out[i].exit <= Allocated!Now)
        BY <3>2 DEF Allocated!Exited
      <4>1. i \in 1 .. next - 1 /\ Allocated!Taken(i) /\ ~(out[i].exit <= Allocated!Label(next))
        BY <2>o, <3>1, <4>0
      <4>2. Allocated!Label(next) \in Int /\ out[i].exit \in Int
        BY <2>1, <4>1, LabelsGrow DEF AllocationInv, AllocationTyped
      <4> QED BY <4>1, <4>2 DEF Before
    <3> QED BY <3>2
  <2>3. IsFiniteSet(Before(next))
    <3>1. Before(next) \subseteq 1 .. next - 1
      BY DEF Before
    <3>2. IsFiniteSet(1 .. next - 1)
      BY <2>1, FS_Interval
    <3> QED BY <3>1, <3>2, FS_Subset
  <2>4. Cardinality(Before(next)) < MaxOpen
    BY <1>2, <2>1, <2>o DEF AllocationInv, SlotsFound, SlotFor
  <2> QED BY <2>2, <2>3, <2>4, SmallerSets, AllocationCardinality, AllocationAssumption
          DEF Allocated!Opens
<1> QED BY <1>1, <1>2 DEF Allocated!TakenHasSlot

(* However trades are paired with entries, taken, replaced and cut short,  *)
(* max_concurrent holds at every entry as the walk dates the trades; and   *)
(* when the results come in the order of the entries, the simulation,      *)
(* which evicts by itself, has a slot for each trade taken                 *)
(* (apply_allocation, compute_portfolio_sim).                              *)
THEOREM SlotsStayKept == Spec => []SlotsKept
<1> DEFINE Inv == part = "allocation" => AllocationInv
<1>1. Init => Inv
  BY AllocationInitially DEF Init
<1>2. Inv /\ [Next]_vars => Inv'
  <2> SUFFICES ASSUME Inv, [Next]_vars, part' = "allocation" PROVE AllocationInv'
    OBVIOUS
  <2>1. part = "allocation"
    BY DEF Next, vars
  <2> QED BY <2>1, AllocationStep, AllocationStepKeeps
<1>3. Inv => SlotsKept
  BY SlotsAreKept DEF SlotsKept
<1> QED BY <1>1, <1>2, <1>3, PTL DEF Spec

-----------------------------------------------------------------------------
(* The money of an allocation.                                             *)

(* What the cash, the pending proceeds and the positions are worth.        *)
Balances(money, proceeds, owed, spent, positions, profit, all) ==
  money + SumOver(proceeds, owed) + SumOver(spent, positions) = Start + SumOver(profit, all \ positions)

(* The sums over two parts.                                                *)
LEMMA PartSums ==
  ASSUME NEW T, IsFiniteSet(T), NEW f \in [T -> Int], NEW A, A \subseteq T, NEW B, B \subseteq T,
         A \cap B = {}
  PROVE  /\ SumOver(f, A \cup B) = SumOver(f, A) + SumOver(f, B)
         /\ SumOver(f, A) \in Int /\ SumOver(f, B) \in Int
<1>1. IsFiniteSet(A) /\ IsFiniteSet(B)
  BY FS_Subset
<1>2. \A x \in A \cup B : f[x] \in Int
  OBVIOUS
<1> QED BY <1>1, <1>2, SumUnion

(* Positions that close pay what they hold to what is owed, and some of it *)
(* becomes cash.                                                           *)
LEMMA ClosingBalances ==
  ASSUME NEW T, IsFiniteSet(T), NEW P \in [T -> Int], NEW V \in [T -> Int], NEW D \in [T -> Int],
         \A i \in T : D[i] = P[i] - V[i],
         NEW A, A \subseteq T, NEW K, K \subseteq T, K \cap A = {},
         NEW X, X \subseteq A, NEW M, M \subseteq K \cup X, NEW money \in Int,
         Start \in Int, Balances(money, P, K, V, A, D, T)
  PROVE  Balances(money + SumOver(P, M), P, (K \cup X) \ M, V, A \ X, D, T)
<1>1. /\ SumOver(P, K \cup X) = SumOver(P, K) + SumOver(P, X)
      /\ SumOver(P, K) \in Int /\ SumOver(P, X) \in Int
  <2>1. X \subseteq T /\ K \cap X = {}
    OBVIOUS
  <2> QED BY <2>1, PartSums
<1>2. /\ SumOver(P, K \cup X) = SumOver(P, M) + SumOver(P, (K \cup X) \ M)
      /\ SumOver(P, M) \in Int /\ SumOver(P, (K \cup X) \ M) \in Int
  <2> DEFINE R == (K \cup X) \ M
  <2>1. M \subseteq T /\ R \subseteq T /\ M \cap R = {} /\ M \cup R = K \cup X
    OBVIOUS
  <2> HIDE DEF R
  <2>2. /\ SumOver(P, M \cup R) = SumOver(P, M) + SumOver(P, R)
        /\ SumOver(P, M) \in Int /\ SumOver(P, R) \in Int
    BY <2>1, PartSums
  <2> QED BY <2>1, <2>2 DEF R
<1>3. /\ SumOver(V, A) = SumOver(V, A \ X) + SumOver(V, X)
      /\ SumOver(V, A \ X) \in Int /\ SumOver(V, X) \in Int
  <2> DEFINE R == A \ X
  <2>1. X \subseteq T /\ R \subseteq T /\ R \cap X = {} /\ R \cup X = A
    OBVIOUS
  <2> HIDE DEF R
  <2>2. /\ SumOver(V, R \cup X) = SumOver(V, R) + SumOver(V, X)
        /\ SumOver(V, R) \in Int /\ SumOver(V, X) \in Int
    BY <2>1, PartSums
  <2> QED BY <2>1, <2>2 DEF R
<1>4. /\ SumOver(D, T \ (A \ X)) = SumOver(D, T \ A) + SumOver(D, X)
      /\ SumOver(D, T \ A) \in Int /\ SumOver(D, X) \in Int
  <2> DEFINE R == T \ A
             W == T \ (A \ X)
  <2>1. X \subseteq T /\ R \subseteq T /\ R \cap X = {} /\ R \cup X = W
    OBVIOUS
  <2> HIDE DEF R, W
  <2>2. /\ SumOver(D, R \cup X) = SumOver(D, R) + SumOver(D, X)
        /\ SumOver(D, R) \in Int /\ SumOver(D, X) \in Int
    BY <2>1, PartSums
  <2> QED BY <2>1, <2>2 DEF R, W
<1>5. SumOver(D, X) = SumOver(P, X) - SumOver(V, X)
  <2>1. IsFiniteSet(X) /\ \A i \in X : P[i] \in Int /\ V[i] \in Int /\ D[i] = P[i] - V[i]
    BY FS_Subset
  <2> QED BY <2>1, SumOfDifferences
<1> QED BY <1>1, <1>2, <1>3, <1>4, <1>5 DEF Balances

(* A position that is opened costs its size, and has earned nothing yet.   *)
LEMMA OpeningBalances ==
  ASSUME NEW T, IsFiniteSet(T), NEW P \in [T -> Int], NEW V \in [T -> Int], NEW D \in [T -> Int],
         NEW P1 \in [T -> Int], NEW V1 \in [T -> Int], NEW D1 \in [T -> Int],
         NEW k \in T, \A i \in T \ {k} : P1[i] = P[i] /\ V1[i] = V[i] /\ D1[i] = D[i],
         D[k] = 0,
         NEW A, A \subseteq T \ {k}, NEW K, K \subseteq T \ {k}, NEW money \in Int,
         Start \in Int, Balances(money, P, K, V, A, D, T)
  PROVE  Balances(money - V1[k], P1, K, V1, A \cup {k}, D1, T)
<1>1. SumOver(P1, K) = SumOver(P, K) /\ SumOver(P, K) \in Int
  <2>1. IsFiniteSet(K) /\ (\A i \in K : P[i] \in Int) /\ \A i \in K : P1[i] = P[i]
    BY FS_Subset
  <2> QED BY <2>1, SumOfEquals, SumFacts
<1>2. /\ SumOver(V1, A \cup {k}) = SumOver(V, A) + V1[k]
      /\ SumOver(V, A) \in Int /\ V1[k] \in Int
  <2>1. IsFiniteSet(A) /\ (\A i \in A : V1[i] \in Int /\ V1[i] = V[i]) /\ k \notin A /\ V1[k] \in Int
    BY FS_Subset
  <2>2. SumOver(V1, A \cup {k}) = SumOver(V1, A) + V1[k] /\ SumOver(V1, A) \in Int
    BY <2>1, SumAdds
  <2>3. SumOver(V1, A) = SumOver(V, A)
    BY <2>1, SumOfEquals
  <2> QED BY <2>1, <2>2, <2>3
<1>3. SumOver(D1, T \ (A \cup {k})) = SumOver(D, T \ A) /\ SumOver(D, T \ A) \in Int
  <2> DEFINE R == T \ A
             W == T \ (A \cup {k})
  <2>1. /\ IsFiniteSet(R) /\ k \in R /\ R \ {k} = W
        /\ (\A i \in R : D[i] \in Int) /\ \A i \in W : D1[i] = D[i]
    BY FS_Subset
  <2>2. SumOver(D1, W) = SumOver(D, W)
    <3> HIDE DEF R, W
    <3> QED BY <2>1, SumOfEquals
  <2>3. SumOver(D, R) = D[k] + SumOver(D, R \ {k})
    <3> HIDE DEF R, W
    <3> QED BY <2>1, SumTakesOut
  <2>4. SumOver(D, W) \in Int
    <3>1. IsFiniteSet(W) /\ \A i \in W : D[i] \in Int
      BY FS_Subset
    <3> HIDE DEF W
    <3> QED BY <3>1, SumFacts
  <2> HIDE DEF R, W
  <2>5. SumOver(D, R) = 0 + SumOver(D, W)
    BY <2>1, <2>3
  <2>6. SumOver(D1, W) = SumOver(D, R) /\ SumOver(D, R) \in Int
    BY <2>2, <2>4, <2>5
  <2> QED BY <2>6 DEF R, W
<1> QED BY <1>1, <1>2, <1>3 DEF Balances

-----------------------------------------------------------------------------
(* The sums of Allocation.                                                 *)

(* The sums of the module are sums over sets of trades.                    *)
LEMMA AmountsIsSum ==
  ASSUME NEW S
  PROVE  Allocated!Amounts(S) = SumOver([c \in S |-> c.amount], S)
<1>1. PICK f : f = [c \in S |-> c.amount]
  OBVIOUS
<1>2. \A h : [s \in SUBSET S |-> IF s = {} THEN 0 ELSE Chosen(s).amount + h[s \ {Chosen(s)}]]
           = [s \in SUBSET S |-> IF s = {} THEN 0 ELSE f[Chosen(s)] + h[s \ {Chosen(s)}]]
  BY <1>1 DEF Chosen
<1>3. (CHOOSE h : h = [s \in SUBSET S |-> IF s = {} THEN 0
                           ELSE Chosen(s).amount + h[s \ {Chosen(s)}]])
    = (CHOOSE h : h = [s \in SUBSET S |-> IF s = {} THEN 0
                           ELSE f[Chosen(s)] + h[s \ {Chosen(s)}]])
  BY <1>2, Zenon
<1>4. SumOver(f, S) = (CHOOSE h : h = [s \in SUBSET S |-> IF s = {} THEN 0
                           ELSE f[Chosen(s)] + h[s \ {Chosen(s)}]])[S]
  BY DEF SumOver, Summing
<1>5. Allocated!Amounts(S) =
        (CHOOSE h : h = [s \in SUBSET S |-> IF s = {} THEN 0
                           ELSE Chosen(s).amount + h[s \ {Chosen(s)}]])[S]
  BY DEF Chosen, Allocated!Amounts, Allocated!MapThenSumSet, Allocated!MapThenFoldSet
<1> QED BY <1>1, <1>3, <1>4, <1>5

LEMMA InvestedIsSum ==
  ASSUME NEW f, NEW S
  PROVE  Allocated!MapThenSumSet(LAMBDA i : f[i], S) = SumOver(f, S)
<1>1. SumOver(f, S) = (CHOOSE h : h = [s \in SUBSET S |-> IF s = {} THEN 0
                           ELSE f[Chosen(s)] + h[s \ {Chosen(s)}]])[S]
  BY DEF SumOver, Summing
<1> QED BY <1>1 DEF Chosen, Allocated!MapThenSumSet, Allocated!MapThenFoldSet

(* What a result has gained when it is sold.                               *)
GainOf(signals, order, results, i) ==
  IF results[i].exit < signals[order[i]].at THEN 0
  ELSE signals[order[i]].drift * (results[i].exit - signals[order[i]].at)

(* Proceeds, of what was invested and when it is sold.                     *)
ProceedsOf(V, signals, order, results) ==
  [i \in 1 .. MaxTrades |->
     V[i] + (V[i] * GainOf(signals, order, results, i)) \div 10]

LEMMA ProfitIsSum ==
  ASSUME NEW S
  PROVE  Allocated!MapThenSumSet(LAMBDA i : Allocated!Proceeds(i) - invested[i], S)
           = SumOver([i \in S |-> Allocated!Proceeds(i) - invested[i]], S)
<1> DEFINE F(i) == Allocated!Proceeds(i) - invested[i]
<1>0. PICK D : D = [i \in S |-> F(i)]
  OBVIOUS
<1>1. \A i \in S : F(i) = D[i]
  BY <1>0
<1>2. \A h : [s \in SUBSET S |-> IF s = {} THEN 0 ELSE F(Chosen(s)) + h[s \ {Chosen(s)}]]
           = [s \in SUBSET S |-> IF s = {} THEN 0 ELSE D[Chosen(s)] + h[s \ {Chosen(s)}]]
  <2>1. ASSUME NEW s \in SUBSET S, s # {} PROVE F(Chosen(s)) = D[Chosen(s)]
    <3>1. Chosen(s) \in S
      BY <2>1 DEF Chosen
    <3> QED BY <1>1, <3>1
  <2>2. ASSUME NEW h, NEW s \in SUBSET S
        PROVE  (IF s = {} THEN 0 ELSE F(Chosen(s)) + h[s \ {Chosen(s)}])
                 = (IF s = {} THEN 0 ELSE D[Chosen(s)] + h[s \ {Chosen(s)}])
    BY <2>1
  <2> QED BY <2>2
<1>3. (CHOOSE h : h = [s \in SUBSET S |-> IF s = {} THEN 0
                           ELSE F(Chosen(s)) + h[s \ {Chosen(s)}]])
    = (CHOOSE h : h = [s \in SUBSET S |-> IF s = {} THEN 0
                           ELSE D[Chosen(s)] + h[s \ {Chosen(s)}]])
  BY <1>2, Zenon
<1>4. SumOver(D, S) = (CHOOSE h : h = [s \in SUBSET S |-> IF s = {} THEN 0
                           ELSE D[Chosen(s)] + h[s \ {Chosen(s)}]])[S]
  BY DEF SumOver, Summing
<1>5. Allocated!MapThenSumSet(LAMBDA i : Allocated!Proceeds(i) - invested[i], S) =
        (CHOOSE h : h = [s \in SUBSET S |-> IF s = {} THEN 0
                           ELSE F(Chosen(s)) + h[s \ {Chosen(s)}]])[S]
  BY DEF Chosen, Allocated!MapThenSumSet, Allocated!MapThenFoldSet
<1> QED BY <1>0, <1>3, <1>4, <1>5

AllTrades == 1 .. MaxTrades

ProfitsOf(V, signals, order, results) ==
  [i \in AllTrades |-> ProceedsOf(V, signals, order, results)[i] - V[i]]

Owed == {c.trade : c \in pending}

MoneyTyped ==
  /\ cash \in Int /\ invested \in [AllTrades -> Int] /\ active \subseteq AllTrades
  /\ \A c \in pending : c.trade \in AllTrades \ active /\ c = Allocated!Credit(c.trade)
  /\ phase = "allocation" =>
       cash = Start /\ active = {} /\ pending = {} /\ \A i \in AllTrades : invested[i] = 0
  /\ phase = "simulation" =>
       \A n \in AllTrades : n >= next =>
         invested[turn[n]] = 0 /\ turn[n] \notin active /\ turn[n] \notin Owed

Balanced == Balances(cash, ProceedsOf(invested, trade, paired, out), Owed, invested, active,
                     ProfitsOf(invested, trade, paired, out), AllTrades)

(* The inductive invariant of the simulation: each credit that is pending  *)
(* is what its trade, no longer held, returns, and the sums balance.       *)
MoneyInv == MoneyTyped /\ Balanced

(* What trades earn is a whole number of dollars.                          *)
LEMMA ProceedsTyped ==
  ASSUME AllocationTyped, NEW V \in [AllTrades -> Int]
  PROVE  /\ ProceedsOf(V, trade, paired, out) \in [AllTrades -> Int]
         /\ ProfitsOf(V, trade, paired, out) \in [AllTrades -> Int]
         /\ \A i \in AllTrades : /\ V[i] = 0 => ProfitsOf(V, trade, paired, out)[i] = 0
                                 /\ out[i].exit + Delay \in Int /\ Allocated!Label(i) \in Int
         /\ IsFiniteSet(AllTrades)
<1>1. ASSUME NEW i \in AllTrades
      PROVE  /\ ProceedsOf(V, trade, paired, out)[i] \in Int
             /\ V[i] = 0 => ProceedsOf(V, trade, paired, out)[i] = 0
             /\ out[i].exit + Delay \in Int /\ Allocated!Label(i) \in Int
  <2>1. /\ trade[i].at \in Int /\ out[i].exit \in Int /\ V[i] \in Int
        /\ trade[paired[i]].at \in Int /\ trade[paired[i]].drift \in Int
        /\ Delay \in Int /\ Offset \in Int
    BY AllocationAssumption DEF AllocationTyped, PairingTyped, AllTrades
  <2>2. PICK p \in Int : p = GainOf(trade, paired, out, i)
    BY <2>1 DEF GainOf
  <2>3. V[i] * p \in Int /\ (V[i] = 0 => V[i] * p = 0)
    BY <2>1, <2>2
  <2>4. (V[i] * p) \div 10 \in Int /\ (V[i] = 0 => (V[i] * p) \div 10 = 0)
    BY <2>3
  <2>5. ProceedsOf(V, trade, paired, out)[i] = V[i] + (V[i] * p) \div 10
    BY <2>2 DEF ProceedsOf, AllTrades
  <2> QED BY <2>1, <2>4, <2>5 DEF Allocated!Label
<1>2. IsFiniteSet(AllTrades)
  BY AllocationAssumption, FS_Interval DEF AllTrades
<1>3. ProceedsOf(V, trade, paired, out) \in [AllTrades -> Int]
  BY <1>1 DEF ProceedsOf, AllTrades
<1>4. \A i \in AllTrades : ProfitsOf(V, trade, paired, out)[i] = ProceedsOf(V, trade, paired, out)[i] - V[i]
  BY DEF ProfitsOf
<1>5. \A i \in AllTrades : ProfitsOf(V, trade, paired, out)[i] \in Int
  BY <1>1, <1>4
<1>6. ProfitsOf(V, trade, paired, out) \in [AllTrades -> Int]
  BY <1>5 DEF ProfitsOf
<1> QED BY <1>1, <1>2, <1>3, <1>4, <1>6

LEMMA CreditIs ==
  ASSUME NEW i \in AllTrades
  PROVE  /\ Allocated!Credit(i).trade = i /\ Allocated!Credit(i).at = out[i].exit + Delay
         /\ Allocated!Credit(i).amount = ProceedsOf(invested, trade, paired, out)[i]
BY DEF Allocated!Credit, Allocated!Proceeds, Allocated!GainAt, Allocated!Result, GainOf, ProceedsOf,
       AllTrades

(* Credits of different trades differ, so none is lost in a set of them.   *)
LEMMA CreditsSum ==
  ASSUME AllocationTyped, invested \in [AllTrades -> Int], NEW K, K \subseteq AllTrades
  PROVE  Allocated!Amounts({Allocated!Credit(i) : i \in K})
           = SumOver(ProceedsOf(invested, trade, paired, out), K)
<1> DEFINE cr == [i \in K |-> Allocated!Credit(i)]
           C == {cr[i] : i \in K}
           am == [c \in C |-> c.amount]
           P == ProceedsOf(invested, trade, paired, out)
<1>1. P \in [AllTrades -> Int] /\ IsFiniteSet(K)
  BY ProceedsTyped, FS_Subset
<1>2. \A i \in K : cr[i].trade = i /\ am[cr[i]] = P[i]
  BY CreditIs
<1>3. C = {Allocated!Credit(i) : i \in K}
  OBVIOUS
<1>4. Allocated!Amounts(C) = SumOver(am, C)
  <2> HIDE DEF C
  <2> QED BY AmountsIsSum
<1> HIDE DEF cr, am, P
<1>5. \A i, j \in K : cr[i] = cr[j] => i = j
  BY <1>2
<1>6. \A i \in K : am[cr[i]] \in Int
  BY <1>1, <1>2
<1>7. SumOver(am, {cr[i] : i \in K}) = SumOver([i \in K |-> am[cr[i]]], K)
  BY <1>1, <1>5, <1>6, SumImage
<1>8. SumOver([i \in K |-> am[cr[i]]], K) = SumOver(P, K)
  <2> DEFINE g == [i \in K |-> am[cr[i]]]
  <2>1. \A i \in K : g[i] = P[i]
    BY <1>2
  <2> HIDE DEF g
  <2>2. SumOver(g, K) = SumOver(P, K)
    BY <2>1, SumOfEquals
  <2> QED BY <2>2 DEF g
<1> QED BY <1>3, <1>4, <1>7, <1>8 DEF P

LEMMA PendingIs ==
  ASSUME MoneyTyped
  PROVE  /\ pending = {Allocated!Credit(i) : i \in Owed}
         /\ Owed \subseteq AllTrades /\ Owed \cap active = {}
<1>1. \A c \in pending : c.trade \in AllTrades \ active /\ c = Allocated!Credit(c.trade)
  BY DEF MoneyTyped
<1>2. \A i \in Owed : \E c \in pending : i = c.trade
  BY DEF Owed
<1>3. \A c \in pending : c.trade \in Owed
  BY DEF Owed
<1> QED BY <1>1, <1>2, <1>3

LEMMA MoneyTold == AllocationTyped /\ MoneyInv => Allocated!MoneyConserved
<1> SUFFICES ASSUME AllocationTyped, MoneyInv PROVE Allocated!MoneyConserved
  OBVIOUS
<1> DEFINE P == ProceedsOf(invested, trade, paired, out)
           D == ProfitsOf(invested, trade, paired, out)
<1>1. Allocated!Amounts(pending) = SumOver(P, Owed)
  BY PendingIs, CreditsSum DEF MoneyInv, MoneyTyped
<1>2. PICK V : V = invested
  OBVIOUS
<1>3. Allocated!MapThenSumSet(LAMBDA i : invested[i], active) = SumOver(invested, active)
  <2>1. Allocated!MapThenSumSet(LAMBDA i : V[i], active) = SumOver(V, active)
    BY InvestedIsSum
  <2> QED BY <1>2, <2>1 DEF Allocated!MapThenSumSet, Allocated!MapThenFoldSet
<1>5. Allocated!MapThenSumSet(LAMBDA i : Allocated!Proceeds(i) - invested[i],
                              Allocated!Trades \ active) = SumOver(D, AllTrades \ active)
  <2>1. PICK S : S = AllTrades \ active
    OBVIOUS
  <2> DEFINE E == [i \in S |-> Allocated!Proceeds(i) - invested[i]]
  <2>2. Allocated!MapThenSumSet(LAMBDA i : Allocated!Proceeds(i) - invested[i], S) = SumOver(E, S)
    BY ProfitIsSum
  <2>3. \A i \in S : E[i] = D[i]
    BY <2>1 DEF AllTrades, ProfitsOf, ProceedsOf, GainOf, Allocated!Proceeds, Allocated!GainAt,
       Allocated!Result
  <2>4. SumOver(E, S) = SumOver(D, S)
    <3> HIDE DEF E, D
    <3> QED BY <2>3, SumOfEquals
  <2>5. Allocated!Trades \ active = S
    BY <2>1 DEF Allocated!Trades, AllTrades
  <2> HIDE DEF E, D
  <2>6. Allocated!MapThenSumSet(LAMBDA i : Allocated!Proceeds(i) - invested[i],
                                Allocated!Trades \ active) = SumOver(E, S)
    BY <2>2, <2>5
  <2> QED BY <2>1, <2>4, <2>6
<1> QED BY <1>1, <1>3, <1>5 DEF MoneyInv, Balanced, Balances, Allocated!MoneyConserved

-----------------------------------------------------------------------------
(* Steps.                                                                  *)

NothingInvested ==
  /\ AllocationTyped /\ invested \in [AllTrades -> Int] /\ \A i \in AllTrades : invested[i] = 0
  /\ cash = Start /\ active = {} /\ pending = {}

LEMMA ZeroBalances == NothingInvested => Balanced
<1> SUFFICES ASSUME NothingInvested PROVE Balanced
  OBVIOUS
<1> USE DEF NothingInvested
<1> DEFINE P == ProceedsOf(invested, trade, paired, out)
           D == ProfitsOf(invested, trade, paired, out)
<1>1. /\ IsFiniteSet(AllTrades) /\ \A i \in AllTrades : D[i] = 0
  BY ProceedsTyped
<1>2. Owed = {} /\ AllTrades \ active = AllTrades /\ IsFiniteSet({}) /\ active = {}
  BY FS_EmptySet DEF Owed
<1> HIDE DEF P, D
<1>3. SumOver(D, AllTrades) = 0
  BY <1>1, SumOfZeros
<1>4. SumOver(P, {}) = 0 /\ SumOver(invested, {}) = 0
  BY <1>2, SumOfZeros
<1>5. Start \in Int
  BY AllocationAssumption
<1>6. cash + SumOver(P, {}) + SumOver(invested, {}) = Start + SumOver(D, AllTrades)
  BY <1>3, <1>4, <1>5
<1> QED BY <1>2, <1>6 DEF Balanced, Balances, P, D

LEMMA MoneyInitially == Allocated!Init => MoneyInv
<1> SUFFICES ASSUME Allocated!Init PROVE MoneyInv
  OBVIOUS
<1>1. /\ cash = Start /\ active = {} /\ pending = {} /\ phase = "allocation"
      /\ invested = [i \in AllTrades |-> 0]
  BY DEF Allocated!Init, Allocated!Trades, AllTrades
<1>2. MoneyTyped
  BY <1>1, AllocationAssumption DEF MoneyTyped
<1>3. AllocationTyped
  BY AllocationInitially DEF AllocationInv
<1> QED BY <1>1, <1>2, <1>3, ZeroBalances DEF MoneyInv, MoneyTyped, NothingInvested

LEMMA AllocateMoney ==
  ASSUME AllocationInv, MoneyInv, Allocated!Allocate, AllocationTyped'
  PROVE  MoneyInv'
<1>1. /\ phase = "allocation" /\ phase' = phase
      /\ UNCHANGED <<cash, active, invested, pending>>
  BY DEF Allocated!Allocate, Allocated!simVars
<1>2. MoneyTyped'
  BY <1>1 DEF MoneyInv, MoneyTyped
<1>3. Balanced'
  <2>1. NothingInvested'
    BY <1>1 DEF MoneyInv, MoneyTyped, NothingInvested
  <2> QED BY <2>1, ZeroBalances, PTL
<1> QED BY <1>2, <1>3 DEF MoneyInv

LEMMA StartMoney ==
  ASSUME AllocationInv, MoneyInv, Allocated!StartSimulation
  PROVE  MoneyInv'
<1>1. /\ phase = "allocation" /\ phase' = "simulation"
      /\ UNCHANGED <<trade, paired, turn, out, cash, active, invested, pending>>
  BY DEF Allocated!StartSimulation, Allocated!inputs, Allocated!allocVars, Allocated!simVars
<1>2. Owed' = Owed /\ Balanced'
  BY <1>1 DEF MoneyInv, Balanced, Owed
<1>3. MoneyTyped'
  <2>1. Owed = {}
    BY <1>1 DEF MoneyInv, MoneyTyped, Owed
  <2>2. \A n \in AllTrades : turn[n] \in AllTrades
    BY DEF AllocationInv, AllocationTyped, PairingTyped, AllTrades
  <2>3. \A n \in AllTrades : invested[turn[n]] = 0 /\ turn[n] \notin active /\ turn[n] \notin Owed
    BY <1>1, <2>1, <2>2 DEF MoneyInv, MoneyTyped
  <2> QED BY <1>1, <1>2, <2>1, <2>3 DEF MoneyInv, MoneyTyped
<1> QED BY <1>2, <1>3 DEF MoneyInv

(* Positions that exit are owed for, and what has matured is paid.         *)
LEMMA ExitsBalance ==
  ASSUME AllocationInv, MoneyInv, phase = "simulation", NEW X, X \subseteq active,
         NEW M, M \subseteq Owed \cup X
  PROVE  /\ Allocated!Amounts({Allocated!Credit(i) : i \in M})
              = SumOver(ProceedsOf(invested, trade, paired, out), M)
         /\ Allocated!Amounts({Allocated!Credit(i) : i \in M}) \in Int
         /\ Balances(cash + SumOver(ProceedsOf(invested, trade, paired, out), M),
                     ProceedsOf(invested, trade, paired, out), (Owed \cup X) \ M,
                     invested, active \ X, ProfitsOf(invested, trade, paired, out), AllTrades)
<1> DEFINE P == ProceedsOf(invested, trade, paired, out)
           D == ProfitsOf(invested, trade, paired, out)
<1>1. /\ AllocationTyped /\ MoneyTyped /\ Balanced /\ cash \in Int
      /\ invested \in [AllTrades -> Int] /\ active \subseteq AllTrades
      /\ Owed \subseteq AllTrades /\ Owed \cap active = {}
  BY PendingIs DEF AllocationInv, MoneyInv, MoneyTyped
<1>2. /\ P \in [AllTrades -> Int] /\ D \in [AllTrades -> Int] /\ IsFiniteSet(AllTrades)
      /\ Start \in Int
  BY <1>1, ProceedsTyped, AllocationAssumption
<1>3. \A i \in AllTrades : D[i] = P[i] - invested[i]
  BY DEF ProfitsOf
<1>4. M \subseteq AllTrades
  BY <1>1
<1>5. Allocated!Amounts({Allocated!Credit(i) : i \in M}) = SumOver(P, M)
  BY <1>1, <1>4, CreditsSum
<1>6. SumOver(P, M) \in Int
  <2>1. IsFiniteSet(M) /\ \A i \in M : P[i] \in Int
    BY <1>2, <1>4, FS_Subset
  <2> HIDE DEF P
  <2> QED BY <2>1, SumFacts
<1>7. Balances(cash, P, Owed, invested, active, D, AllTrades)
  BY <1>1 DEF Balanced
<1>8. Balances(cash + SumOver(P, M), P, (Owed \cup X) \ M, invested, active \ X, D, AllTrades)
  <2> HIDE DEF P, D
  <2> QED BY <1>1, <1>2, <1>3, <1>7, ClosingBalances
<1> QED BY <1>5, <1>6, <1>8

LEMMA SimulateMoney ==
  ASSUME AllocationInv, MoneyInv, Allocated!Simulate
  PROVE  MoneyInv'
<1> DEFINE k == turn[next]
           X == Allocated!Exited
           Both == Owed \cup X
           M == {i \in Both : out[i].exit + Delay <= Allocated!Now}
           rest == Both \ M
           P == ProceedsOf(invested, trade, paired, out)
           D == ProfitsOf(invested, trade, paired, out)
           credits == {Allocated!Credit(i) : i \in Both}
           money == cash + Allocated!Amounts({Allocated!Credit(i) : i \in M})
           size == money \div Allocated!Opens
<1>1. /\ phase = "simulation" /\ phase' = phase /\ next \in AllTrades /\ next' = next + 1
      /\ k \in AllTrades /\ UNCHANGED <<trade, paired, turn, out>>
  BY DEF Allocated!Simulate, Allocated!inputs, Allocated!allocVars, AllocationInv, AllocationTyped,
         PairingTyped, AllTrades
<1>l. Allocated!Now \in Int
  <2>1. paired[k] \in AllTrades
    BY <1>1 DEF AllocationInv, AllocationTyped, PairingTyped, AllTrades
  <2> QED BY <2>1, LabelsGrow DEF Allocated!Now, Allocated!Entered, AllocationInv, AllTrades
<1>2. /\ AllocationTyped /\ MoneyTyped /\ cash \in Int
      /\ invested \in [AllTrades -> Int] /\ active \subseteq AllTrades
      /\ Owed \subseteq AllTrades /\ Owed \cap active = {}
      /\ pending = {Allocated!Credit(i) : i \in Owed}
  BY PendingIs DEF AllocationInv, MoneyInv, MoneyTyped
<1>3. /\ \A n \in AllTrades : n >= next =>
           invested[turn[n]] = 0 /\ turn[n] \notin active /\ turn[n] \notin Owed
      /\ invested[k] = 0 /\ k \notin active /\ k \notin Owed
  <2>1. next >= next
    BY <1>1 DEF AllTrades
  <2> QED BY <1>1, <1>2, <2>1 DEF MoneyTyped
<1>t. \A n \in AllTrades : n >= next + 1 => n >= next /\ turn[n] # k /\ turn[n] \in AllTrades
  BY <1>1, <1>2 DEF AllocationTyped, PairingTyped, AllTrades
<1>4. X \subseteq active /\ M \subseteq Both /\ Both \subseteq AllTrades
  BY <1>2 DEF Allocated!Exited
<1>5. /\ money = cash + SumOver(P, M) /\ money \in Int
      /\ Balances(cash + SumOver(P, M), P, rest, invested, active \ X, D, AllTrades)
  <2>1. M \subseteq Owed \cup X /\ X \subseteq active
    BY <1>4
  <2>2. /\ Allocated!Amounts({Allocated!Credit(i) : i \in M}) = SumOver(P, M)
        /\ Allocated!Amounts({Allocated!Credit(i) : i \in M}) \in Int
        /\ Balances(cash + SumOver(P, M), P, (Owed \cup X) \ M, invested, active \ X, D, AllTrades)
    <3> HIDE DEF M, X
    <3> QED BY <1>1, <2>1, ExitsBalance
  <2> HIDE DEF P, D, M, X
  <2> QED BY <1>2, <2>2
<1>6. ASSUME NEW pend, pend = {Allocated!Credit(i) : i \in rest}, pending' = pend,
             invested' \in [AllTrades -> Int],
             \A i \in AllTrades : i # k => invested'[i] = invested[i],
             active' \subseteq AllTrades, active' \subseteq (active \ X) \cup {k}
      PROVE  /\ Owed' = rest
             /\ \A c \in pending' : c.trade \in AllTrades \ active' /\ c = Allocated!Credit(c.trade)'
             /\ \A n \in AllTrades : n >= next + 1 =>
                  invested'[turn[n]] = 0 /\ turn[n] \notin active' /\ turn[n] \notin Owed'
  <2>1. \A i \in rest : i \in AllTrades /\ i # k /\ i \notin active'
    BY <1>1, <1>2, <1>3, <1>4, <1>6
  <2>2. \A i \in rest : Allocated!Credit(i).trade = i
    BY <2>1, CreditIs
  <2>3. Owed' = {c.trade : c \in pend}
    BY <1>6 DEF Owed
  <2>4. Owed' = rest
    BY <1>6, <2>2, <2>3
  <2>5. ASSUME NEW i \in rest
        PROVE  Allocated!Credit(i)' = Allocated!Credit(i)
    <3>1. invested'[i] = invested[i]
      BY <1>6, <2>1
    <3> QED BY <1>1, <3>1 DEF Allocated!Credit, Allocated!Proceeds, Allocated!GainAt, Allocated!Result
  <2>6. ASSUME NEW c \in pending'
        PROVE  c.trade \in AllTrades \ active' /\ c = Allocated!Credit(c.trade)'
    <3>1. PICK i \in rest : c = Allocated!Credit(i)
      BY <1>6
    <3>2. c.trade = i /\ c = Allocated!Credit(i)'
      BY <2>2, <2>5, <3>1
    <3> QED BY <2>1, <3>2
  <2>7. ASSUME NEW n \in AllTrades, n >= next + 1
        PROVE  invested'[turn[n]] = 0 /\ turn[n] \notin active' /\ turn[n] \notin Owed'
    <3>1. n >= next /\ turn[n] # k /\ turn[n] \in AllTrades
      BY <1>t, <2>7
    <3> QED BY <1>3, <1>4, <1>6, <2>4, <3>1
  <2> QED BY <2>4, <2>6, <2>7
<1>7. CASE Allocated!SimulateTrade
  <2>1. pending \cup {Allocated!Credit(i) : i \in X} = credits
    BY <1>2
  <2>2. \A i \in Both : /\ Allocated!Credit(i).at = out[i].exit + Delay
                        /\ out[i].exit + Delay \in Int /\ Allocated!Now \in Int
    BY <1>l, <1>2, <1>4, CreditIs, ProceedsTyped
  <2>3. {c \in credits : c.at <= Allocated!Now} = {Allocated!Credit(i) : i \in M}
    BY <2>2
  <2>4. Allocated!StillPending(credits) = {Allocated!Credit(i) : i \in rest}
    BY <2>2 DEF Allocated!StillPending
  <2>5. /\ pending' = Allocated!StillPending(credits)
        /\ \/ /\ Allocated!Opens > 0 /\ active' = (active \ X) \cup {k}
              /\ invested' = [invested EXCEPT ![k] = size] /\ cash' = money - size
           \/ active' = active \ X /\ cash' = money /\ invested' = invested
    BY <1>7, <2>1, <2>3 DEF Allocated!SimulateTrade
  <2>6. pending' = {Allocated!Credit(i) : i \in rest}
    BY <2>4, <2>5
  <2>7. CASE active' = active \ X /\ cash' = money /\ invested' = invested
    <3>1. /\ Owed' = rest
          /\ \A c \in pending' : c.trade \in AllTrades \ active' /\ c = Allocated!Credit(c.trade)'
          /\ \A n \in AllTrades : n >= next + 1 =>
               invested'[turn[n]] = 0 /\ turn[n] \notin active' /\ turn[n] \notin Owed'
      BY <1>2, <1>6, <2>6, <2>7
    <3>2. MoneyTyped'
      BY <1>1, <1>2, <1>5, <2>7, <3>1 DEF MoneyTyped
    <3>3. Balanced'
      BY <1>1, <1>5, <2>7, <3>1 DEF Balanced
    <3> QED BY <3>2, <3>3 DEF MoneyInv
  <2>8. CASE /\ Allocated!Opens > 0 /\ active' = (active \ X) \cup {k}
             /\ invested' = [invested EXCEPT ![k] = size] /\ cash' = money - size
    <3>1. size \in Int
      <4>1. IsFiniteSet(active \ X)
        BY <1>2, ProceedsTyped, FS_Subset
      <4>2. Allocated!Opens \in Int
        BY <4>1, FS_CardinalityType, AllocationCardinality, AllocationAssumption DEF Allocated!Opens
      <4> HIDE DEF money
      <4> QED BY <1>5, <2>8, <4>2
    <3>2. /\ invested' \in [AllTrades -> Int] /\ invested'[k] = size
          /\ \A i \in AllTrades : i # k => invested'[i] = invested[i]
          /\ active' \subseteq AllTrades /\ cash' \in Int
      <4>1. k \in AllTrades /\ money \in Int
        BY <1>1, <1>5
      <4> HIDE DEF size, money, X, k
      <4> QED BY <1>2, <2>8, <3>1, <4>1
    <3>3. /\ Owed' = rest
          /\ \A c \in pending' : c.trade \in AllTrades \ active' /\ c = Allocated!Credit(c.trade)'
          /\ \A n \in AllTrades : n >= next + 1 =>
               invested'[turn[n]] = 0 /\ turn[n] \notin active' /\ turn[n] \notin Owed'
      BY <1>6, <2>6, <2>8, <3>2
    <3>4. MoneyTyped'
      BY <1>1, <3>2, <3>3 DEF MoneyTyped
    <3>5. PICK V1 : V1 = invested'
      OBVIOUS
    <3> DEFINE P1 == ProceedsOf(V1, trade, paired, out)
               D1 == ProfitsOf(V1, trade, paired, out)
    <3>6. /\ P1 \in [AllTrades -> Int] /\ D1 \in [AllTrades -> Int] /\ IsFiniteSet(AllTrades)
          /\ P \in [AllTrades -> Int] /\ D \in [AllTrades -> Int] /\ D[k] = 0
      BY <1>1, <1>2, <1>3, <3>2, <3>5, ProceedsTyped
    <3>7. \A i \in AllTrades \ {k} : P1[i] = P[i] /\ V1[i] = invested[i] /\ D1[i] = D[i]
      BY <3>2, <3>5 DEF ProceedsOf, ProfitsOf, AllTrades
    <3>8. active \ X \subseteq AllTrades \ {k} /\ rest \subseteq AllTrades \ {k} /\ Start \in Int
      <4>1. k \notin active /\ k \notin Owed /\ k \notin X
        BY <1>1, <1>3, <1>4
      <4> HIDE DEF X, M
      <4> QED BY <1>2, <1>4, <4>1, AllocationAssumption
    <3>9. Balances(money, P, rest, invested, active \ X, D, AllTrades)
      BY <1>5
    <3> HIDE DEF P, D, P1, D1, money, rest, X, size, M
    <3>10. Balances(money - V1[k], P1, rest, V1, (active \ X) \cup {k}, D1, AllTrades)
      BY <1>1, <1>2, <1>5, <3>2, <3>5, <3>6, <3>7, <3>8, <3>9, OpeningBalances
    <3>11. Balanced'
      BY <1>1, <2>8, <3>2, <3>3, <3>5, <3>10 DEF Balanced, P1, D1
    <3> QED BY <3>4, <3>11 DEF MoneyInv
  <2> QED BY <2>5, <2>7, <2>8
<1>8. CASE Allocated!PassOver
  <2>1. UNCHANGED <<cash, active, invested, pending>>
    BY <1>8 DEF Allocated!PassOver, Allocated!simVars
  <2>2. Balanced' /\ Owed' = Owed
    BY <1>1, <2>1 DEF MoneyInv, Balanced, Owed
  <2>3. \A n \in AllTrades : n >= next + 1 => n >= next
    BY <1>t
  <2>4. \A c \in pending' : c = Allocated!Credit(c.trade)'
    BY <1>1, <1>2, <2>1 DEF MoneyTyped, Allocated!Credit, Allocated!Proceeds, Allocated!GainAt, Allocated!Result
  <2>5. MoneyTyped'
    BY <1>1, <1>2, <1>3, <2>1, <2>2, <2>3, <2>4 DEF MoneyTyped
  <2> QED BY <2>2, <2>5 DEF MoneyInv
<1> QED BY <1>7, <1>8 DEF Allocated!Simulate

LEMMA FinishMoney ==
  ASSUME AllocationInv, MoneyInv, Allocated!Finish
  PROVE  MoneyInv'
<1> DEFINE P == ProceedsOf(invested, trade, paired, out)
           D == ProfitsOf(invested, trade, paired, out)
           all == Owed \cup active
<1>1. /\ phase = "simulation" /\ phase' = "done" /\ UNCHANGED <<trade, paired, turn, out, invested>>
      /\ active' = {} /\ pending' = {}
      /\ cash' = cash + Allocated!Amounts(pending)
                      + Allocated!Amounts({Allocated!Credit(i) : i \in active})
  BY DEF Allocated!Finish, Allocated!inputs, Allocated!allocVars
<1>2. /\ AllocationTyped /\ MoneyTyped /\ cash \in Int
      /\ invested \in [AllTrades -> Int] /\ active \subseteq AllTrades
      /\ Owed \subseteq AllTrades /\ Owed \cap active = {}
      /\ pending = {Allocated!Credit(i) : i \in Owed}
  BY PendingIs DEF AllocationInv, MoneyInv, MoneyTyped
<1>3. P \in [AllTrades -> Int] /\ IsFiniteSet(AllTrades)
  BY <1>2, ProceedsTyped
<1>4. /\ SumOver(P, all) = SumOver(P, Owed) + SumOver(P, active)
      /\ SumOver(P, Owed) \in Int /\ SumOver(P, active) \in Int
  <2> HIDE DEF P
  <2> QED BY <1>2, <1>3, PartSums
<1>5. /\ Allocated!Amounts(pending) = SumOver(P, Owed)
      /\ Allocated!Amounts({Allocated!Credit(i) : i \in active}) = SumOver(P, active)
  BY <1>2, CreditsSum
<1>6. cash' = cash + SumOver(P, all) /\ cash' \in Int
  <2> HIDE DEF P, all
  <2> QED BY <1>1, <1>2, <1>4, <1>5
<1>7. Balances(cash + SumOver(P, all), P, all \ all, invested, active \ active, D, AllTrades)
  <2>1. active \subseteq active /\ all \subseteq Owed \cup active
    OBVIOUS
  <2>2. Balances(cash + SumOver(P, all), P, (Owed \cup active) \ all, invested, active \ active, D,
                 AllTrades)
    <3> HIDE DEF P, D, all
    <3> QED BY <1>1, <2>1, ExitsBalance DEF P, D
  <2> QED BY <2>2
<1>8. Owed' = {}
  BY <1>1 DEF Owed
<1>9. Balanced'
  <2>1. all \ all = {} /\ active \ active = {}
    OBVIOUS
  <2>2. Balances(cash', P, {}, invested, {}, D, AllTrades)
    BY <1>6, <1>7, <2>1
  <2> QED BY <1>1, <1>8, <2>2 DEF Balanced
<1>10. MoneyTyped'
  BY <1>1, <1>2, <1>6 DEF MoneyTyped
<1> QED BY <1>9, <1>10 DEF MoneyInv

LEMMA MoneySteps ==
  AllocationInv /\ MoneyInv /\ (Allocated!Next \/ UNCHANGED allocVars) => MoneyInv'
<1> SUFFICES ASSUME AllocationInv, MoneyInv, Allocated!Next \/ UNCHANGED allocVars PROVE MoneyInv'
  OBVIOUS
<1>1. AllocationTyped'
  BY AllocationStepKeeps DEF AllocationInv
<1>2. CASE UNCHANGED allocVars
  <2>1. UNCHANGED <<rule, trade, paired, turn, phase, next, open, out, cash, active, invested,
                    pending>>
    BY <1>2 DEF allocVars
  <2> QED BY <2>1 DEF MoneyInv, MoneyTyped, Balanced, Owed, Allocated!Credit, Allocated!Proceeds,
                      Allocated!GainAt, Allocated!Result
<1> QED BY <1>1, <1>2, AllocateMoney, StartMoney, SimulateMoney, FinishMoney DEF Allocated!Next

(* The simulation of a portfolio's cash neither loses a dollar nor pays    *)
(* one twice, however exits and delayed proceeds fall between the entries  *)
(* (compute_portfolio_sim).                                                *)
THEOREM MoneyStaysConserved == Spec => []MoneyConserved
<1> DEFINE Inv == part = "allocation" => AllocationInv /\ MoneyInv
<1>1. Init => Inv
  BY AllocationInitially, MoneyInitially DEF Init
<1>2. Inv /\ [Next]_vars => Inv'
  <2> SUFFICES ASSUME Inv, [Next]_vars, part' = "allocation" PROVE AllocationInv' /\ MoneyInv'
    OBVIOUS
  <2>1. part = "allocation"
    BY DEF Next, vars
  <2> QED BY <2>1, AllocationStep, AllocationStepKeeps, MoneySteps
<1>3. Inv => MoneyConserved
  BY MoneyTold DEF AllocationInv, MoneyConserved
<1> QED BY <1>1, <1>2, <1>3, PTL DEF Spec

-----------------------------------------------------------------------------
(* The equity curve.                                                       *)

(* What a step of the composition is for the equity curve.                 *)
LEMMA EquityStep ==
  ASSUME [Next]_vars, part = "equity"
  PROVE  part' = "equity" /\ (Equity!Next \/ UNCHANGED equityVars)
BY DEF Next, NextBacktest, NextDelta, NextPrice, NextRecord, vars, priceVars

(* What sold watches earned, and what held ones have, at the prices of t.  *)
Pnls(table, ws) == [w \in ws |-> table[w].pnl]

Values(table, closes, ws, t) ==
  [w \in ws |-> Equity!PctPnl(w, table[w].price, closes[SymbolOf[w]][t])]

(* The sums of the module are sums over sets of watches.                   *)
LEMMA PnlIsSum ==
  ASSUME NEW table, NEW ws
  PROVE  Equity!PnlOf(table, ws) = SumOver(Pnls(table, ws), ws)
<1>1. PICK f : f = Pnls(table, ws)
  OBVIOUS
<1>2. \A h : [s \in SUBSET ws |-> IF s = {} THEN 0 ELSE table[Chosen(s)].pnl + h[s \ {Chosen(s)}]]
           = [s \in SUBSET ws |-> IF s = {} THEN 0 ELSE f[Chosen(s)] + h[s \ {Chosen(s)}]]
  BY <1>1 DEF Chosen, Pnls
<1>3. (CHOOSE h : h = [s \in SUBSET ws |-> IF s = {} THEN 0
                           ELSE table[Chosen(s)].pnl + h[s \ {Chosen(s)}]])
    = (CHOOSE h : h = [s \in SUBSET ws |-> IF s = {} THEN 0
                           ELSE f[Chosen(s)] + h[s \ {Chosen(s)}]])
  BY <1>2, Zenon
<1>4. SumOver(f, ws) = (CHOOSE h : h = [s \in SUBSET ws |-> IF s = {} THEN 0
                           ELSE f[Chosen(s)] + h[s \ {Chosen(s)}]])[ws]
  BY DEF SumOver, Summing
<1>5. Equity!PnlOf(table, ws) =
        (CHOOSE h : h = [s \in SUBSET ws |-> IF s = {} THEN 0
                           ELSE table[Chosen(s)].pnl + h[s \ {Chosen(s)}]])[ws]
  BY DEF Chosen, Equity!PnlOf, Equity!MapThenSumSet, Equity!MapThenFoldSet
<1> QED BY <1>1, <1>3, <1>4, <1>5

LEMMA ValueIsSum ==
  ASSUME NEW table, NEW closes, NEW ws, NEW t
  PROVE  Equity!MapThenSumSet(LAMBDA w : Equity!PctPnl(w, table[w].price, closes[SymbolOf[w]][t]), ws)
           = SumOver(Values(table, closes, ws, t), ws)
<1> DEFINE V(w) == Equity!PctPnl(w, table[w].price, closes[SymbolOf[w]][t])
<1>1. PICK f : f = Values(table, closes, ws, t)
  OBVIOUS
<1>2. \A h : [s \in SUBSET ws |-> IF s = {} THEN 0 ELSE V(Chosen(s)) + h[s \ {Chosen(s)}]]
           = [s \in SUBSET ws |-> IF s = {} THEN 0 ELSE f[Chosen(s)] + h[s \ {Chosen(s)}]]
  BY <1>1 DEF Chosen, Values
<1>5. Equity!MapThenSumSet(V, ws) =
        (CHOOSE h : h = [s \in SUBSET ws |-> IF s = {} THEN 0
                           ELSE V(Chosen(s)) + h[s \ {Chosen(s)}]])[ws]
  BY DEF Chosen, Equity!MapThenSumSet, Equity!MapThenFoldSet
<1>6. Equity!MapThenSumSet(LAMBDA w : Equity!PctPnl(w, table[w].price, closes[SymbolOf[w]][t]), ws)
      = Equity!MapThenSumSet(V, ws)
  BY DEF Equity!MapThenSumSet, Equity!MapThenFoldSet
<1> HIDE DEF V
<1>3. (CHOOSE h : h = [s \in SUBSET ws |-> IF s = {} THEN 0
                           ELSE V(Chosen(s)) + h[s \ {Chosen(s)}]])
    = (CHOOSE h : h = [s \in SUBSET ws |-> IF s = {} THEN 0
                           ELSE f[Chosen(s)] + h[s \ {Chosen(s)}]])
  BY <1>2, Zenon
<1>4. SumOver(f, ws) = (CHOOSE h : h = [s \in SUBSET ws |-> IF s = {} THEN 0
                           ELSE f[Chosen(s)] + h[s \ {Chosen(s)}]])[ws]
  BY DEF SumOver, Summing
<1> QED BY <1>1, <1>3, <1>4, <1>5, <1>6

LEMMA MarkedIsSum ==
  ASSUME NEW table, NEW ws, NEW t
  PROVE  /\ Equity!MarkedToMarket(table, ws, t) = SumOver(Values(table, close, ws, t), ws)
         /\ Equity!MarkedToMarket(table, ws, t)' = SumOver(Values(table, close', ws, t), ws)
<1>1. PICK old : old = close
  OBVIOUS
<1>2. PICK new : new = close'
  OBVIOUS
<1>3. Equity!MapThenSumSet(LAMBDA w : Equity!PctPnl(w, table[w].price, old[SymbolOf[w]][t]), ws)
           = SumOver(Values(table, old, ws, t), ws)
  BY ValueIsSum
<1>4. Equity!MapThenSumSet(LAMBDA w : Equity!PctPnl(w, table[w].price, new[SymbolOf[w]][t]), ws)
           = SumOver(Values(table, new, ws, t), ws)
  BY ValueIsSum
<1>5. Equity!MarkedToMarket(table, ws, t) =
      Equity!MapThenSumSet(LAMBDA w : Equity!PctPnl(w, table[w].price, old[SymbolOf[w]][t]), ws)
  BY <1>1 DEF Equity!MarkedToMarket, Equity!MapThenSumSet, Equity!MapThenFoldSet
<1>6. Equity!MarkedToMarket(table, ws, t)' =
      Equity!MapThenSumSet(LAMBDA w : Equity!PctPnl(w, table[w].price, new[SymbolOf[w]][t]), ws)
  BY <1>2 DEF Equity!MarkedToMarket, Equity!MapThenSumSet, Equity!MapThenFoldSet
<1> QED BY <1>1, <1>2, <1>3, <1>4, <1>5, <1>6

WatchRows == [status : {"none", "holding", "exited", "cooling_off", "sealed"},
              price : Marks \cup {0}, bought : Nat, sold : Nat, pnl : Int]

(* A table of watches as it can be at time t.                              *)
TableOf(table, t) ==
  /\ table \in [Tracked -> WatchRows]
  /\ \A w \in Tracked :
       /\ table[w].bought <= t /\ table[w].sold <= t
       /\ table[w].status = "none" <=> table[w].bought = 0
       /\ table[w].status \in {"none", "holding"} <=> table[w].sold = 0
       /\ table[w].bought > 0 => table[w].price \in Marks
  /\ \A v, w \in Tracked :
       table[v].status = "holding" /\ table[w].status = "holding" /\ SymbolOf[v] = SymbolOf[w]
         => v = w

(* What a table says of the time up to t, a later one says too.            *)
Extends(new, old, t) ==
  \A w \in Tracked :
    /\ old[w].bought > 0 => new[w].bought = old[w].bought /\ new[w].price = old[w].price
    /\ old[w].bought = 0 => new[w].bought = 0 \/ new[w].bought > t
    /\ old[w].sold > 0 => new[w].sold = old[w].sold /\ new[w].pnl = old[w].pnl
    /\ old[w].sold = 0 => new[w].sold = 0 \/ new[w].sold > t

BoughtBy(table, t) == {w \in Tracked : table[w].bought \in 1..t}

ClosesUpto(closes, t) == closes \in [Traded -> [0..t -> Marks]]

(* RowsTrue of one row, a table, prices and a time.                        *)
TrueRow(r, table, closes, t) ==
  LET owned == Equity!HeldAt(table, r.at)
      sales == Equity!ClosedAt(table, r.at)
      marked == {w \in owned : SymbolOf[w] \in r.known}
  IN \/ r.by = "live" /\ Cardinality(BoughtBy(table, r.at)) > Recent
     \/ /\ r.count = Cardinality(owned) /\ r.real = SumOver(Pnls(table, sales), sales)
        /\ r.cash + PosSize * r.count + r.unreal = r.equity
        /\ r.by = "live" => marked = owned
        /\ \/ r.by = "backfill" /\ \E w \in owned : DirectionOf[w] = -1
           \/ \E u \in r.at..(IF r.by = "live" THEN t ELSE r.at) :
                r.unreal = SumOver(Values(table, closes, marked, u), marked)

(* The Cardinality of an instance is that of FiniteSets.                   *)
LEMMA EquityCardinality == \A S : Equity!Cardinality(S) = Cardinality(S)
BY DEF Equity!Cardinality, Cardinality

(* RowsTrue is TrueRow of each row, before and after a step.               *)
LEMMA RowsAreTrue ==
  /\ Equity!RowsTrue <=> \A r \in rows : TrueRow(r, watch, close, clock)
  /\ Equity!RowsTrue' <=> \A r \in rows' : TrueRow(r, watch', close', clock')
<1>1. \A table, ws, t : Equity!MarkedToMarket(table, ws, t) = SumOver(Values(table, close, ws, t), ws)
  BY MarkedIsSum
<1>2. \A table, ws, t : Equity!MarkedToMarket(table, ws, t)' = SumOver(Values(table, close', ws, t), ws)
  BY MarkedIsSum
<1>3. \A table, ws : Equity!PnlOf(table, ws) = SumOver(Pnls(table, ws), ws)
  BY PnlIsSum
<1>4. Equity!RowsTrue <=> \A r \in rows : TrueRow(r, watch, close, clock)
  BY <1>1, <1>3, EquityCardinality DEF Equity!RowsTrue, TrueRow, BoughtBy
<1>5. Equity!RowsTrue' <=> \A r \in rows' : TrueRow(r, watch', close', clock')
  BY <1>2, <1>3, EquityCardinality DEF Equity!RowsTrue, TrueRow, BoughtBy
<1> QED BY <1>4, <1>5

(* A row depends on the table and the prices up to its time alone.         *)
LEMMA SameThen ==
  ASSUME NEW old, NEW new, NEW n \in Nat, NEW t \in 0..n, TableOf(old, n), Extends(new, old, n),
         new \in [Tracked -> WatchRows]
  PROVE  /\ Equity!HeldAt(new, t) = Equity!HeldAt(old, t)
         /\ Equity!ClosedAt(new, t) = Equity!ClosedAt(old, t)
         /\ BoughtBy(new, t) = BoughtBy(old, t)
         /\ \A w \in Equity!HeldAt(old, t) : new[w].price = old[w].price
         /\ \A w \in Equity!ClosedAt(old, t) : new[w].pnl = old[w].pnl
<1>1. ASSUME NEW w \in Tracked
      PROVE  /\ new[w].bought \in 1..t <=> old[w].bought \in 1..t
             /\ new[w].sold \in 1..t <=> old[w].sold \in 1..t
             /\ (new[w].sold = 0 \/ new[w].sold > t) <=> (old[w].sold = 0 \/ old[w].sold > t)
             /\ old[w].bought \in 1..t => new[w].price = old[w].price
             /\ old[w].sold \in 1..t => new[w].pnl = old[w].pnl
  <2>1. /\ old[w].bought \in Nat /\ old[w].sold \in Nat /\ old[w].bought <= n /\ old[w].sold <= n
        /\ new[w].bought \in Nat /\ new[w].sold \in Nat
    BY DEF TableOf, WatchRows
  <2>2. /\ old[w].bought > 0 => new[w].bought = old[w].bought /\ new[w].price = old[w].price
        /\ old[w].bought = 0 => new[w].bought = 0 \/ new[w].bought > n
        /\ old[w].sold > 0 => new[w].sold = old[w].sold /\ new[w].pnl = old[w].pnl
        /\ old[w].sold = 0 => new[w].sold = 0 \/ new[w].sold > n
    BY DEF Extends
  <2>3. t \in Int /\ 0 <= t /\ t <= n
    OBVIOUS
  <2> QED BY <2>1, <2>2, <2>3
<1> QED BY <1>1 DEF Equity!HeldAt, Equity!ClosedAt, BoughtBy

(* What is bought, sold or quoted later leaves a true row true.             *)
LEMMA StaysTrue ==
  ASSUME NEW r, NEW old, NEW new, NEW n \in Nat, r.at \in 0..n, TableOf(old, n), Extends(new, old, n),
         new \in [Tracked -> WatchRows],
         NEW c1, NEW c2, NEW t \in Nat, NEW u \in Nat, r.at <= t, t <= u,
         \A s \in Traded : \A i \in 0..t : c2[s][i] = c1[s][i],
         TrueRow(r, old, c1, t)
  PROVE  TrueRow(r, new, c2, u)
<1> DEFINE owned == Equity!HeldAt(old, r.at)
           sales == Equity!ClosedAt(old, r.at)
           marked == {w \in owned : SymbolOf[w] \in r.known}
<1>1. /\ Equity!HeldAt(new, r.at) = owned /\ Equity!ClosedAt(new, r.at) = sales
      /\ BoughtBy(new, r.at) = BoughtBy(old, r.at)
      /\ \A w \in owned : new[w].price = old[w].price
      /\ \A w \in sales : new[w].pnl = old[w].pnl
  BY SameThen
<1>2. owned \subseteq Tracked
  BY DEF Equity!HeldAt
<1>3. SumOver(Pnls(new, sales), sales) = SumOver(Pnls(old, sales), sales)
  <2> HIDE DEF sales
  <2>1. \A w \in sales : Pnls(new, sales)[w] = Pnls(old, sales)[w]
    BY <1>1 DEF Pnls
  <2> QED BY <2>1, SumOfEquals
<1>4. ASSUME NEW i \in 0..t
      PROVE  SumOver(Values(new, c2, marked, i), marked) = SumOver(Values(old, c1, marked, i), marked)
  <2>1. \A w \in marked : w \in owned /\ SymbolOf[w] \in Traded
    BY <1>2, EquityAssumption
  <2> HIDE DEF marked, owned
  <2>2. \A w \in marked : Values(new, c2, marked, i)[w] = Values(old, c1, marked, i)[w]
    BY <1>1, <2>1 DEF Values
  <2> QED BY <2>2, SumOfEquals
<1>5. \A i : i \in r.at..(IF r.by = "live" THEN t ELSE r.at)
               => i \in 0..t /\ i \in r.at..(IF r.by = "live" THEN u ELSE r.at)
  OBVIOUS
<1> QED BY <1>1, <1>3, <1>4, <1>5 DEF TrueRow

LEMMA PartsAreFinite ==
  ASSUME NEW ws, ws \subseteq Tracked
  PROVE  IsFiniteSet(ws) /\ Cardinality(ws) \in Nat
BY FS_Subset, FS_CardinalityType, EquityAssumption

LEMMA PnlIsInt ==
  ASSUME NEW n \in Nat, NEW table, TableOf(table, n), NEW ws, ws \subseteq Tracked
  PROVE  SumOver(Pnls(table, ws), ws) \in Int
<1>1. \A w \in ws : Pnls(table, ws)[w] \in Int
  BY DEF Pnls, TableOf, WatchRows
<1> QED BY <1>1, PartsAreFinite, SumFacts

LEMMA ValueIsInt ==
  ASSUME NEW n \in Nat, NEW table, TableOf(table, n), NEW t \in Nat,
         NEW closes, ClosesUpto(closes, t), NEW u \in 0..t,
         NEW ws, ws \subseteq {w \in Tracked : table[w].bought > 0}
  PROVE  SumOver(Values(table, closes, ws, u), ws) \in Int
<1>1. ASSUME NEW w \in ws PROVE Values(table, closes, ws, u)[w] \in Int
  <2>1. /\ w \in Tracked /\ table[w].price \in Marks /\ SymbolOf[w] \in Traded
        /\ DirectionOf[w] \in Int
    BY EquityAssumption DEF TableOf
  <2>2. closes[SymbolOf[w]][u] \in Marks
    BY <2>1 DEF ClosesUpto
  <2>3. /\ table[w].price \in Nat \ {0} /\ closes[SymbolOf[w]][u] \in Nat
    BY <2>1, <2>2, EquityAssumption
  <2>4. ASSUME NEW p \in Nat \ {0}, NEW c \in Nat, NEW d \in Int
        PROVE  d * ((PosSize * (c - p)) \div p) \in Int
    <3>1. PosSize * (c - p) \in Int
      BY EquityAssumption
    <3>2. (PosSize * (c - p)) \div p \in Int
      BY <3>1
    <3> QED BY <3>2
  <2> QED BY <2>1, <2>3, <2>4 DEF Values, Equity!PctPnl
<1>2. IsFiniteSet(ws)
  BY PartsAreFinite
<1> QED BY <1>1, <1>2, SumFacts

(* What is known of the tables that a writer has read.                     *)
ViewTrue == \/ view.task = "none"
            \/ /\ view.at \in 0..clock
               /\ TableOf(view.watch, view.at) /\ Extends(watch, view.watch, view.at)

ReadAt(t) == /\ TableOf(tool.watch, t) /\ Extends(watch, tool.watch, t)
             /\ \A r \in tool.rows : r.at \in 0..t

ToolTrue == tool.task = "none" \/ \E t \in 0..clock : ReadAt(t)

EquityTyped == clock \in Nat /\ ClosesUpto(close, clock) /\ TableOf(watch, clock)

EquityRows == \A r \in rows : r.at \in 0..clock /\ TrueRow(r, watch, close, clock)

(* The inductive invariant: a writer that has read the tables knows what   *)
(* they said at some time, and what they say of that time has not changed. *)
EquityInv == EquityTyped /\ ViewTrue /\ ToolTrue /\ EquityRows

LEMMA EquityStarts == Equity!Init => EquityInv
<1> SUFFICES ASSUME Equity!Init PROVE EquityInv
  OBVIOUS
<1>1. /\ clock = 0 /\ watch = [w \in Tracked |-> Equity!Absent]
      /\ view.task = "none" /\ tool.task = "none" /\ rows = {}
  BY DEF Equity!Init, Equity!Idle
<1>2. PICK p \in Marks : close = [s \in Traded |-> [t \in {0} |-> p]]
  BY DEF Equity!Init
<1>3. ClosesUpto(close, 0)
  <2>1. 0..0 = {0}
    OBVIOUS
  <2> QED BY <1>2, <2>1 DEF ClosesUpto
<1>4. TableOf(watch, 0)
  <2>1. /\ watch \in [Tracked -> WatchRows]
        /\ \A w \in Tracked : watch[w] = Equity!Absent
    BY <1>1 DEF WatchRows, Equity!Absent
  <2> QED BY <2>1 DEF TableOf, Equity!Absent
<1> QED BY <1>1, <1>3, <1>4 DEF EquityInv, EquityTyped, ViewTrue, ToolTrue, EquityRows

LEMMA ExtendsOn ==
  ASSUME NEW old, NEW mid, NEW new, NEW n \in Nat, NEW t \in 0..n,
         TableOf(old, t), TableOf(mid, n), new \in [Tracked -> WatchRows],
         Extends(mid, old, t), Extends(new, mid, n)
  PROVE  Extends(new, old, t)
<1> SUFFICES ASSUME NEW w \in Tracked
             PROVE  /\ old[w].bought > 0 => new[w].bought = old[w].bought /\ new[w].price = old[w].price
                    /\ old[w].bought = 0 => new[w].bought = 0 \/ new[w].bought > t
                    /\ old[w].sold > 0 => new[w].sold = old[w].sold /\ new[w].pnl = old[w].pnl
                    /\ old[w].sold = 0 => new[w].sold = 0 \/ new[w].sold > t
  BY DEF Extends
<1>1. /\ old[w].bought \in Nat /\ old[w].sold \in Nat
      /\ mid[w].bought \in Nat /\ mid[w].sold \in Nat
      /\ new[w].bought \in Nat /\ new[w].sold \in Nat
  BY DEF TableOf, WatchRows
<1>2. /\ old[w].bought > 0 => mid[w].bought = old[w].bought /\ mid[w].price = old[w].price
      /\ old[w].bought = 0 => mid[w].bought = 0 \/ mid[w].bought > t
      /\ old[w].sold > 0 => mid[w].sold = old[w].sold /\ mid[w].pnl = old[w].pnl
      /\ old[w].sold = 0 => mid[w].sold = 0 \/ mid[w].sold > t
  BY DEF Extends
<1>3. /\ mid[w].bought > 0 => new[w].bought = mid[w].bought /\ new[w].price = mid[w].price
      /\ mid[w].bought = 0 => new[w].bought = 0 \/ new[w].bought > n
      /\ mid[w].sold > 0 => new[w].sold = mid[w].sold /\ new[w].pnl = mid[w].pnl
      /\ mid[w].sold = 0 => new[w].sold = 0 \/ new[w].sold > n
  BY DEF Extends
<1>4. t \in Int /\ n \in Int /\ 0 <= t /\ t <= n
  OBVIOUS
<1> QED BY <1>1, <1>2, <1>3, <1>4

LEMMA SelfExtends ==
  ASSUME NEW old, NEW t \in Nat, TableOf(old, t)
  PROVE  Extends(old, old, t)
BY DEF Extends

-----------------------------------------------------------------------------
(* Trades and moves of a price: what was is kept.                          *)

HistoryKept == /\ clock' \in {clock, clock + 1} /\ EquityTyped' /\ Extends(watch', watch, clock)
               /\ \A s \in Traded : \A i \in 0..clock : close'[s][i] = close[s][i]
               /\ UNCHANGED <<view, tool, rows>>

LEMMA MinutePasses ==
  ASSUME EquityTyped, NEW new \in [Traded -> Marks], Equity!PassMinute(new)
  PROVE  /\ clock' = clock + 1 /\ clock' \in Nat /\ ClosesUpto(close', clock')
         /\ \A s \in Traded : \A i \in 0..clock : close'[s][i] = close[s][i]
<1>1. clock' = clock + 1 /\ clock \in Nat /\ clock' \in Nat /\ close \in [Traded -> [0..clock -> Marks]]
  BY DEF EquityTyped, ClosesUpto, Equity!PassMinute
<1>2. close' = [s \in Traded |-> [t \in 0..(clock + 1) |-> IF t <= clock THEN close[s][t] ELSE new[s]]]
  BY DEF Equity!PassMinute
<1>3. ASSUME NEW s \in Traded, NEW i \in 0..(clock + 1)
      PROVE  (IF i <= clock THEN close[s][i] ELSE new[s]) \in Marks
  BY <1>1
<1>4. ClosesUpto(close', clock')
  BY <1>1, <1>2, <1>3 DEF ClosesUpto
<1>5. ASSUME NEW s \in Traded, NEW i \in 0..clock PROVE close'[s][i] = close[s][i]
  <2>1. i \in 0..(clock + 1) /\ i <= clock
    BY <1>1
  <2> QED BY <1>2, <2>1
<1> QED BY <1>1, <1>4, <1>5

LEMMA StillMarks ==
  ASSUME EquityTyped
  PROVE  Equity!Still \in [Traded -> Marks]
<1>1. clock \in 0..clock
  BY DEF EquityTyped
<1> QED BY <1>1 DEF EquityTyped, ClosesUpto, Equity!Still

LEMMA PnlInt ==
  ASSUME NEW w \in Tracked, NEW p \in Marks, NEW c \in Marks
  PROVE  Equity!PctPnl(w, p, c) \in Int /\ (PosSize * (c - p)) \div p \in Int
<1>1. p \in Nat \ {0} /\ c \in Nat /\ DirectionOf[w] \in Int /\ PosSize \in Int
  BY EquityAssumption
<1>2. PosSize * (c - p) \in Int
  BY <1>1
<1>3. (PosSize * (c - p)) \div p \in Int
  BY <1>1, <1>2
<1> QED BY <1>1, <1>3 DEF Equity!PctPnl

LEMMA MoveKeeps ==
  ASSUME EquityTyped, NEW s \in Traded, Equity!Move(s)
  PROVE  HistoryKept
<1>1. PICK p \in Marks : Equity!PassMinute([Equity!Still EXCEPT ![s] = p])
  BY DEF Equity!Move
<1>2. [Equity!Still EXCEPT ![s] = p] \in [Traded -> Marks]
  BY StillMarks
<1>3. /\ clock' = clock + 1 /\ clock' \in Nat /\ ClosesUpto(close', clock')
      /\ \A q \in Traded : \A i \in 0..clock : close'[q][i] = close[q][i]
  BY <1>1, <1>2, MinutePasses
<1>4. watch' = watch /\ UNCHANGED <<view, tool, rows>> /\ clock \in Nat
  BY DEF Equity!Move, EquityTyped
<1>5. TableOf(watch, clock + 1)
  <2>1. \A w \in Tracked : watch[w].bought \in Nat /\ watch[w].sold \in Nat
    BY DEF EquityTyped, TableOf, WatchRows
  <2>2. \A w \in Tracked : watch[w].bought <= clock + 1 /\ watch[w].sold <= clock + 1
    BY <1>4, <2>1 DEF EquityTyped, TableOf
  <2> QED BY <2>2 DEF EquityTyped, TableOf
<1>6. Extends(watch', watch, clock)
  BY <1>4, SelfExtends DEF EquityTyped
<1> QED BY <1>3, <1>4, <1>5, <1>6 DEF HistoryKept, EquityTyped

LEMMA BuyKeeps ==
  ASSUME EquityTyped, NEW w \in Tracked, Equity!Buy(w)
  PROVE  HistoryKept
<1>1. /\ watch[w].status = "none"
      /\ \A v \in Tracked : watch[v].status = "holding" => SymbolOf[v] # SymbolOf[w]
      /\ Equity!PassMinute(Equity!Still) /\ UNCHANGED <<view, tool, rows>>
      /\ watch' = [watch EXCEPT ![w] = [@ EXCEPT !.status = "holding",
                                        !.price = Equity!Still[SymbolOf[w]], !.bought = clock + 1]]
  BY DEF Equity!Buy, Equity!Holding
<1>2. Equity!Still \in [Traded -> Marks] /\ SymbolOf[w] \in Traded
  BY StillMarks, EquityAssumption
<1>3. /\ clock' = clock + 1 /\ clock' \in Nat /\ ClosesUpto(close', clock')
      /\ \A q \in Traded : \A i \in 0..clock : close'[q][i] = close[q][i]
  BY <1>1, <1>2, MinutePasses
<1>4. PICK p \in Marks : p = Equity!Still[SymbolOf[w]]
  BY <1>2
<1>5. /\ watch \in [Tracked -> WatchRows] /\ clock \in Nat
      /\ watch[w].bought = 0 /\ watch[w].sold = 0 /\ watch[w].pnl \in Int
  BY <1>1 DEF EquityTyped, TableOf, WatchRows
<1>6. /\ watch' \in [Tracked -> WatchRows]
      /\ \A v \in Tracked : v # w => watch'[v] = watch[v]
      /\ watch'[w].status = "holding" /\ watch'[w].price = p /\ watch'[w].bought = clock + 1
      /\ watch'[w].sold = 0
  <2>1. [watch[w] EXCEPT !.status = "holding", !.price = p, !.bought = clock + 1] \in WatchRows
    <3>1. watch[w] \in WatchRows /\ clock + 1 \in Nat
      BY <1>5
    <3>2. PICK c \in Nat : c = clock + 1
      BY <3>1
    <3> QED BY <3>1, <3>2, <1>4 DEF WatchRows
  <2>2. watch' = [watch EXCEPT ![w] = [watch[w] EXCEPT !.status = "holding", !.price = p,
                                                        !.bought = clock + 1]]
    BY <1>1, <1>4
  <2>3. watch'[w] = [watch[w] EXCEPT !.status = "holding", !.price = p, !.bought = clock + 1]
    BY <1>5, <2>2
  <2>4. /\ watch' \in [Tracked -> WatchRows]
        /\ \A v \in Tracked : v # w => watch'[v] = watch[v]
    BY <1>5, <2>1, <2>2
  <2>5. watch[w] \in WatchRows
    BY <1>5
  <2> QED BY <2>3, <2>4, <2>5, <1>5 DEF WatchRows
<1>7. TableOf(watch', clock + 1)
  <2>1. ASSUME NEW v \in Tracked
        PROVE  /\ watch'[v].bought <= clock + 1 /\ watch'[v].sold <= clock + 1
               /\ watch'[v].status = "none" <=> watch'[v].bought = 0
               /\ watch'[v].status \in {"none", "holding"} <=> watch'[v].sold = 0
               /\ watch'[v].bought > 0 => watch'[v].price \in Marks
    <3>1. CASE v = w
      BY <3>1, <1>6, <1>5
    <3>2. CASE v # w
      <4>1. watch[v].bought \in Nat /\ watch[v].sold \in Nat
        BY <1>5 DEF WatchRows
      <4> QED BY <3>2, <4>1, <1>6, <1>5 DEF EquityTyped, TableOf
    <3> QED BY <3>1, <3>2
  <2>2. ASSUME NEW u \in Tracked, NEW v \in Tracked, watch'[u].status = "holding",
               watch'[v].status = "holding", SymbolOf[u] = SymbolOf[v]
        PROVE  u = v
    BY <2>2, <1>1, <1>6 DEF EquityTyped, TableOf
  <2>3. watch' \in [Tracked -> WatchRows]
    BY <1>6
  <2> QED BY <2>1, <2>2, <2>3 DEF TableOf
<1>8. Extends(watch', watch, clock)
  <2>1. clock + 1 > clock
    BY <1>5
  <2> QED BY <1>5, <1>6, <2>1 DEF Extends
<1> QED BY <1>1, <1>3, <1>7, <1>8 DEF HistoryKept, EquityTyped

LEMMA SellKeeps ==
  ASSUME EquityTyped, NEW w \in Tracked, Equity!Sell(w)
  PROVE  HistoryKept
<1>1. /\ watch[w].status = "holding"
      /\ Equity!PassMinute(Equity!Still) /\ UNCHANGED <<view, tool, rows>>
      /\ watch' = [watch EXCEPT ![w] = [@ EXCEPT !.status = "exited", !.sold = clock + 1,
                     !.pnl = Equity!PctPnl(w, watch[w].price, Equity!Still[SymbolOf[w]])]]
  BY DEF Equity!Sell
<1>2. Equity!Still \in [Traded -> Marks] /\ SymbolOf[w] \in Traded
  BY StillMarks, EquityAssumption
<1>3. /\ clock' = clock + 1 /\ clock' \in Nat /\ ClosesUpto(close', clock')
      /\ \A q \in Traded : \A i \in 0..clock : close'[q][i] = close[q][i]
  BY <1>1, <1>2, MinutePasses
<1>5. /\ watch \in [Tracked -> WatchRows] /\ clock \in Nat
      /\ watch[w].bought \in Nat /\ watch[w].bought > 0 /\ watch[w].bought <= clock
      /\ watch[w].sold = 0 /\ watch[w].price \in Marks
  BY <1>1 DEF EquityTyped, TableOf, WatchRows
<1>4. PICK p \in Int : p = Equity!PctPnl(w, watch[w].price, Equity!Still[SymbolOf[w]])
  BY <1>2, <1>5, PnlInt
<1>6. /\ watch' \in [Tracked -> WatchRows]
      /\ \A v \in Tracked : v # w => watch'[v] = watch[v]
      /\ watch'[w].status = "exited" /\ watch'[w].sold = clock + 1
      /\ watch'[w].bought = watch[w].bought /\ watch'[w].price = watch[w].price
  <2>1. [watch[w] EXCEPT !.status = "exited", !.sold = clock + 1, !.pnl = p] \in WatchRows
    <3>1. watch[w] \in WatchRows /\ clock + 1 \in Nat
      BY <1>5
    <3>2. PICK c \in Nat : c = clock + 1
      BY <3>1
    <3> QED BY <3>1, <3>2, <1>4 DEF WatchRows
  <2>2. watch' = [watch EXCEPT ![w] = [watch[w] EXCEPT !.status = "exited", !.sold = clock + 1,
                                                        !.pnl = p]]
    BY <1>1, <1>4
  <2>3. watch'[w] = [watch[w] EXCEPT !.status = "exited", !.sold = clock + 1, !.pnl = p]
    BY <1>5, <2>2
  <2>4. /\ watch' \in [Tracked -> WatchRows]
        /\ \A v \in Tracked : v # w => watch'[v] = watch[v]
    BY <1>5, <2>1, <2>2
  <2>5. watch[w] \in WatchRows
    BY <1>5
  <2> QED BY <2>3, <2>4, <2>5, <1>5 DEF WatchRows
<1>7. TableOf(watch', clock + 1)
  <2>1. ASSUME NEW v \in Tracked
        PROVE  /\ watch'[v].bought <= clock + 1 /\ watch'[v].sold <= clock + 1
               /\ watch'[v].status = "none" <=> watch'[v].bought = 0
               /\ watch'[v].status \in {"none", "holding"} <=> watch'[v].sold = 0
               /\ watch'[v].bought > 0 => watch'[v].price \in Marks
    <3>1. CASE v = w
      BY <3>1, <1>6, <1>5
    <3>2. CASE v # w
      <4>1. watch[v].bought \in Nat /\ watch[v].sold \in Nat
        BY <1>5 DEF WatchRows
      <4> QED BY <3>2, <4>1, <1>6, <1>5 DEF EquityTyped, TableOf
    <3> QED BY <3>1, <3>2
  <2>2. ASSUME NEW u \in Tracked, NEW v \in Tracked, watch'[u].status = "holding",
               watch'[v].status = "holding", SymbolOf[u] = SymbolOf[v]
        PROVE  u = v
    BY <2>2, <1>1, <1>6 DEF EquityTyped, TableOf
  <2>3. watch' \in [Tracked -> WatchRows]
    BY <1>6
  <2> QED BY <2>1, <2>2, <2>3 DEF TableOf
<1>8. Extends(watch', watch, clock)
  <2>1. clock + 1 > clock
    BY <1>5
  <2> QED BY <1>5, <1>6, <2>1 DEF Extends
<1> QED BY <1>1, <1>3, <1>7, <1>8 DEF HistoryKept, EquityTyped

LEMMA AgeKeeps ==
  ASSUME EquityTyped, NEW w \in Tracked, Equity!Age(w)
  PROVE  HistoryKept
<1>1. UNCHANGED <<clock, close, view, tool, rows>>
  BY DEF Equity!Age
<1>2. PICK x \in {"cooling_off", "sealed"} :
        /\ watch[w].status \notin {"none", "holding"} /\ watch' = [watch EXCEPT ![w].status = x]
  BY DEF Equity!Age
<1>5. watch \in [Tracked -> WatchRows] /\ clock \in Nat /\ watch[w] \in WatchRows
  BY DEF EquityTyped, TableOf
<1>6. /\ watch' \in [Tracked -> WatchRows]
      /\ \A v \in Tracked : /\ v # w => watch'[v] = watch[v]
                            /\ watch'[v].sold = watch[v].sold /\ watch'[v].bought = watch[v].bought
                            /\ watch'[v].price = watch[v].price /\ watch'[v].pnl = watch[v].pnl
      /\ watch'[w].status = x
  BY <1>2, <1>5 DEF WatchRows
<1>7. TableOf(watch', clock)
  <2>1. ASSUME NEW v \in Tracked
        PROVE  /\ watch'[v].bought <= clock /\ watch'[v].sold <= clock
               /\ watch'[v].status = "none" <=> watch'[v].bought = 0
               /\ watch'[v].status \in {"none", "holding"} <=> watch'[v].sold = 0
               /\ watch'[v].bought > 0 => watch'[v].price \in Marks
    BY <1>2, <1>6 DEF EquityTyped, TableOf
  <2>2. ASSUME NEW u \in Tracked, NEW v \in Tracked, watch'[u].status = "holding",
               watch'[v].status = "holding", SymbolOf[u] = SymbolOf[v]
        PROVE  u = v
    BY <2>2, <1>6 DEF EquityTyped, TableOf
  <2> QED BY <1>6, <2>1, <2>2 DEF TableOf
<1>8. Extends(watch', watch, clock)
  BY <1>6 DEF Extends
<1> QED BY <1>1, <1>7, <1>8 DEF HistoryKept, EquityTyped

LEMMA TradedKeeps == EquityInv /\ HistoryKept => EquityInv'
<1> SUFFICES ASSUME EquityInv, HistoryKept PROVE EquityInv'
  OBVIOUS
<1>1. /\ clock \in Nat /\ clock' \in Nat /\ clock <= clock'
      /\ TableOf(watch, clock) /\ TableOf(watch', clock') /\ watch' \in [Tracked -> WatchRows]
      /\ Extends(watch', watch, clock)
      /\ view' = view /\ tool' = tool /\ rows' = rows
  BY DEF EquityInv, EquityTyped, HistoryKept, TableOf
<1>2. \A i \in 0..clock : i \in 0..clock'
  BY <1>1
<1>3. ViewTrue'
  <2>1. CASE view.task = "none"
    BY <2>1, <1>1 DEF ViewTrue
  <2>2. CASE view.task # "none"
    <3>1. view.at \in 0..clock /\ TableOf(view.watch, view.at) /\ Extends(watch, view.watch, view.at)
      BY <2>2 DEF EquityInv, ViewTrue
    <3>2. Extends(watch', view.watch, view.at)
      BY <3>1, <1>1, ExtendsOn
    <3> QED BY <3>1, <3>2, <1>1, <1>2 DEF ViewTrue
  <2> QED BY <2>1, <2>2
<1>4. ToolTrue'
  <2>1. CASE tool.task = "none"
    BY <2>1, <1>1 DEF ToolTrue
  <2>2. CASE tool.task # "none"
    <3>1. PICK t \in 0..clock : ReadAt(t)
      BY <2>2 DEF EquityInv, ToolTrue
    <3>2. Extends(watch', tool.watch, t)
      BY <3>1, <1>1, ExtendsOn DEF ReadAt
    <3>3. ReadAt(t)'
      BY <3>1, <3>2, <1>1 DEF ReadAt
    <3> QED BY <3>3, <1>2 DEF ToolTrue
  <2> QED BY <2>1, <2>2
<1>5. EquityRows'
  <2>1. ASSUME NEW r \in rows
        PROVE  r.at \in 0..clock' /\ TrueRow(r, watch', close', clock')
    <3>1. r.at \in 0..clock /\ TrueRow(r, watch, close, clock)
      BY DEF EquityInv, EquityRows
    <3>2. \A s \in Traded : \A i \in 0..clock : close'[s][i] = close[s][i]
      BY DEF HistoryKept
    <3>3. r.at <= clock
      BY <3>1, <1>1
    <3>4. TrueRow(r, watch', close', clock')
      BY <3>1, <3>2, <3>3, <1>1, StaysTrue
    <3> QED BY <3>1, <3>4, <1>2
  <2> QED BY <2>1, <1>1 DEF EquityRows
<1> QED BY <1>3, <1>4, <1>5 DEF EquityInv, HistoryKept

(* One watch of each symbol: as many priced as there are symbols, is all.  *)
LEMMA AllPriced ==
  ASSUME NEW ws, IsFiniteSet(ws), NEW known,
         \A v, w \in ws : SymbolOf[v] = SymbolOf[w] => v = w,
         Equity!EveryHoldingPriced(ws, known)
  PROVE  {w \in ws : SymbolOf[w] \in known} = ws
<1> DEFINE image == {SymbolOf[w] : w \in ws}
           f == [w \in ws |-> SymbolOf[w]]
           priced == {w \in ws : SymbolOf[w] \in known}
<1>1. f \in Surjection(ws, image)
  BY DEF Surjection
<1>2. f \in Injection(ws, image)
  <2>1. f \in [ws -> image] /\ DOMAIN f = ws
    OBVIOUS
  <2>2. \A v, w \in ws : f[v] = f[w] => v = w
    OBVIOUS
  <2> HIDE DEF f, image
  <2> QED BY <2>1, <2>2 DEF Injection, IsInjective
<1>3. Cardinality(image) = Cardinality(ws)
  <2> HIDE DEF f, image
  <2> QED BY <1>1, <1>2, FS_Surjection
<1>4. Cardinality(priced) >= Cardinality(image)
  BY EquityCardinality DEF Equity!EveryHoldingPriced
<1>5. priced \in SUBSET ws
  OBVIOUS
<1> HIDE DEF priced, image
<1>6. /\ Cardinality(priced) <= Cardinality(ws)
      /\ Cardinality(ws) = Cardinality(priced) => ws = priced
  BY <1>5, FS_Subset
<1>7. Cardinality(ws) \in Nat /\ Cardinality(priced) \in Nat
  BY <1>5, FS_Subset, FS_CardinalityType
<1>8. ws = priced
  BY <1>3, <1>4, <1>6, <1>7
<1> QED BY <1>8 DEF priced

(* The newest watches are all of them, while no more were bought.          *)
LEMMA NewestAreAll ==
  ASSUME NEW n \in Nat, NEW table, TableOf(table, n), Cardinality(BoughtBy(table, n)) <= Recent
  PROVE  Equity!Newest(table) = {w \in Tracked : table[w].status # "none"}
<1>1. \A w \in Tracked : /\ table[w].bought \in Nat /\ table[w].bought <= n
                         /\ table[w].status = "none" <=> table[w].bought = 0
  BY DEF TableOf, WatchRows
<1>2. ASSUME NEW w \in Tracked, table[w].status # "none"
      PROVE  Cardinality({v \in Tracked : table[v].bought > table[w].bought}) < Recent
  <2> DEFINE later == {v \in Tracked : table[v].bought > table[w].bought}
             all == BoughtBy(table, n)
  <2>1. w \in all /\ w \notin later
    BY <1>1, <1>2 DEF BoughtBy
  <2>2. later \subseteq all
    BY <1>1 DEF BoughtBy
  <2>3. IsFiniteSet(all) /\ Cardinality(all) \in Nat
    <3>1. all \subseteq Tracked
      BY DEF BoughtBy
    <3> HIDE DEF all
    <3> QED BY <3>1, PartsAreFinite
  <2>4. later \in SUBSET (all \ {w})
    BY <2>1, <2>2
  <2>5. IsFiniteSet(all \ {w}) /\ Cardinality(all \ {w}) = Cardinality(all) - 1
    <3> HIDE DEF all
    <3> QED BY <2>1, <2>3, FS_RemoveElement
  <2>6. Cardinality(later) <= Cardinality(all \ {w}) /\ IsFiniteSet(later)
    <3> HIDE DEF all, later
    <3> QED BY <2>4, <2>5, FS_Subset
  <2>7. Cardinality(later) \in Nat
    <3> HIDE DEF later
    <3> QED BY <2>6, FS_CardinalityType
  <2>8. Recent \in Nat /\ Cardinality(all) <= Recent
    BY EquityAssumption
  <2> HIDE DEF later, all
  <2>9. Cardinality(later) < Recent
    BY <2>3, <2>5, <2>6, <2>7, <2>8
  <2> QED BY <2>9 DEF later
<1>3. \A w \in Tracked :
        table[w].status # "none" => Equity!Cardinality({v \in Tracked : table[v].bought > table[w].bought}) < Recent
  BY <1>2, EquityCardinality
<1> QED BY <1>3 DEF Equity!Newest

LEMMA StatusTells ==
  ASSUME NEW n \in Nat, NEW table, TableOf(table, n), Cardinality(BoughtBy(table, n)) <= Recent
  PROVE  /\ {w \in Equity!Newest(table) : table[w].status = "holding"} = Equity!HeldAt(table, n)
         /\ Equity!Counted(table, Equity!Newest(table)) = Equity!ClosedAt(table, n)
         /\ \A v, w \in Equity!HeldAt(table, n) : SymbolOf[v] = SymbolOf[w] => v = w
<1>1. ASSUME NEW w \in Tracked
      PROVE  /\ table[w].status = "holding" <=> /\ table[w].bought \in 1..n
                                                /\ table[w].sold = 0 \/ table[w].sold > n
             /\ table[w].status \in {"exited", "cooling_off", "sealed"} <=> table[w].sold \in 1..n
  <2>1. /\ table[w].bought \in Nat /\ table[w].bought <= n
        /\ table[w].sold \in Nat /\ table[w].sold <= n
        /\ table[w].status \in {"none", "holding", "exited", "cooling_off", "sealed"}
        /\ table[w].status = "none" <=> table[w].bought = 0
        /\ table[w].status \in {"none", "holding"} <=> table[w].sold = 0
    BY DEF TableOf, WatchRows
  <2> QED BY <2>1
<1>2. Equity!Newest(table) = {w \in Tracked : table[w].status # "none"}
  BY NewestAreAll
<1>3. {w \in Equity!Newest(table) : table[w].status = "holding"} = Equity!HeldAt(table, n)
  BY <1>1, <1>2 DEF Equity!HeldAt
<1>4. Equity!Counted(table, Equity!Newest(table)) = Equity!ClosedAt(table, n)
  BY <1>1, <1>2 DEF Equity!Counted, Equity!ClosedAt
<1>5. ASSUME NEW v \in Equity!HeldAt(table, n), NEW w \in Equity!HeldAt(table, n),
             SymbolOf[v] = SymbolOf[w]
      PROVE  v = w
  <2>1. v \in Tracked /\ w \in Tracked /\ table[v].status = "holding" /\ table[w].status = "holding"
    BY <1>1 DEF Equity!HeldAt
  <2> QED BY <2>1, <1>5 DEF TableOf
<1> QED BY <1>3, <1>4, <1>5

(* The cash of a row is what its other columns leave.                      *)
LEMMA CashAdds ==
  ASSUME NEW n \in Int, NEW real \in Int, NEW unreal \in Int
  PROVE  (Funds - n * PosSize + real) + PosSize * n + unreal = Funds + real + unreal
<1>1. Funds \in Int /\ PosSize \in Int
  BY EquityAssumption
<1>2. PICK p \in Int : p = n * PosSize
  BY <1>1
<1>3. PosSize * n = p
  BY <1>1, <1>2
<1> QED BY <1>1, <1>2, <1>3

LEMMA SnapshotIsTrue ==
  ASSUME NEW n \in Nat, NEW table, TableOf(table, n),
         NEW t \in Nat, n <= t, NEW closes, ClosesUpto(closes, t), NEW known,
         NEW owned, owned = {w \in Equity!Newest(table) : table[w].status = "holding"},
         Equity!EveryHoldingPriced(owned, known),
         NEW marked, marked = {w \in owned : SymbolOf[w] \in known},
         NEW sales, sales = Equity!Counted(table, Equity!Newest(table))
  PROVE  TrueRow(Equity!Row("live", "live", n, owned, SumOver(Pnls(table, sales), sales), known,
                            SumOver(Values(table, closes, marked, t), marked)), table, closes, t)
<1> DEFINE real == SumOver(Pnls(table, sales), sales)
           unreal == SumOver(Values(table, closes, marked, t), marked)
           r == Equity!Row("live", "live", n, owned, real, known, unreal)
<1>0. /\ r.at = n /\ r.by = "live" /\ r.count = Cardinality(owned) /\ r.real = real
      /\ r.cash = Funds - Cardinality(owned) * PosSize + real
      /\ r.unreal = unreal /\ r.equity = Funds + real + unreal /\ r.known = known
  BY EquityCardinality DEF Equity!Row
<1>1. CASE Cardinality(BoughtBy(table, n)) > Recent
  <2>1. TrueRow(r, table, closes, t)
    <3> HIDE DEF r
    <3> QED BY <1>0, <1>1 DEF TrueRow
  <2> QED BY <2>1
<1>2. CASE ~ (Cardinality(BoughtBy(table, n)) > Recent)
  <2>1. Cardinality(BoughtBy(table, n)) <= Recent
    <3>1. BoughtBy(table, n) \subseteq Tracked
      BY DEF BoughtBy
    <3>2. Cardinality(BoughtBy(table, n)) \in Nat /\ Recent \in Nat
      BY <3>1, PartsAreFinite, EquityAssumption
    <3> QED BY <3>2, <1>2
  <2>2. /\ owned = Equity!HeldAt(table, n) /\ sales = Equity!ClosedAt(table, n)
        /\ \A v, w \in owned : SymbolOf[v] = SymbolOf[w] => v = w
    BY <2>1, StatusTells
  <2>3. /\ owned \subseteq Tracked /\ sales \subseteq Tracked
        /\ \A w \in owned : table[w].bought > 0
    BY <2>2 DEF Equity!HeldAt, Equity!ClosedAt
  <2>4. IsFiniteSet(owned) /\ Cardinality(owned) \in Nat
    BY <2>3, PartsAreFinite
  <2>5. marked = owned
    BY <2>2, <2>4, AllPriced
  <2>6. real \in Int
    BY <2>3, PnlIsInt
  <2>7. unreal \in Int
    <3>1. t \in 0..t
      OBVIOUS
    <3>2. t \in Nat /\ TableOf(table, n) /\ marked \subseteq {w \in Tracked : table[w].bought > 0}
      BY <2>3, <2>5
    <3> QED BY <3>1, <3>2, ValueIsInt
  <2> HIDE DEF real, unreal, r
  <2>8. r.cash + PosSize * r.count + r.unreal = r.equity
    BY <1>0, <2>4, <2>6, <2>7, CashAdds
  <2>9. t \in n..t
    OBVIOUS
  <2>10. /\ r.real = SumOver(Pnls(table, sales), sales)
         /\ r.unreal = SumOver(Values(table, closes, marked, t), marked)
    BY <1>0 DEF real, unreal
  <2>11. \E u \in r.at..(IF r.by = "live" THEN t ELSE r.at) :
           r.unreal = SumOver(Values(table, closes, marked, u), marked)
    BY <1>0, <2>9, <2>10
  <2>12. sales = Equity!ClosedAt(table, r.at) /\ owned = Equity!HeldAt(table, r.at)
         /\ marked = {w \in Equity!HeldAt(table, r.at) : SymbolOf[w] \in r.known}
    BY <1>0, <2>2
  <2>13. TrueRow(r, table, closes, t)
    BY <1>0, <2>5, <2>8, <2>10, <2>11, <2>12 DEF TrueRow
  <2> QED BY <2>13 DEF r, real, unreal
<1> QED BY <1>1, <1>2

LEMMA ReplayIsTrue ==
  ASSUME NEW n \in Nat, NEW table, TableOf(table, n), NEW u \in 0..n,
         NEW closes, NEW t, NEW known, NEW src, NEW by, by # "live",
         NEW unreal \in Int, NEW marked,
         marked = {w \in Equity!HeldAt(table, u) : SymbolOf[w] \in known},
         \/ by = "backfill" /\ \E w \in Equity!HeldAt(table, u) : DirectionOf[w] = -1
         \/ unreal = SumOver(Values(table, closes, marked, u), marked)
  PROVE  TrueRow(Equity!Replay(src, by, table, u, known, unreal), table, closes, t)
<1> DEFINE owned == Equity!HeldAt(table, u)
           sales == Equity!ClosedAt(table, u)
           real == SumOver(Pnls(table, sales), sales)
           r == Equity!Replay(src, by, table, u, known, unreal)
<1>0. /\ r.at = u /\ r.by = by /\ r.count = Cardinality(owned) /\ r.real = real
      /\ r.cash = Funds - Cardinality(owned) * PosSize + real
      /\ r.unreal = unreal /\ r.equity = Funds + real + unreal /\ r.known = known
  BY EquityCardinality, PnlIsSum DEF Equity!Replay, Equity!Row
<1>1. owned \subseteq Tracked /\ sales \subseteq Tracked
  BY DEF Equity!HeldAt, Equity!ClosedAt
<1>2. Cardinality(owned) \in Nat /\ real \in Int
  <2> HIDE DEF owned, sales
  <2> QED BY <1>1, PartsAreFinite, PnlIsInt
<1>3. r.cash + PosSize * r.count + r.unreal = r.equity
  <2> HIDE DEF r, real, owned
  <2> QED BY <1>0, <1>2, CashAdds
<1>4. r.real = SumOver(Pnls(table, sales), sales)
  BY <1>0
<1>5. u \in u..u
  OBVIOUS
<1>6. \/ r.by = "backfill" /\ \E w \in owned : DirectionOf[w] = -1
      \/ \E i \in r.at..(IF r.by = "live" THEN t ELSE r.at) :
           r.unreal = SumOver(Values(table, closes, marked, i), marked)
  <2> HIDE DEF r
  <2> QED BY <1>0, <1>5
<1>7. /\ sales = Equity!ClosedAt(table, r.at) /\ owned = Equity!HeldAt(table, r.at)
      /\ marked = {w \in owned : SymbolOf[w] \in r.known}
  BY <1>0
<1>8. TrueRow(r, table, closes, t)
  <2> HIDE DEF r, sales, owned
  <2> QED BY <1>0, <1>3, <1>4, <1>6, <1>7 DEF TrueRow
<1> QED BY <1>8

LEMMA SnapshotReadKeeps == EquityInv /\ Equity!SnapshotRead => EquityInv'
<1> SUFFICES ASSUME EquityInv, Equity!SnapshotRead PROVE EquityInv'
  OBVIOUS
<1>1. /\ UNCHANGED <<clock, close, watch, tool, rows>>
      /\ view' = [task |-> "mark", at |-> clock, watch |-> watch]
  BY DEF Equity!SnapshotRead
<1>2. clock \in 0..clock /\ TableOf(watch, clock) /\ Extends(watch, watch, clock)
  BY SelfExtends DEF EquityInv, EquityTyped
<1>3. ViewTrue'
  BY <1>1, <1>2 DEF ViewTrue
<1>4. EquityTyped' /\ ToolTrue' /\ EquityRows'
  BY <1>1 DEF EquityInv, EquityTyped, ToolTrue, ReadAt, EquityRows
<1> QED BY <1>3, <1>4 DEF EquityInv

LEMMA ToolReadKeeps ==
  ASSUME EquityInv, NEW task \in {"backfill", "rebuild"}, Equity!ToolRead(task)
  PROVE  EquityInv'
<1>1. /\ UNCHANGED <<clock, close, watch, view, rows>>
      /\ tool' = [task |-> task, watch |-> watch, rows |-> rows]
  BY DEF Equity!ToolRead
<1>2. /\ clock \in 0..clock /\ TableOf(watch, clock) /\ Extends(watch, watch, clock)
      /\ \A r \in rows : r.at \in 0..clock
  BY SelfExtends DEF EquityInv, EquityTyped, EquityRows
<1>3. ToolTrue'
  <2>1. ReadAt(clock)'
    BY <1>1, <1>2 DEF ReadAt
  <2> QED BY <1>1, <1>2, <2>1 DEF ToolTrue, ReadAt
<1>4. EquityTyped' /\ ViewTrue' /\ EquityRows'
  BY <1>1 DEF EquityInv, EquityTyped, ViewTrue, EquityRows
<1> QED BY <1>3, <1>4 DEF EquityInv

(* A row that is true of the table its writer read is true of what is.     *)
LEMMA StillTrue ==
  ASSUME EquityTyped, NEW t \in 0..clock, NEW table, TableOf(table, t), Extends(watch, table, t),
         NEW r, r.at \in 0..t, TrueRow(r, table, close, clock)
  PROVE  r.at \in 0..clock /\ TrueRow(r, watch, close, clock)
<1>1. clock \in Nat /\ t \in Nat /\ t <= clock /\ watch \in [Tracked -> WatchRows]
  BY DEF EquityTyped, TableOf
<1>2. r.at <= clock /\ r.at \in 0..clock /\ clock <= clock
  BY <1>1
<1>3. \A s \in Traded : \A i \in 0..clock : close[s][i] = close[s][i]
  OBVIOUS
<1> QED BY <1>1, <1>2, <1>3, StaysTrue

(* Rows that are kept, or true of what the tables say, leave all true.      *)
LEMMA RowsWritten ==
  ASSUME EquityInv, UNCHANGED <<clock, close, watch>>,
         \A r \in rows' : r \in rows \/ (r.at \in 0..clock /\ TrueRow(r, watch, close, clock))
  PROVE  EquityRows'
<1>1. \A r \in rows' : r.at \in 0..clock /\ TrueRow(r, watch, close, clock)
  BY DEF EquityInv, EquityRows
<1> QED BY <1>1 DEF EquityRows

LEMMA SnapshotWriteKeeps == EquityInv /\ Equity!SnapshotWrite => EquityInv'
<1> SUFFICES ASSUME EquityInv, Equity!SnapshotWrite PROVE EquityInv'
  OBVIOUS
<1> DEFINE table == view.watch
           seen == Equity!Newest(table)
           owned == {w \in seen : table[w].status = "holding"}
           sales == Equity!Counted(table, seen)
           Marked(known) == {w \in owned : SymbolOf[w] \in known}
           New(known) == Equity!Row("live", "live", view.at, owned, SumOver(Pnls(table, sales), sales),
                                    known, SumOver(Values(table, close, Marked(known), clock), Marked(known)))
<1>1. view.task = "mark" /\ view' = Equity!Idle /\ UNCHANGED <<clock, close, watch, tool>>
  BY DEF Equity!SnapshotWrite
<1>2. PICK known : rows' = IF Equity!EveryHoldingPriced(owned, known)
                           THEN rows \cup {New(known)} ELSE rows
  <2>1. \A ws : Equity!PnlOf(table, ws) = SumOver(Pnls(table, ws), ws)
    BY PnlIsSum
  <2>2. \A ws : Equity!MarkedToMarket(table, ws, clock) = SumOver(Values(table, close, ws, clock), ws)
    BY MarkedIsSum
  <2>3. \E known : rows' = IF Equity!EveryHoldingPriced(owned, known)
          THEN rows \cup {Equity!Row("live", "live", view.at, owned, Equity!PnlOf(table, sales), known,
                                     Equity!MarkedToMarket(table, Marked(known), clock))}
          ELSE rows
    BY DEF Equity!SnapshotWrite
  <2> HIDE DEF table, sales, Marked, owned
  <2> QED BY <2>1, <2>2, <2>3
<1>3. /\ view.at \in 0..clock /\ TableOf(view.watch, view.at) /\ Extends(watch, view.watch, view.at)
      /\ clock \in Nat /\ ClosesUpto(close, clock)
  BY <1>1 DEF EquityInv, ViewTrue, EquityTyped
<1>4. ASSUME Equity!EveryHoldingPriced(owned, known)
      PROVE  New(known).at \in 0..clock /\ TrueRow(New(known), watch, close, clock)
  <2>1. New(known).at = view.at
    BY DEF Equity!Row
  <2>2. view.at \in Nat /\ view.at <= clock /\ view.at \in 0..view.at
    BY <1>3
  <2>3. TrueRow(New(known), table, close, clock)
    BY <1>3, <1>4, <2>2, SnapshotIsTrue
  <2> HIDE DEF New
  <2> QED BY <1>3, <2>1, <2>2, <2>3, StillTrue DEF EquityInv
<1>5. \A r \in rows' : r \in rows \/ (r.at \in 0..clock /\ TrueRow(r, watch, close, clock))
  <2> HIDE DEF New, owned
  <2> QED BY <1>2, <1>4
<1>6. EquityRows'
  BY <1>1, <1>5, RowsWritten
<1>7. EquityTyped' /\ ViewTrue' /\ ToolTrue'
  BY <1>1 DEF EquityInv, EquityTyped, ViewTrue, ToolTrue, ReadAt, Equity!Idle
<1> QED BY <1>6, <1>7 DEF EquityInv

-----------------------------------------------------------------------------
(* The replays.                                                            *)

(* What backfill_portfolio counts, which takes every watch for bullish.    *)
Costs(table, closes, ws, t) ==
  [w \in ws |-> (PosSize * (closes[SymbolOf[w]][t] - table[w].price)) \div table[w].price]

Bullish(table, ws, t) ==
  Equity!MapThenSumSet(
    LAMBDA w : (PosSize * (close[SymbolOf[w]][t] - table[w].price)) \div table[w].price, ws)

LEMMA BullishIsSum ==
  ASSUME NEW table, NEW ws, NEW t
  PROVE  Bullish(table, ws, t) = SumOver(Costs(table, close, ws, t), ws)
<1> DEFINE V(w) == (PosSize * (close[SymbolOf[w]][t] - table[w].price)) \div table[w].price
<1>1. PICK f : f = Costs(table, close, ws, t)
  OBVIOUS
<1>2. \A h : [s \in SUBSET ws |-> IF s = {} THEN 0 ELSE V(Chosen(s)) + h[s \ {Chosen(s)}]]
           = [s \in SUBSET ws |-> IF s = {} THEN 0 ELSE f[Chosen(s)] + h[s \ {Chosen(s)}]]
  BY <1>1 DEF Chosen, Costs
<1>5. Equity!MapThenSumSet(V, ws) =
        (CHOOSE h : h = [s \in SUBSET ws |-> IF s = {} THEN 0
                           ELSE V(Chosen(s)) + h[s \ {Chosen(s)}]])[ws]
  BY DEF Chosen, Equity!MapThenSumSet, Equity!MapThenFoldSet
<1>6. Bullish(table, ws, t) = Equity!MapThenSumSet(V, ws)
  BY DEF Bullish, Equity!MapThenSumSet, Equity!MapThenFoldSet
<1> HIDE DEF V
<1>3. (CHOOSE h : h = [s \in SUBSET ws |-> IF s = {} THEN 0
                           ELSE V(Chosen(s)) + h[s \ {Chosen(s)}]])
    = (CHOOSE h : h = [s \in SUBSET ws |-> IF s = {} THEN 0
                           ELSE f[Chosen(s)] + h[s \ {Chosen(s)}]])
  BY <1>2, Zenon
<1>4. SumOver(f, ws) = (CHOOSE h : h = [s \in SUBSET ws |-> IF s = {} THEN 0
                           ELSE f[Chosen(s)] + h[s \ {Chosen(s)}]])[ws]
  BY DEF SumOver, Summing
<1> QED BY <1>1, <1>3, <1>4, <1>5, <1>6

LEMMA BullishIsTrue ==
  ASSUME EquityTyped, NEW n \in Nat, NEW table, TableOf(table, n), NEW t \in 0..n, n <= clock,
         NEW known, NEW marked, marked = {w \in Equity!HeldAt(table, t) : SymbolOf[w] \in known}
  PROVE  /\ Bullish(table, marked, t) \in Int
         /\ \/ \E w \in Equity!HeldAt(table, t) : DirectionOf[w] = -1
            \/ Bullish(table, marked, t) = SumOver(Values(table, close, marked, t), marked)
<1>1. ASSUME NEW w \in marked
      PROVE  /\ w \in Equity!HeldAt(table, t) /\ w \in Tracked
             /\ table[w].price \in Marks /\ close[SymbolOf[w]][t] \in Marks
  <2>1. w \in Equity!HeldAt(table, t) /\ w \in Tracked /\ table[w].bought > 0
    BY DEF Equity!HeldAt
  <2>2. table[w].price \in Marks /\ SymbolOf[w] \in Traded
    BY <2>1, EquityAssumption DEF TableOf
  <2>3. t \in 0..clock
    BY DEF EquityTyped
  <2> QED BY <2>1, <2>2, <2>3 DEF EquityTyped, ClosesUpto
<1>2. IsFiniteSet(marked)
  <2>1. marked \subseteq Tracked
    BY DEF Equity!HeldAt
  <2> QED BY <2>1, PartsAreFinite
<1>3. Bullish(table, marked, t) = SumOver(Costs(table, close, marked, t), marked)
  BY BullishIsSum
<1>4. \A w \in marked : Costs(table, close, marked, t)[w] \in Int
  BY <1>1, PnlInt DEF Costs
<1>5. Bullish(table, marked, t) \in Int
  BY <1>2, <1>3, <1>4, SumFacts
<1>6. ASSUME \A w \in Equity!HeldAt(table, t) : DirectionOf[w] # -1
      PROVE  Bullish(table, marked, t) = SumOver(Values(table, close, marked, t), marked)
  <2>1. ASSUME NEW w \in marked
        PROVE  Costs(table, close, marked, t)[w] = Values(table, close, marked, t)[w]
    <3>1. DirectionOf[w] = 1
      BY <1>1, <1>6, EquityAssumption
    <3>2. PICK c \in Int : c = Costs(table, close, marked, t)[w]
      BY <1>4
    <3>3. c = 1 * c
      OBVIOUS
    <3>4. Values(table, close, marked, t)[w] = 1 * c
      BY <3>1, <3>2 DEF Costs, Values, Equity!PctPnl
    <3> QED BY <3>2, <3>3, <3>4
  <2>2. \A w \in marked : Costs(table, close, marked, t)[w] = Values(table, close, marked, t)[w]
    BY <2>1
  <2> QED BY <1>3, <2>2, SumOfEquals
<1> QED BY <1>5, <1>6

LEMMA BackfillWriteKeeps == EquityInv /\ Equity!BackfillWrite => EquityInv'
<1> SUFFICES ASSUME EquityInv, Equity!BackfillWrite PROVE EquityInv'
  OBVIOUS
<1> DEFINE table == tool.watch
           Marked(known, t) == {w \in Equity!HeldAt(table, t) : SymbolOf[w] \in known}
           New(known, t) == Equity!Replay("backfill", "backfill", table, t, known,
                                          Bullish(table, Marked(known, t), t))
<1>1. tool.task = "backfill" /\ tool' = Equity!Idle /\ UNCHANGED <<clock, close, watch, view>>
  BY DEF Equity!BackfillWrite
<1>2. PICK known : rows' = {r \in rows : r.src # "backfill"} \cup
                           {New(known, t) : t \in Equity!EventTimes(table)}
  BY DEF Equity!BackfillWrite, Bullish
<1>3. PICK n \in 0..clock : ReadAt(n)
  BY <1>1 DEF EquityInv, ToolTrue
<1>4. /\ n \in Nat /\ n <= clock /\ TableOf(table, n) /\ Extends(watch, table, n)
      /\ clock \in Nat /\ EquityTyped
  BY <1>3 DEF EquityInv, EquityTyped, ReadAt
<1>5. ASSUME NEW t \in Equity!EventTimes(table)
      PROVE  New(known, t).at \in 0..clock /\ TrueRow(New(known, t), watch, close, clock)
  <2>1. t \in 0..n
    <3>1. \A w \in Tracked : /\ table[w].bought \in Nat /\ table[w].bought <= n
                             /\ table[w].sold \in Nat /\ table[w].sold <= n
      BY <1>4 DEF TableOf, WatchRows
    <3>2. \/ t = 0 \/ \E w \in Tracked : t = table[w].bought
          \/ \E w \in Tracked : t = table[w].sold
      BY DEF Equity!EventTimes
    <3> QED BY <3>1, <3>2, <1>4
  <2>2. New(known, t).at = t
    BY DEF Equity!Replay, Equity!Row
  <2>3. /\ Bullish(table, Marked(known, t), t) \in Int
        /\ \/ \E w \in Equity!HeldAt(table, t) : DirectionOf[w] = -1
           \/ Bullish(table, Marked(known, t), t)
                = SumOver(Values(table, close, Marked(known, t), t), Marked(known, t))
    BY <1>4, <2>1, BullishIsTrue
  <2>4. PICK b \in Int : b = Bullish(table, Marked(known, t), t)
    BY <2>3
  <2>5. TrueRow(Equity!Replay("backfill", "backfill", table, t, known, b), table, close, clock)
    BY <1>4, <2>1, <2>3, <2>4, ReplayIsTrue
  <2>6. TrueRow(New(known, t), table, close, clock)
    BY <2>4, <2>5
  <2> HIDE DEF New
  <2> QED BY <1>3, <1>4, <2>1, <2>2, <2>6, StillTrue
<1>6. \A r \in rows' : r \in rows \/ (r.at \in 0..clock /\ TrueRow(r, watch, close, clock))
  <2> HIDE DEF New, table
  <2> QED BY <1>2, <1>5
<1>7. EquityRows'
  BY <1>1, <1>6, RowsWritten
<1>8. EquityTyped' /\ ViewTrue' /\ ToolTrue'
  BY <1>1 DEF EquityInv, EquityTyped, ViewTrue, ToolTrue, Equity!Idle
<1> QED BY <1>7, <1>8 DEF EquityInv

LEMMA RebuildWriteKeeps == EquityInv /\ Equity!RebuildWrite => EquityInv'
<1> SUFFICES ASSUME EquityInv, Equity!RebuildWrite PROVE EquityInv'
  OBVIOUS
<1> DEFINE table == tool.watch
           Marked(known, t) == {w \in Equity!HeldAt(table, t) : SymbolOf[w] \in known}
           New(known, r) == Equity!Replay(r.src, "rebuild", table, r.at, known,
                              Equity!MarkedToMarket(table, Marked(known, r.at), r.at))
<1>1. tool.task = "rebuild" /\ tool' = Equity!Idle /\ UNCHANGED <<clock, close, watch, view>>
  BY DEF Equity!RebuildWrite
<1> DEFINE Changed(known, r) ==
             r \in tool.rows /\ (r.equity # New(known, r).equity \/ r.unreal # New(known, r).unreal)
<1>2. PICK known : \A r \in rows' : r \in rows \/ \E q \in tool.rows : r = New(known, q)
  <2>1. PICK known : rows' = {IF Changed(known, r) THEN New(known, r) ELSE r : r \in rows}
    BY Zenon DEF Equity!RebuildWrite
  <2>2. ASSUME NEW r \in rows, NEW q, q = IF Changed(known, r) THEN New(known, r) ELSE r
        PROVE  q \in rows \/ \E o \in tool.rows : q = New(known, o)
    <3> HIDE DEF New
    <3> QED BY <2>2
  <2>3. \A q \in rows' : q \in rows \/ \E o \in tool.rows : q = New(known, o)
    <3> HIDE DEF New, Changed
    <3> QED BY <2>1, <2>2
  <2> QED BY <2>3, Zenon
<1> HIDE DEF Changed
<1>3. PICK n \in 0..clock : ReadAt(n)
  BY <1>1 DEF EquityInv, ToolTrue
<1>4. /\ n \in Nat /\ n <= clock /\ TableOf(table, n) /\ Extends(watch, table, n)
      /\ clock \in Nat /\ EquityTyped
  BY <1>3 DEF EquityInv, EquityTyped, ReadAt
<1>5. ASSUME NEW q \in tool.rows
      PROVE  New(known, q).at \in 0..clock /\ TrueRow(New(known, q), watch, close, clock)
  <2>1. q.at \in 0..n
    BY <1>3 DEF ReadAt
  <2>2. New(known, q).at = q.at
    BY DEF Equity!Replay, Equity!Row
  <2>3. Equity!MarkedToMarket(table, Marked(known, q.at), q.at)
          = SumOver(Values(table, close, Marked(known, q.at), q.at), Marked(known, q.at))
    BY MarkedIsSum
  <2>4. SumOver(Values(table, close, Marked(known, q.at), q.at), Marked(known, q.at)) \in Int
    <3>1. /\ Marked(known, q.at) \subseteq {w \in Tracked : table[w].bought > 0}
          /\ q.at \in 0..clock
      BY <1>4, <2>1 DEF Equity!HeldAt
    <3>2. ClosesUpto(close, clock)
      BY <1>4 DEF EquityTyped
    <3> HIDE DEF Marked, table
    <3> QED BY <1>4, <3>1, <3>2, ValueIsInt
  <2>5. PICK b \in Int : b = Equity!MarkedToMarket(table, Marked(known, q.at), q.at)
    BY <2>3, <2>4
  <2>6. TrueRow(Equity!Replay(q.src, "rebuild", table, q.at, known, b), table, close, clock)
    BY <1>4, <2>1, <2>3, <2>5, ReplayIsTrue
  <2>7. TrueRow(New(known, q), table, close, clock)
    BY <2>5, <2>6
  <2> HIDE DEF New
  <2> QED BY <1>3, <1>4, <2>1, <2>2, <2>7, StillTrue
<1>6. \A r \in rows' : r \in rows \/ (r.at \in 0..clock /\ TrueRow(r, watch, close, clock))
  <2> HIDE DEF New, table
  <2> QED BY <1>2, <1>5
<1>7. EquityRows'
  BY <1>1, <1>6, RowsWritten
<1>8. EquityTyped' /\ ViewTrue' /\ ToolTrue'
  BY <1>1 DEF EquityInv, EquityTyped, ViewTrue, ToolTrue, Equity!Idle
<1> QED BY <1>7, <1>8 DEF EquityInv

LEMMA EquityKeeps == EquityInv /\ (Equity!Next \/ UNCHANGED equityVars) => EquityInv'
<1> SUFFICES ASSUME EquityInv, Equity!Next \/ UNCHANGED equityVars PROVE EquityInv'
  OBVIOUS
<1>0. EquityTyped
  BY DEF EquityInv
<1>1. ASSUME NEW s \in Traded, Equity!Move(s) PROVE EquityInv'
  BY <1>0, <1>1, MoveKeeps, TradedKeeps
<1>2. ASSUME NEW w \in Tracked, Equity!Buy(w) \/ Equity!Sell(w) \/ Equity!Age(w) PROVE EquityInv'
  BY <1>0, <1>2, BuyKeeps, SellKeeps, AgeKeeps, TradedKeeps
<1>3. CASE UNCHANGED equityVars
  BY <1>3 DEF equityVars, EquityInv, EquityTyped, ViewTrue, ToolTrue, ReadAt, EquityRows
<1> QED BY <1>1, <1>2, <1>3, SnapshotReadKeeps, SnapshotWriteKeeps, ToolReadKeeps,
           BackfillWriteKeeps, RebuildWriteKeeps DEF Equity!Next

(* Whoever writes a row of the equity curve, and whatever is traded while  *)
(* it reads, the row says what the portfolio held and had earned at its    *)
(* time (live_monitor.py and equity_backfill.py).                          *)
THEOREM RowsStayTrue == Spec => []RowsTrue
<1> DEFINE Inv == part = "equity" => EquityInv
<1>1. Init => Inv
  BY EquityStarts DEF Init
<1>2. Inv /\ [Next]_vars => Inv'
  <2> SUFFICES ASSUME Inv, [Next]_vars, part' = "equity" PROVE EquityInv'
    OBVIOUS
  <2>1. part = "equity"
    BY DEF Next, vars
  <2> QED BY <2>1, EquityStep, EquityKeeps
<1>3. Inv => RowsTrue
  BY RowsAreTrue DEF EquityInv, EquityRows, RowsTrue
<1> QED BY <1>1, <1>2, <1>3, PTL DEF Spec

-----------------------------------------------------------------------------
(* The volume of the ticks, on its way into the database.                  *)

(* What a step of the composition is for the buffer of the ticks.          *)
LEMMA TicksStep ==
  ASSUME [Next]_vars, part = "ticks"
  PROVE  part' = "ticks" /\ (Ticks!Next \/ UNCHANGED tickVars)
BY DEF Next, NextBacktest, NextDelta, NextPrice, NextRecord, vars, deltaVars

Parcels == [symbol : Collected, delta : Int \cup {None}]

(* The volume of symbol s in each trade of a sequence.                     *)
Counted(trades, s) ==
  [i \in 1 .. Len(trades) |->
     IF trades[i].symbol = s THEN Ticks!Counts(trades[i]) ELSE 0]

(* A trade counts for a number.                                            *)
LEMMA ParcelCounts == \A x \in Parcels : Ticks!Counts(x) \in Int
<1> SUFFICES ASSUME NEW x \in Parcels PROVE Ticks!Counts(x) \in Int
  OBVIOUS
<1>1. x.delta \in Int \cup {None}
  BY DEF Parcels
<1> QED BY <1>1 DEF Ticks!Counts, Ticks!Size

(* They are numbers, one for each trade.                                   *)
LEMMA CountedTyped ==
  ASSUME NEW q \in Seq(Parcels), NEW s
  PROVE  Counted(q, s) \in Seq(Int) /\ Len(Counted(q, s)) = Len(q)
<1>1. \A i \in 1 .. Len(q) : Ticks!Counts(q[i]) \in Int
  <2>1. \A i \in 1 .. Len(q) : q[i] \in Parcels
    BY ElementOfSeq
  <2> QED BY <2>1, ParcelCounts
<1>2. Len(q) \in Nat
  BY LenProperties
<1>3. \A i \in 1 .. Len(q) : Counted(q, s)[i] \in Int
  BY <1>1 DEF Counted
<1>4. Counted(q, s) \in [1 .. Len(q) -> Int]
  BY <1>3 DEF Counted
<1> QED BY <1>2, <1>4

(* The sum of Ticks!Volume as a sum over a function.                       *)
LEMMA DeltasAreSum ==
  ASSUME NEW q, NEW S
  PROVE  Ticks!MapThenSumSet(LAMBDA i : Ticks!Counts(q[i]), S) = SumOver([i \in S |-> Ticks!Counts(q[i])], S)
<1>0. PICK f : f = [i \in S |-> Ticks!Counts(q[i])]
  OBVIOUS
<1>2. \A h : [s \in SUBSET S |-> IF s = {} THEN 0 ELSE Ticks!Counts(q[Chosen(s)]) + h[s \ {Chosen(s)}]]
           = [s \in SUBSET S |-> IF s = {} THEN 0 ELSE f[Chosen(s)] + h[s \ {Chosen(s)}]]
  BY <1>0 DEF Chosen
<1>3. (CHOOSE h : h = [s \in SUBSET S |-> IF s = {} THEN 0
                           ELSE Ticks!Counts(q[Chosen(s)]) + h[s \ {Chosen(s)}]])
    = (CHOOSE h : h = [s \in SUBSET S |-> IF s = {} THEN 0
                           ELSE f[Chosen(s)] + h[s \ {Chosen(s)}]])
  BY <1>2, Zenon
<1>4. SumOver(f, S) = (CHOOSE h : h = [s \in SUBSET S |-> IF s = {} THEN 0
                           ELSE f[Chosen(s)] + h[s \ {Chosen(s)}]])[S]
  BY DEF SumOver, Summing
<1>5. Ticks!MapThenSumSet(LAMBDA i : Ticks!Counts(q[i]), S) =
        (CHOOSE h : h = [s \in SUBSET S |-> IF s = {} THEN 0
                           ELSE Ticks!Counts(q[Chosen(s)]) + h[s \ {Chosen(s)}]])[S]
  BY DEF Chosen, Ticks!MapThenSumSet, Ticks!MapThenFoldSet
<1> QED BY <1>0, <1>3, <1>4, <1>5

(* What Volume counts of a symbol is the total of a sequence's numbers.    *)
LEMMA VolumeIsTotal ==
  ASSUME NEW q \in Seq(Parcels), NEW s
  PROVE  Ticks!Volume(q, s) = Total(Counted(q, s)) /\ Total(Counted(q, s)) \in Int
<1> DEFINE c == Counted(q, s)
           all == 1 .. Len(q)
           T == {i \in all : q[i].symbol = s}
           d == [i \in T |-> Ticks!Counts(q[i])]
<1>1. c \in Seq(Int) /\ Len(c) = Len(q) /\ Len(q) \in Nat /\ DOMAIN q = all
  BY CountedTyped
<1>2. IsFiniteSet(all)
  <2>1. 1 \in Int /\ Len(q) \in Int
    BY <1>1
  <2> QED BY <2>1, FS_Interval
<1>3. \A i \in all : c[i] \in Int
  <2>1. 1 .. Len(c) = all
    BY <1>1
  <2> HIDE DEF c, all
  <2> QED BY <1>1, <2>1
<1>4. T \subseteq all /\ \A i \in all \ T : c[i] = 0
  BY DEF Counted
<1>5. \A i \in T : c[i] = d[i]
  BY DEF Counted
<1>6. Ticks!Volume(q, s) = SumOver(d, T)
  <2>1. {i \in DOMAIN q : q[i].symbol = s} = T
    BY <1>1
  <2>2. PICK W : W = T
    OBVIOUS
  <2>3. Ticks!MapThenSumSet(LAMBDA i : Ticks!Counts(q[i]), W) = SumOver([i \in W |-> Ticks!Counts(q[i])], W)
    BY DeltasAreSum
  <2> QED BY <2>1, <2>2, <2>3 DEF Ticks!Volume
<1> HIDE DEF c, all, T, d
<1>7. SumOver(c, T) = SumOver(d, T)
  BY <1>5, SumOfEquals
<1>8. SumOver(c, all) = SumOver(c, T) /\ SumOver(c, all) \in Int
  <2>1. \A i \in all \ T : c[i] = 0
    BY <1>4
  <2>2. SumOver(c, all) \in Int
    BY <1>2, <1>3, SumFacts
  <2>3. T \subseteq all
    BY <1>4
  <2>4. SumOver(c, all) = SumOver(c, T)
    BY <1>2, <1>3, <2>1, <2>3, SumWithoutZeros
  <2> QED BY <2>2, <2>4
<1>9. Total(c) = SumOver(c, all)
  BY <1>1 DEF Total, all
<1> QED BY <1>6, <1>7, <1>8, <1>9 DEF c

(* The volume of no trades, of one, and of two sequences.                  *)
LEMMA VolumeOfNone == \A s : Ticks!Volume(<<>>, s) = 0
<1> SUFFICES ASSUME NEW s PROVE Ticks!Volume(<<>>, s) = 0
  OBVIOUS
<1>1. Counted(<<>>, s) = <<>>
  BY DEF Counted
<1>2. <<>> \in Seq(Parcels)
  OBVIOUS
<1> QED BY <1>1, <1>2, VolumeIsTotal, TotalOfNone

(* Of one trade, it is its own.                                            *)
LEMMA VolumeOfOne ==
  ASSUME NEW x \in Parcels, NEW s
  PROVE  Ticks!Volume(<<x>>, s) = IF x.symbol = s THEN Ticks!Counts(x) ELSE 0
<1> DEFINE v == IF x.symbol = s THEN Ticks!Counts(x) ELSE 0
<1>1. v \in Int
  BY ParcelCounts
<1>2. Counted(<<x>>, s) = <<v>>
  BY DEF Counted
<1>3. <<x>> \in Seq(Parcels)
  OBVIOUS
<1>4. Total(<<v>>) = v
  <2> HIDE DEF v
  <2> QED BY <1>1, TotalOfOne
<1> QED BY <1>2, <1>3, <1>4, VolumeIsTotal

(* Of two sequences, it is what both are.                                  *)
LEMMA VolumeAdds ==
  ASSUME NEW q \in Seq(Parcels), NEW r \in Seq(Parcels), NEW s
  PROVE  /\ Ticks!Volume(q \o r, s) = Ticks!Volume(q, s) + Ticks!Volume(r, s)
         /\ Ticks!Volume(q, s) \in Int /\ Ticks!Volume(r, s) \in Int
         /\ q \o r \in Seq(Parcels)
<1>1. q \o r \in Seq(Parcels)
  OBVIOUS
<1> DEFINE a == Counted(q, s)
           b == Counted(r, s)
           c == Counted(q \o r, s)
<1>2. /\ a \in Seq(Int) /\ b \in Seq(Int) /\ c \in Seq(Int)
      /\ Len(a) = Len(q) /\ Len(b) = Len(r) /\ Len(c) = Len(q \o r)
  BY <1>1, CountedTyped
<1>3. /\ Len(q \o r) = Len(q) + Len(r) /\ Len(q) \in Nat /\ Len(r) \in Nat
      /\ \A i \in 1 .. Len(q) + Len(r) :
           (q \o r)[i] = IF i <= Len(q) THEN q[i] ELSE r[i - Len(q)]
  OBVIOUS
<1>4. \A i \in 1 .. Len(q) + Len(r) : c[i] = IF i <= Len(q) THEN a[i] ELSE b[i - Len(q)]
  <2> SUFFICES ASSUME NEW i \in 1 .. Len(q) + Len(r)
               PROVE  c[i] = IF i <= Len(q) THEN a[i] ELSE b[i - Len(q)]
    OBVIOUS
  <2>1. CASE i <= Len(q)
    <3>1. i \in 1 .. Len(q) /\ i \in 1 .. Len(q \o r) /\ (q \o r)[i] = q[i]
      BY <1>3, <2>1
    <3>2. c[i] = a[i]
      BY <3>1 DEF Counted
    <3> HIDE DEF a, b, c
    <3> QED BY <2>1, <3>2
  <2>2. CASE ~(i <= Len(q))
    <3>1. i - Len(q) \in 1 .. Len(r) /\ i \in 1 .. Len(q \o r) /\ (q \o r)[i] = r[i - Len(q)]
      BY <1>3, <2>2
    <3>2. c[i] = b[i - Len(q)]
      BY <3>1 DEF Counted
    <3> HIDE DEF a, b, c
    <3> QED BY <2>2, <3>2
  <2> QED BY <2>1, <2>2
<1>5. c = a \o b
  <2> HIDE DEF a, b, c
  <2>1. /\ a \o b \in Seq(Int) /\ Len(a \o b) = Len(c)
        /\ \A i \in 1 .. Len(c) : (a \o b)[i] = IF i <= Len(q) THEN a[i] ELSE b[i - Len(q)]
    <3>1. /\ a \o b \in Seq(Int) /\ Len(a \o b) = Len(a) + Len(b)
          /\ \A i \in 1 .. Len(a) + Len(b) :
               (a \o b)[i] = IF i <= Len(a) THEN a[i] ELSE b[i - Len(a)]
      BY <1>2, ConcatProperties
    <3>2. Len(a) + Len(b) = Len(c)
      BY <1>2, <1>3
    <3> QED BY <1>2, <3>1, <3>2
  <2>2. \A i \in 1 .. Len(c) : (a \o b)[i] = c[i]
    BY <1>2, <1>3, <1>4, <2>1
  <2> QED BY <1>2, <2>1, <2>2, SeqEqual
<1>6. Total(a \o b) = Total(a) + Total(b)
  <2> HIDE DEF a, b
  <2> QED BY <1>2, TotalAdds
<1>7. /\ Ticks!Volume(q, s) = Total(a) /\ Ticks!Volume(r, s) = Total(b)
      /\ Ticks!Volume(q \o r, s) = Total(c) /\ Total(a) \in Int /\ Total(b) \in Int
  BY <1>1, VolumeIsTotal
<1> QED BY <1>1, <1>5, <1>6, <1>7

TicksTyped ==
  /\ total \in [Collected -> Nat] /\ prev \in [Collected -> Nat \cup {None}]
  /\ opened \in [Collected -> Nat \cup {None}] /\ bare \in [Collected -> Nat]
  /\ buffer \in Seq(Parcels) /\ batch \in Seq(Parcels)
  /\ tickStored \in [Collected -> Int] /\ lost \in [Collected -> Int]

(* The trade that a part of a message makes.                               *)
Makes(c) == IF c.kind # "quote" /\ ~Ticks!Stale(c) THEN <<Ticks!AsTrade(c)>> ELSE <<>>

(* What a noted total of symbol s counts for.                              *)
Gain(s) == IF prev[s] = None THEN 1 ELSE IF Ticks!Grown(s) > 0 THEN Ticks!Grown(s) ELSE 0

(* Whether a part of a message is a trade of symbol s without a total.     *)
IsBare(c, s) == c.symbol = s /\ c.kind = "bare_trade"

(* It is a number.                                                         *)
LEMMA GainTyped ==
  ASSUME TicksTyped, NEW s \in Collected
  PROVE  /\ Gain(s) \in Nat
         /\ prev[s] # None => Ticks!Grown(s) \in Int /\ Ticks!Grown(s) = total[s] - prev[s]
         /\ prev[s] \in Nat \cup {None} /\ total[s] \in Nat /\ None \notin Int
<1>1. prev[s] \in Nat \cup {None} /\ total[s] \in Nat /\ None \notin Int
  BY VolumeAssumption DEF TicksTyped
<1>2. prev[s] # None => Ticks!Grown(s) \in Int /\ Ticks!Grown(s) = total[s] - prev[s]
  BY <1>1 DEF Ticks!Grown
<1>3. Gain(s) \in Nat
  BY <1>2 DEF Gain
<1> QED BY <1>1, <1>2, <1>3

(* A part that is a trade has what the total has grown by, or its size.    *)
LEMMA MakesVolume ==
  ASSUME TicksTyped, NEW c \in Ticks!Contents
  PROVE  /\ Makes(c) \in Seq(Parcels)
         /\ \A s \in Collected :
              Ticks!Volume(Makes(c), s) =
                IF c.symbol = s /\ c.kind = "trade" THEN Gain(s)
                ELSE IF IsBare(c, s) THEN 1 ELSE 0
<1>1. c.symbol \in Collected /\ c.kind \in {"quote", "trade", "bare_trade"}
  BY DEF Ticks!Contents
<1>2. /\ prev[c.symbol] # None => Ticks!Grown(c.symbol) \in Int
      /\ prev[c.symbol] \in Nat \cup {None} /\ None \notin Int
  BY <1>1, GainTyped
<1>3. CASE c.kind = "quote"
  <2>1. Makes(c) = <<>>
    BY <1>3 DEF Makes
  <2>2. <<>> \in Seq(Parcels)
    OBVIOUS
  <2> QED BY <1>3, <2>1, <2>2, VolumeOfNone DEF IsBare
<1>4. CASE Ticks!Stale(c)
  <2>1. /\ Makes(c) = <<>> /\ c.kind = "trade" /\ prev[c.symbol] # None
        /\ Ticks!Grown(c.symbol) <= 0
    BY <1>4 DEF Makes, Ticks!Stale
  <2>2. Gain(c.symbol) = 0
    BY <1>2, <2>1 DEF Gain
  <2>3. <<>> \in Seq(Parcels)
    OBVIOUS
  <2> QED BY <2>1, <2>2, <2>3, VolumeOfNone DEF IsBare
<1>5. CASE c.kind # "quote" /\ ~Ticks!Stale(c)
  <2>1. PICK x : x = Ticks!AsTrade(c)
    OBVIOUS
  <2>2. Makes(c) = <<x>>
    BY <1>5, <2>1 DEF Makes
  <2>3. x.symbol = c.symbol /\ x.delta = Ticks!Delta(c) /\ x = [symbol |-> c.symbol, delta |-> x.delta]
    BY <2>1 DEF Ticks!AsTrade
  <2>4. /\ x.delta \in Int \cup {None}
        /\ Ticks!Counts(x) = IF c.kind = "trade" THEN Gain(c.symbol) ELSE 1
    <3>1. CASE c.kind = "bare_trade"
      <4>1. x.delta = None
        BY <2>3, <3>1 DEF Ticks!Delta
      <4> QED BY <3>1, <4>1 DEF Ticks!Counts, Ticks!Size
    <3>2. CASE c.kind = "trade" /\ prev[c.symbol] = None
      <4>1. x.delta = None
        BY <2>3, <3>2 DEF Ticks!Delta
      <4> QED BY <3>2, <4>1 DEF Ticks!Counts, Ticks!Size, Gain
    <3>3. CASE c.kind = "trade" /\ prev[c.symbol] # None
      <4>1. x.delta = Ticks!Grown(c.symbol)
        BY <2>3, <3>3 DEF Ticks!Delta
      <4>2. ~(Ticks!Grown(c.symbol) <= 0)
        BY <1>5, <3>3 DEF Ticks!Stale
      <4>3. Ticks!Grown(c.symbol) \in Int /\ Ticks!Grown(c.symbol) > 0 /\ Ticks!Grown(c.symbol) # None
        BY <1>2, <3>3, <4>2
      <4> QED BY <3>3, <4>1, <4>3 DEF Ticks!Counts, Gain
    <3> QED BY <1>1, <1>5, <3>1, <3>2, <3>3
  <2>5. x \in Parcels
    BY <1>1, <2>3, <2>4 DEF Parcels
  <2>6. Makes(c) \in Seq(Parcels)
    BY <2>2, <2>5
  <2>7. ASSUME NEW s \in Collected
        PROVE  Ticks!Volume(Makes(c), s) = IF c.symbol = s /\ c.kind = "trade" THEN Gain(s)
                                           ELSE IF IsBare(c, s) THEN 1 ELSE 0
    <3>1. Ticks!Volume(<<x>>, s) = IF x.symbol = s THEN Ticks!Counts(x) ELSE 0
      BY <2>5, VolumeOfOne
    <3> QED BY <1>1, <1>5, <2>2, <2>3, <2>4, <3>1 DEF IsBare
  <2> QED BY <2>6, <2>7
<1> QED BY <1>3, <1>4, <1>5

(* A message of one part.                                                  *)
LEMMA OneContent ==
  ASSUME NEW c \in Ticks!Contents
  PROVE  /\ Ticks!Parsed(<<c>>) = Makes(c)
         /\ Ticks!Noted(<<c>>) = IF c.kind = "trade" THEN {c.symbol} ELSE {}
         /\ \A s : Ticks!Bare(<<c>>, s) = IF IsBare(c, s) THEN 1 ELSE 0
<1> DEFINE m == <<c>>
<1>1. DOMAIN m = {1} /\ m[1] = c
  OBVIOUS
<1>2. Ticks!Looked(m) = {1}
  <2>1. 1 .. 1 - 1 = {}
    OBVIOUS
  <2> QED BY <1>1, <2>1 DEF Ticks!Looked
<1> DEFINE kept == {i \in Ticks!Looked(m) : m[i].kind # "quote" /\ ~Ticks!Stale(m[i])}
<1>3. kept = IF c.kind # "quote" /\ ~Ticks!Stale(c) THEN {1} ELSE {}
  BY <1>1, <1>2
<1>4. Ticks!Max({1}) = 1
  BY DEF Ticks!Max
<1>5. Ticks!Parsed(m) = IF kept = {1, 2} THEN <<Ticks!AsTrade(m[1]), Ticks!AsTrade(m[2])>>
                        ELSE IF kept = {} THEN <<>> ELSE <<Ticks!AsTrade(m[Ticks!Max(kept)])>>
  BY DEF Ticks!Parsed
<1>6. Ticks!Noted(m) = IF c.kind = "trade" THEN {c.symbol} ELSE {}
  BY <1>1, <1>2 DEF Ticks!Noted
<1>9. \A s : Ticks!Bare(m, s) = IF IsBare(c, s) THEN 1 ELSE 0
  BY <1>1, <1>2 DEF Ticks!Bare, IsBare
<1>7. {1} # {1, 2} /\ {} # {1, 2} /\ {1} # {}
  OBVIOUS
<1>8. Ticks!Parsed(m) = Makes(c)
  <2> HIDE DEF kept
  <2>1. CASE c.kind # "quote" /\ ~Ticks!Stale(c)
    <3>1. Ticks!Parsed(m) = <<Ticks!AsTrade(m[1])>>
      BY <1>3, <1>4, <1>5, <1>7, <2>1
    <3> QED BY <1>1, <2>1, <3>1 DEF Makes
  <2>2. CASE ~(c.kind # "quote" /\ ~Ticks!Stale(c))
    BY <1>3, <1>5, <1>7, <2>2 DEF Makes
  <2> QED BY <2>1, <2>2
<1> QED BY <1>6, <1>8, <1>9

(* Sequences of one or no element, one behind the other.                   *)
LEMMA Joined ==
  ASSUME NEW x, NEW y
  PROVE  /\ <<x>> \o <<y>> = <<x, y>> /\ <<x>> \o <<>> = <<x>> /\ <<>> \o <<y>> = <<y>>
         /\ <<>> \o <<>> = <<>>
<1>1. PICK S : S = {x, y}
  OBVIOUS
<1>2. <<x>> \in Seq(S) /\ <<y>> \in Seq(S) /\ <<>> \in Seq(S) /\ <<x, y>> \in Seq(S)
  BY <1>1
<1>3. <<x>> \o <<y>> = <<x, y>>
  <2>1. PICK p, q, r : p = <<x>> /\ q = <<y>> /\ r = <<x, y>>
    OBVIOUS
  <2>2. /\ p \in Seq(S) /\ q \in Seq(S) /\ r \in Seq(S) /\ Len(p) = 1 /\ Len(q) = 1 /\ Len(r) = 2
        /\ p[1] = x /\ q[1] = y /\ r[1] = x /\ r[2] = y
    BY <1>2, <2>1
  <2>3. /\ p \o q \in Seq(S) /\ Len(p \o q) = Len(p) + Len(q)
        /\ \A i \in 1 .. Len(p) + Len(q) :
             (p \o q)[i] = IF i <= Len(p) THEN p[i] ELSE q[i - Len(p)]
    BY <2>2, ConcatProperties
  <2>4. Len(p \o q) = Len(r) /\ \A i \in 1 .. Len(p \o q) : (p \o q)[i] = r[i]
    BY <2>2, <2>3
  <2>5. p \o q = r
    BY <2>2, <2>3, <2>4, SeqEqual
  <2> QED BY <2>1, <2>5
<1> QED BY <1>2, <1>3, ConcatEmptySeq

(* A message of two parts, of one symbol or of two.                        *)
LEMMA TwoContents ==
  ASSUME NEW c \in Ticks!Contents, NEW d \in Ticks!Contents
  PROVE  /\ Ticks!Parsed(<<c, d>>) = IF Ticks!Stale(c) THEN <<>> ELSE Makes(c) \o Makes(d)
         /\ Ticks!Noted(<<c, d>>) = (IF c.kind = "trade" THEN {c.symbol} ELSE {})
              \cup (IF d.kind = "trade" /\ ~Ticks!Stale(c) THEN {d.symbol} ELSE {})
         /\ \A s : Ticks!Bare(<<c, d>>, s) =
                     IF IsBare(c, s) \/ (IsBare(d, s) /\ ~Ticks!Stale(c)) THEN 1 ELSE 0
<1> DEFINE m == <<c, d>>
           kept == {i \in Ticks!Looked(m) : m[i].kind # "quote" /\ ~Ticks!Stale(m[i])}
<1>1. DOMAIN m = {1, 2} /\ m[1] = c /\ m[2] = d
  OBVIOUS
<1>2. Ticks!Looked(m) = IF Ticks!Stale(c) THEN {1} ELSE {1, 2}
  <2>1. 1 .. 1 - 1 = {} /\ 1 .. 2 - 1 = {1}
    OBVIOUS
  <2> QED BY <1>1, <2>1 DEF Ticks!Looked
<1>3. Ticks!Noted(m) = (IF c.kind = "trade" THEN {c.symbol} ELSE {})
              \cup (IF d.kind = "trade" /\ ~Ticks!Stale(c) THEN {d.symbol} ELSE {})
  <2>1. CASE Ticks!Stale(c)
    BY <1>1, <1>2, <2>1 DEF Ticks!Noted
  <2>2. CASE ~Ticks!Stale(c)
    <3>1. Ticks!Noted(m) = {m[i].symbol : i \in {j \in {1, 2} : m[j].kind = "trade"}}
      BY <1>2, <2>2 DEF Ticks!Noted
    <3> QED BY <1>1, <2>2, <3>1
  <2> QED BY <2>1, <2>2
<1>8. \A s : Ticks!Bare(m, s) =
               IF IsBare(c, s) \/ (IsBare(d, s) /\ ~Ticks!Stale(c)) THEN 1 ELSE 0
  <2>1. CASE Ticks!Stale(c)
    BY <1>1, <1>2, <2>1 DEF Ticks!Bare, IsBare
  <2>2. CASE ~Ticks!Stale(c)
    BY <1>1, <1>2, <2>2 DEF Ticks!Bare, IsBare
  <2> QED BY <2>1, <2>2
<1>4. Ticks!Max({1}) = 1 /\ Ticks!Max({2}) = 2
  BY DEF Ticks!Max
<1>5. Ticks!Parsed(m) = IF kept = {1, 2} THEN <<Ticks!AsTrade(m[1]), Ticks!AsTrade(m[2])>>
                        ELSE IF kept = {} THEN <<>> ELSE <<Ticks!AsTrade(m[Ticks!Max(kept)])>>
  BY DEF Ticks!Parsed
<1>6. CASE Ticks!Stale(c)
  <2>1. kept = {}
    BY <1>1, <1>2, <1>6
  <2>2. {} # {1, 2}
    OBVIOUS
  <2> HIDE DEF kept
  <2> QED BY <1>3, <1>5, <1>6, <1>8, <2>1, <2>2
<1>7. CASE ~Ticks!Stale(c)
  <2> DEFINE A == c.kind # "quote"
             B == d.kind # "quote" /\ ~Ticks!Stale(d)
  <2>1. \A i : i \in kept <=> (i = 1 /\ A) \/ (i = 2 /\ B)
    BY <1>1, <1>2, <1>7
  <2>2. Makes(c) = IF A THEN <<Ticks!AsTrade(c)>> ELSE <<>>
    BY <1>7 DEF Makes
  <2>3. Makes(d) = IF B THEN <<Ticks!AsTrade(d)>> ELSE <<>>
    BY DEF Makes
  <2>4. {1} # {1, 2} /\ {2} # {1, 2} /\ {} # {1, 2} /\ {1} # {} /\ {2} # {}
    OBVIOUS
  <2>5. PICK x, y : x = Ticks!AsTrade(c) /\ y = Ticks!AsTrade(d)
    OBVIOUS
  <2>6. /\ <<x>> \o <<y>> = <<x, y>> /\ <<x>> \o <<>> = <<x>> /\ <<>> \o <<y>> = <<y>>
        /\ <<>> \o <<>> = <<>>
    BY Joined
  <2> HIDE DEF kept, A, B, m
  <2>7. CASE A /\ B
    <3>1. kept = {1, 2}
      BY <2>1, <2>7
    <3> QED BY <1>1, <1>3, <1>5, <1>7, <1>8, <2>2, <2>3, <2>5, <2>6, <2>7, <3>1 DEF m
  <2>8. CASE A /\ ~B
    <3>1. kept = {1}
      BY <2>1, <2>8
    <3> QED BY <1>1, <1>3, <1>4, <1>5, <1>7, <1>8, <2>2, <2>3, <2>4, <2>5, <2>6, <2>8, <3>1 DEF m
  <2>9. CASE ~A /\ B
    <3>1. kept = {2}
      BY <2>1, <2>9
    <3> QED BY <1>1, <1>3, <1>4, <1>5, <1>7, <1>8, <2>2, <2>3, <2>4, <2>5, <2>6, <2>9, <3>1 DEF m
  <2>10. CASE ~A /\ ~B
    <3>1. kept = {}
      BY <2>1, <2>10
    <3> QED BY <1>1, <1>3, <1>5, <1>7, <1>8, <2>2, <2>3, <2>4, <2>6, <2>10, <3>1 DEF m
  <2> QED BY <2>7, <2>8, <2>9, <2>10
<1> QED BY <1>6, <1>7

(* What a message adds to the volume on its way.                           *)
LEMMA ParsedVolume ==
  ASSUME TicksTyped, NEW m \in Ticks!Messages
  PROVE  /\ Ticks!Parsed(m) \in Seq(Parcels)
         /\ \A s \in Collected :
              /\ Ticks!Volume(Ticks!Parsed(m), s)
                   = (IF s \in Ticks!Noted(m) THEN Gain(s) ELSE 0) + Ticks!Bare(m, s)
              /\ Ticks!Bare(m, s) \in {0, 1}
              /\ s \in Ticks!Noted(m) =>
                   \E i \in DOMAIN m : m[i].kind = "trade" /\ m[i].symbol = s
<1>1. CASE \E c \in Ticks!Contents : m = <<c>>
  <2>1. PICK c \in Ticks!Contents : m = <<c>>
    BY <1>1
  <2>2. /\ Ticks!Parsed(m) = Makes(c) /\ Ticks!Noted(m) = IF c.kind = "trade" THEN {c.symbol} ELSE {}
        /\ \A s : Ticks!Bare(m, s) = IF IsBare(c, s) THEN 1 ELSE 0
    BY <2>1, OneContent
  <2>3. \A s : s \in Ticks!Noted(m) <=> c.kind = "trade" /\ c.symbol = s
    BY <2>2
  <2>4. 1 \in DOMAIN m /\ m[1] = c
    BY <2>1
  <2>5. Makes(c) \in Seq(Parcels)
    BY MakesVolume
  <2>6. ASSUME NEW s \in Collected
        PROVE  Ticks!Volume(Ticks!Parsed(m), s)
                 = (IF s \in Ticks!Noted(m) THEN Gain(s) ELSE 0) + Ticks!Bare(m, s)
    <3>1. Ticks!Volume(Makes(c), s) = IF c.symbol = s /\ c.kind = "trade" THEN Gain(s)
                                      ELSE IF IsBare(c, s) THEN 1 ELSE 0
      BY MakesVolume
    <3>2. c.kind = "trade" => ~IsBare(c, s)
      BY DEF IsBare
    <3>3. Gain(s) \in Int
      BY GainTyped
    <3> QED BY <2>2, <2>3, <3>1, <3>2, <3>3
  <2> QED BY <2>2, <2>3, <2>4, <2>5, <2>6
<1>2. CASE \E c, d \in Ticks!Contents : m = <<c, d>> /\ c.symbol # d.symbol
  <2>1. PICK c \in Ticks!Contents, d \in Ticks!Contents : m = <<c, d>> /\ c.symbol # d.symbol
    BY <1>2
  <2>2. /\ Ticks!Parsed(m) = IF Ticks!Stale(c) THEN <<>> ELSE Makes(c) \o Makes(d)
        /\ Ticks!Noted(m) = (IF c.kind = "trade" THEN {c.symbol} ELSE {})
              \cup (IF d.kind = "trade" /\ ~Ticks!Stale(c) THEN {d.symbol} ELSE {})
        /\ \A s : Ticks!Bare(m, s) =
                    IF IsBare(c, s) \/ (IsBare(d, s) /\ ~Ticks!Stale(c)) THEN 1 ELSE 0
    BY <2>1, TwoContents
  <2>3. {1, 2} = DOMAIN m /\ m[1] = c /\ m[2] = d
    BY <2>1
  <2>4. Makes(c) \in Seq(Parcels) /\ Makes(d) \in Seq(Parcels)
    BY MakesVolume
  <2>5. Ticks!Parsed(m) \in Seq(Parcels)
    <3>1. CASE Ticks!Stale(c)
      <4>1. Ticks!Parsed(m) = <<>>
        BY <2>2, <3>1
      <4> QED BY <4>1
    <3>2. CASE ~Ticks!Stale(c)
      BY <2>2, <2>4, <3>2, VolumeAdds
    <3> QED BY <3>1, <3>2
  <2>6. ASSUME NEW s \in Collected
        PROVE  Ticks!Volume(Ticks!Parsed(m), s)
                 = (IF s \in Ticks!Noted(m) THEN Gain(s) ELSE 0) + Ticks!Bare(m, s)
    <3>1. /\ Ticks!Volume(Makes(c), s) = IF c.symbol = s /\ c.kind = "trade" THEN Gain(s)
                                         ELSE IF IsBare(c, s) THEN 1 ELSE 0
          /\ Ticks!Volume(Makes(d), s) = IF d.symbol = s /\ d.kind = "trade" THEN Gain(s)
                                         ELSE IF IsBare(d, s) THEN 1 ELSE 0
      BY MakesVolume
    <3>2. /\ c.kind = "trade" => ~IsBare(c, s)
          /\ d.kind = "trade" => ~IsBare(d, s)
          /\ c.symbol # s => ~IsBare(c, s)
          /\ d.symbol # s => ~IsBare(d, s)
          /\ ~(c.symbol = s /\ d.symbol = s)
      BY <2>1 DEF IsBare
    <3>3. Gain(s) \in Int
      BY GainTyped
    <3>4. CASE Ticks!Stale(c)
      <4>1. Ticks!Volume(Ticks!Parsed(m), s) = 0
        BY <2>2, <3>4, VolumeOfNone
      <4>2. s \in Ticks!Noted(m) <=> c.kind = "trade" /\ c.symbol = s
        BY <2>2, <3>4
      <4>3. c.kind = "trade" /\ Makes(c) = <<>>
        BY <3>4 DEF Makes, Ticks!Stale
      <4>4. c.symbol = s => Gain(s) = 0
        BY <3>1, <4>3, VolumeOfNone
      <4>5. Ticks!Bare(m, s) = 0
        BY <2>2, <3>2, <3>4, <4>3
      <4> QED BY <4>1, <4>2, <4>4, <4>5
    <3>5. CASE ~Ticks!Stale(c)
      <4>1. Ticks!Volume(Ticks!Parsed(m), s)
              = Ticks!Volume(Makes(c), s) + Ticks!Volume(Makes(d), s)
        BY <2>2, <2>4, <3>5, VolumeAdds
      <4>2. s \in Ticks!Noted(m) <=> \/ c.kind = "trade" /\ c.symbol = s
                                     \/ d.kind = "trade" /\ d.symbol = s
        BY <2>2, <3>5
      <4>3. Ticks!Bare(m, s) = IF IsBare(c, s) \/ IsBare(d, s) THEN 1 ELSE 0
        BY <2>2, <3>5
      <4>4. CASE c.symbol = s
        <5>1. Ticks!Volume(Makes(d), s) = 0
          BY <3>1, <3>2, <4>4
        <5> QED BY <3>1, <3>2, <3>3, <4>1, <4>2, <4>3, <4>4, <5>1
      <4>5. CASE c.symbol # s
        <5>1. Ticks!Volume(Makes(c), s) = 0
          BY <3>1, <3>2, <4>5
        <5> QED BY <3>1, <3>2, <3>3, <4>1, <4>2, <4>3, <4>5, <5>1
      <4> QED BY <4>4, <4>5
    <3> QED BY <3>4, <3>5
  <2>7. ASSUME NEW s \in Collected, s \in Ticks!Noted(m)
        PROVE  \E i \in DOMAIN m : m[i].kind = "trade" /\ m[i].symbol = s
    <3>1. (c.kind = "trade" /\ c.symbol = s) \/ (d.kind = "trade" /\ d.symbol = s)
      BY <2>2, <2>7
    <3> QED BY <2>3, <3>1
  <2> QED BY <2>2, <2>5, <2>6, <2>7
<1>3. (\E c \in Ticks!Contents : m = <<c>>)
      \/ \E c, d \in Ticks!Contents : m = <<c, d>> /\ c.symbol # d.symbol
  BY DEF Ticks!Messages
<1> QED BY <1>1, <1>2, <1>3

(* Before a total of the session is noted, only trades without a total     *)
(* count; then the volume since the total that was noted first does, and   *)
(* at most that total more.                                                *)
Within(s) ==
  IF opened[s] = None
  THEN Ticks!Counted(s) = bare[s]
  ELSE /\ prev[s] # None /\ prev[s] <= total[s]
       /\ prev[s] - opened[s] + bare[s] <= Ticks!Counted(s)
       /\ Ticks!Counted(s) <= prev[s] + bare[s]

TicksCounted == \A s \in Collected : Within(s)

TicksInv == TicksTyped /\ TicksCounted

(* All of it are numbers.                                                  *)
LEMMA VolumeTyped ==
  ASSUME TicksTyped, NEW s \in Collected
  PROVE  /\ Ticks!Volume(buffer, s) \in Int /\ Ticks!Volume(batch, s) \in Int
         /\ tickStored[s] \in Int /\ lost[s] \in Int /\ total[s] \in Nat /\ bare[s] \in Nat
         /\ prev[s] \in Nat \cup {None} /\ opened[s] \in Nat \cup {None} /\ None \notin Int
         /\ Ticks!Counted(s) \in Int
<1>1. /\ Ticks!Volume(buffer, s) \in Int /\ Ticks!Volume(batch, s) \in Int
      /\ tickStored[s] \in Int /\ lost[s] \in Int /\ total[s] \in Nat /\ bare[s] \in Nat
      /\ prev[s] \in Nat \cup {None} /\ opened[s] \in Nat \cup {None} /\ None \notin Int
  BY VolumeIsTotal, VolumeAssumption DEF TicksTyped
<1> QED BY <1>1 DEF Ticks!Counted

(* Initially nothing is counted.                                           *)
LEMMA TicksInitially == Ticks!Init => TicksInv
<1> SUFFICES ASSUME Ticks!Init PROVE TicksInv
  OBVIOUS
<1>1. /\ total = [s \in Collected |-> 0] /\ prev = [s \in Collected |-> None]
      /\ opened = [s \in Collected |-> None] /\ bare = [s \in Collected |-> 0]
      /\ buffer = <<>> /\ batch = <<>>
      /\ tickStored = [s \in Collected |-> 0] /\ lost = [s \in Collected |-> 0]
  BY DEF Ticks!Init
<1>2. TicksTyped
  BY <1>1 DEF TicksTyped
<1>3. TicksCounted
  BY <1>1, VolumeOfNone DEF TicksCounted, Within, Ticks!Counted
<1> QED BY <1>2, <1>3 DEF TicksInv

(* A trade grows the total only.                                           *)
LEMMA TradeHappensCounts ==
  ASSUME TicksInv, NEW s \in Collected, Ticks!TradeHappens(s)
  PROVE  TicksInv'
<1>1. /\ TicksTyped /\ TicksCounted
      /\ total' = [total EXCEPT ![s] = @ + 1]
      /\ UNCHANGED <<prev, buffer, batch, tickStored, lost, opened, bare>>
  BY DEF TicksInv, Ticks!TradeHappens
<1>2. TicksTyped'
  BY <1>1 DEF TicksTyped
<1>3. ASSUME NEW r \in Collected
      PROVE  total'[r] \in Int /\ total[r] \in Int /\ total[r] <= total'[r]
  BY <1>1 DEF TicksTyped
<1>4. ASSUME NEW r \in Collected PROVE Within(r)'
  <2>1. Ticks!Counted(r)' = Ticks!Counted(r)
    BY <1>1 DEF Ticks!Counted
  <2>2. prev[r] \in Nat \cup {None} /\ Within(r)
    BY <1>1, VolumeTyped DEF TicksCounted
  <2> QED BY <1>1, <1>3, <2>1, <2>2 DEF Within
<1> QED BY <1>2, <1>4 DEF TicksInv, TicksCounted

(* A session starts to count anew what is kept and what is lost.           *)
LEMMA NewSessionCounts == TicksInv /\ Ticks!NewSession => TicksInv'
<1> SUFFICES ASSUME TicksInv, Ticks!NewSession PROVE TicksInv'
  OBVIOUS
<1>1. /\ TicksTyped /\ buffer' = <<>> /\ batch' = <<>> /\ prev' = prev
      /\ total' = [s \in Collected |-> 0] /\ opened' = [s \in Collected |-> None]
      /\ bare' = [s \in Collected |-> 0]
      /\ tickStored' = [s \in Collected |-> 0] /\ lost' = [s \in Collected |-> 0]
  BY DEF TicksInv, Ticks!NewSession
<1>2. TicksTyped'
  BY <1>1 DEF TicksTyped
<1>3. ASSUME NEW s \in Collected PROVE Within(s)'
  <2>1. Ticks!Counted(s)' = 0
    BY <1>1, VolumeOfNone DEF Ticks!Counted
  <2> QED BY <1>1, <2>1 DEF Within
<1> QED BY <1>2, <1>3 DEF TicksInv, TicksCounted

(* A message adds what its totals have grown by, and the trades without.   *)
LEMMA ReceiveCounts ==
  ASSUME TicksInv, NEW m \in Ticks!Messages, Ticks!Receive(m)
  PROVE  TicksInv'
<1> DEFINE p == Ticks!Parsed(m)
           N == Ticks!Noted(m)
           B(s) == Ticks!Bare(m, s)
<1>1. /\ TicksTyped /\ TicksCounted /\ buffer' = buffer \o p
      /\ \A i \in DOMAIN m : m[i].kind # "quote" => total[m[i].symbol] > 0
      /\ prev' = [s \in Collected |-> IF s \in N THEN total[s] ELSE prev[s]]
      /\ opened' = [s \in Collected |-> IF opened[s] = None /\ s \in N
                                        THEN total[s] ELSE opened[s]]
      /\ bare' = [s \in Collected |-> bare[s] + B(s)]
      /\ UNCHANGED <<total, batch, tickStored, lost>>
  BY DEF TicksInv, Ticks!Receive
<1>2. /\ p \in Seq(Parcels) /\ buffer \in Seq(Parcels)
      /\ \A s \in Collected :
           /\ Ticks!Volume(p, s) = (IF s \in N THEN Gain(s) ELSE 0) + B(s) /\ B(s) \in {0, 1}
           /\ s \in N => \E i \in DOMAIN m : m[i].kind = "trade" /\ m[i].symbol = s
  BY <1>1, ParsedVolume DEF TicksTyped
<1>3. \A s \in Collected : s \in N => total[s] > 0
  BY <1>1, <1>2
<1> HIDE DEF p, N, B
<1>4. TicksTyped'
  <2>1. buffer' \in Seq(Parcels)
    BY <1>1, <1>2, VolumeAdds
  <2>2. \A s \in Collected : /\ total[s] \in Nat /\ prev[s] \in Nat \cup {None}
                             /\ opened[s] \in Nat \cup {None} /\ bare[s] + B(s) \in Nat
    <3> SUFFICES ASSUME NEW s \in Collected
                 PROVE  /\ total[s] \in Nat /\ prev[s] \in Nat \cup {None}
                        /\ opened[s] \in Nat \cup {None} /\ bare[s] + B(s) \in Nat
      OBVIOUS
    <3>1. B(s) \in {0, 1}
      BY <1>2
    <3>2. /\ total[s] \in Nat /\ prev[s] \in Nat \cup {None}
          /\ opened[s] \in Nat \cup {None} /\ bare[s] \in Nat
      BY <1>1, VolumeTyped
    <3>3. bare[s] + B(s) \in Nat
      BY <3>1, <3>2
    <3> QED BY <3>2, <3>3
  <2>3. prev' \in [Collected -> Nat \cup {None}]
    BY <1>1, <2>2
  <2>4. opened' \in [Collected -> Nat \cup {None}]
    BY <1>1, <2>2
  <2>5. bare' \in [Collected -> Nat]
    BY <1>1, <2>2
  <2> QED BY <1>1, <2>1, <2>3, <2>4, <2>5 DEF TicksTyped
<1>5. ASSUME NEW s \in Collected PROVE Within(s)'
  <2>1. /\ Ticks!Volume(buffer, s) \in Int /\ Ticks!Volume(batch, s) \in Int
        /\ tickStored[s] \in Int /\ lost[s] \in Int /\ total[s] \in Nat /\ bare[s] \in Nat
        /\ prev[s] \in Nat \cup {None} /\ opened[s] \in Nat \cup {None} /\ None \notin Int
        /\ Ticks!Counted(s) \in Int /\ B(s) \in Int
    BY <1>1, <1>2, VolumeTyped
  <2>2. Ticks!Volume(buffer', s) = Ticks!Volume(buffer, s) + Ticks!Volume(p, s)
        /\ Ticks!Volume(p, s) \in Int
    BY <1>1, <1>2, VolumeAdds
  <2>3. Ticks!Counted(s)' = Ticks!Counted(s) + Ticks!Volume(p, s)
    <3>1. /\ Ticks!Counted(s)'
               = tickStored[s] + lost[s] + Ticks!Volume(buffer', s) + Ticks!Volume(batch, s)
          /\ Ticks!Counted(s)
               = tickStored[s] + lost[s] + Ticks!Volume(buffer, s) + Ticks!Volume(batch, s)
      BY <1>1 DEF Ticks!Counted
    <3> QED BY <2>1, <2>2, <3>1
  <2>4. Within(s)
    BY <1>1 DEF TicksCounted
  <2>5. /\ prev'[s] = IF s \in N THEN total[s] ELSE prev[s]
        /\ opened'[s] = IF opened[s] = None /\ s \in N THEN total[s] ELSE opened[s]
        /\ bare'[s] = bare[s] + B(s) /\ total'[s] = total[s]
    BY <1>1
  <2>6. PICK g : g = Gain(s)
    OBVIOUS
  <2>7. /\ g \in Nat
        /\ prev[s] = None => g = 1
        /\ prev[s] # None => g = IF total[s] - prev[s] > 0 THEN total[s] - prev[s] ELSE 0
    BY <1>1, <2>6, GainTyped DEF Gain
  <2>8. Ticks!Volume(p, s) = (IF s \in N THEN g ELSE 0) + B(s)
    BY <1>2, <2>6
  <2>9. PICK k, l : k = Ticks!Counted(s) /\ l = Ticks!Counted(s)'
    OBVIOUS
  <2>10. k \in Int /\ l = k + (IF s \in N THEN g ELSE 0) + B(s) /\ l \in Int
    BY <2>1, <2>3, <2>7, <2>8, <2>9
  <2>11. CASE s \notin N
    <3>1. l = k + B(s) /\ prev'[s] = prev[s] /\ opened'[s] = opened[s]
      BY <2>1, <2>5, <2>10, <2>11
    <3>2. CASE opened[s] = None
      BY <2>4, <2>5, <2>9, <3>1, <3>2 DEF Within
    <3>3. CASE opened[s] # None
      <4>1. /\ prev[s] # None /\ prev[s] <= total[s]
            /\ prev[s] - opened[s] + bare[s] <= k /\ k <= prev[s] + bare[s]
        BY <2>4, <2>9, <3>3 DEF Within
      <4>2. /\ prev[s] - opened[s] + (bare[s] + B(s)) <= l /\ l <= prev[s] + (bare[s] + B(s))
        BY <2>1, <2>10, <3>1, <3>3, <4>1
      <4> QED BY <2>5, <2>9, <3>1, <3>3, <4>1, <4>2 DEF Within
    <3> QED BY <3>2, <3>3
  <2>12. CASE s \in N /\ opened[s] # None
    <3>1. /\ prev[s] # None /\ prev[s] <= total[s]
          /\ prev[s] - opened[s] + bare[s] <= k /\ k <= prev[s] + bare[s]
      BY <2>4, <2>9, <2>12 DEF Within
    <3>2. g = total[s] - prev[s]
      BY <2>1, <2>7, <3>1
    <3>3. /\ total[s] - opened[s] + (bare[s] + B(s)) <= l /\ l <= total[s] + (bare[s] + B(s))
          /\ total[s] # None
      BY <2>1, <2>10, <2>12, <3>1, <3>2
    <3>4. prev'[s] = total[s] /\ opened'[s] = opened[s] /\ total[s] <= total[s]
      BY <2>1, <2>5, <2>12
    <3> QED BY <2>5, <2>9, <2>12, <3>3, <3>4 DEF Within
  <2>13. CASE s \in N /\ opened[s] = None
    <3>1. k = bare[s] /\ total[s] > 0
      BY <1>3, <2>4, <2>9, <2>13 DEF Within
    <3>2. 0 <= g /\ g <= total[s]
      BY <2>1, <2>7, <3>1
    <3>3. /\ total[s] - total[s] + (bare[s] + B(s)) <= l /\ l <= total[s] + (bare[s] + B(s))
          /\ total[s] # None
      <4>1. l = bare[s] + g + B(s)
        BY <2>10, <2>13, <3>1
      <4>2. total[s] \in Int /\ bare[s] \in Int /\ B(s) \in Int /\ g \in Int /\ None \notin Int
        BY <2>1, <2>7
      <4>3. total[s] - total[s] + (bare[s] + B(s)) <= l /\ l <= total[s] + (bare[s] + B(s))
        BY <3>2, <4>1, <4>2
      <4> QED BY <4>2, <4>3
    <3>4. prev'[s] = total[s] /\ opened'[s] = total[s] /\ total[s] <= total[s]
      BY <2>1, <2>5, <2>13
    <3> QED BY <2>5, <2>9, <3>3, <3>4 DEF Within
  <2> QED BY <2>11, <2>12, <2>13
<1> QED BY <1>4, <1>5 DEF TicksInv, TicksCounted

(* A drain moves trades, and drops none.                                   *)
LEMMA DrainedCounts ==
  ASSUME TicksInv, Ticks!Drained, batch = <<>>, UNCHANGED <<total, prev, tickStored, lost, opened, bare>>
  PROVE  TicksInv'
<1> DEFINE n == Ticks!Min({Len(buffer), MaxBatch})
<1>1. /\ TicksTyped /\ TicksCounted /\ buffer \in Seq(Parcels)
      /\ batch' = SubSeq(buffer, 1, n) /\ buffer' = SubSeq(buffer, n + 1, Len(buffer))
  BY DEF TicksInv, TicksTyped, Ticks!Drained
<1>2. n \in Nat /\ n <= Len(buffer) /\ Len(buffer) \in Nat
  <2>1. Len(buffer) \in Nat /\ MaxBatch \in Nat
    BY <1>1, LenProperties, VolumeAssumption
  <2>2. PICK k : k = Len(buffer)
    OBVIOUS
  <2>3. Ticks!Min({k, MaxBatch}) = IF k <= MaxBatch THEN k ELSE MaxBatch
    BY <2>1, <2>2 DEF Ticks!Min
  <2> QED BY <2>1, <2>2, <2>3
<1> HIDE DEF n
<1>3. /\ SubSeq(buffer, 1, n) \o SubSeq(buffer, n + 1, Len(buffer)) = buffer
      /\ SubSeq(buffer, 1, n) \in Seq(Parcels) /\ SubSeq(buffer, n + 1, Len(buffer)) \in Seq(Parcels)
  <2>1. /\ 1 \in 1 .. Len(buffer) + 1 /\ n \in 1 - 1 .. Len(buffer) /\ Len(buffer) \in n .. Len(buffer)
    BY <1>2
  <2>2. SubSeq(buffer, 1, n) \o SubSeq(buffer, n + 1, Len(buffer)) = SubSeq(buffer, 1, Len(buffer))
    BY <1>1, <2>1, ConcatAdjacentSubSeq
  <2>3. SubSeq(buffer, 1, Len(buffer)) = buffer
    BY <1>1, SubSeqFull
  <2>4. \A i \in 1 .. Len(buffer) : buffer[i] \in Parcels
    BY <1>1, ElementOfSeq
  <2>5. SubSeq(buffer, 1, n) \in Seq(Parcels)
    <3>1. 1 \in Int /\ n \in Int /\ \A i \in 1 .. n : buffer[i] \in Parcels
      BY <1>2, <2>4
    <3> QED BY <3>1, SubSeqProperties
  <2>6. SubSeq(buffer, n + 1, Len(buffer)) \in Seq(Parcels)
    <3>1. n + 1 \in Int /\ Len(buffer) \in Int /\ \A i \in n + 1 .. Len(buffer) : buffer[i] \in Parcels
      BY <1>2, <2>4
    <3> QED BY <3>1, SubSeqProperties
  <2> QED BY <2>2, <2>3, <2>5, <2>6
<1>4. TicksTyped'
  BY <1>1, <1>3 DEF TicksTyped
<1>5. ASSUME NEW s \in Collected PROVE Ticks!Counted(s)' = Ticks!Counted(s)
  <2>1. PICK b, r : b = SubSeq(buffer, 1, n) /\ r = SubSeq(buffer, n + 1, Len(buffer))
    OBVIOUS
  <2>2. /\ Ticks!Volume(b \o r, s) = Ticks!Volume(b, s) + Ticks!Volume(r, s)
        /\ Ticks!Volume(b, s) \in Int /\ Ticks!Volume(r, s) \in Int
    BY <1>3, <2>1, VolumeAdds
  <2>3. /\ Ticks!Counted(s)' = tickStored[s] + lost[s] + Ticks!Volume(r, s) + Ticks!Volume(b, s)
        /\ Ticks!Counted(s) = tickStored[s] + lost[s] + Ticks!Volume(buffer, s) + 0
    BY <1>1, <2>1, VolumeOfNone DEF Ticks!Counted
  <2>4. Ticks!Volume(buffer, s) = Ticks!Volume(b, s) + Ticks!Volume(r, s)
    BY <1>3, <2>1, <2>2
  <2>5. tickStored[s] \in Int /\ lost[s] \in Int
    BY <1>1 DEF TicksTyped
  <2> QED BY <2>2, <2>3, <2>4, <2>5
<1>6. TicksCounted'
  BY <1>1, <1>5 DEF TicksCounted, Within
<1> QED BY <1>4, <1>6 DEF TicksInv

(* A batch is inserted or lost.                                            *)
LEMMA InsertCounts ==
  ASSUME TicksInv, NEW ok \in BOOLEAN, Ticks!Insert(ok)
  PROVE  TicksInv'
<1>1. /\ TicksTyped /\ TicksCounted /\ batch' = <<>>
      /\ tickStored' = [s \in Collected |->
                          tickStored[s] + IF ok THEN Ticks!Volume(batch, s) ELSE 0]
      /\ lost' = [s \in Collected |-> lost[s] + IF ok THEN 0 ELSE Ticks!Volume(batch, s)]
      /\ UNCHANGED <<total, prev, buffer, opened, bare>>
  BY DEF TicksInv, Ticks!Insert
<1>2. ASSUME NEW s \in Collected
      PROVE  /\ tickStored'[s] \in Int /\ lost'[s] \in Int /\ Ticks!Counted(s)' = Ticks!Counted(s)
  <2>1. /\ Ticks!Volume(buffer, s) \in Int /\ Ticks!Volume(batch, s) \in Int
        /\ tickStored[s] \in Int /\ lost[s] \in Int
    BY <1>1, VolumeTyped
  <2>2. /\ Ticks!Counted(s)' = tickStored'[s] + lost'[s] + Ticks!Volume(buffer, s) + 0
        /\ Ticks!Counted(s) = tickStored[s] + lost[s] + Ticks!Volume(buffer, s) + Ticks!Volume(batch, s)
    BY <1>1, VolumeOfNone DEF Ticks!Counted
  <2>3. CASE ok
    <3>1. tickStored'[s] = tickStored[s] + Ticks!Volume(batch, s) /\ lost'[s] = lost[s] + 0
      BY <1>1, <2>3
    <3> QED BY <2>1, <2>2, <3>1
  <2>4. CASE ~ok
    <3>1. tickStored'[s] = tickStored[s] + 0 /\ lost'[s] = lost[s] + Ticks!Volume(batch, s)
      BY <1>1, <2>4
    <3> QED BY <2>1, <2>2, <3>1
  <2> QED BY <2>3, <2>4
<1>3. TicksTyped'
  <2>1. tickStored' \in [Collected -> Int] /\ lost' \in [Collected -> Int]
    BY <1>1, <1>2
  <2>2. <<>> \in Seq(Parcels)
    OBVIOUS
  <2> QED BY <1>1, <2>1, <2>2 DEF TicksTyped
<1>4. TicksCounted'
  BY <1>1, <1>2 DEF TicksCounted, Within
<1> QED BY <1>3, <1>4 DEF TicksInv

(* Every step of the buffer of the ticks keeps its invariant.              *)
LEMMA TicksNext == TicksInv /\ (Ticks!Next \/ UNCHANGED tickVars) => TicksInv'
<1> SUFFICES ASSUME TicksInv, Ticks!Next \/ UNCHANGED tickVars PROVE TicksInv'
  OBVIOUS
<1>1. CASE UNCHANGED <<total, prev, buffer, batch, tickStored, lost, opened, bare>>
  BY <1>1 DEF TicksInv, TicksTyped, TicksCounted, Within, Ticks!Counted
<1>2. CASE Ticks!Drain \/ Ticks!FinalDrain
  <2>1. Ticks!Drained /\ batch = <<>> /\ UNCHANGED <<total, prev, tickStored, lost, opened, bare>>
    BY <1>2 DEF Ticks!Drain, Ticks!FinalDrain
  <2> QED BY <2>1, DrainedCounts
<1>3. ASSUME Ticks!Signal \/ Ticks!StopStream \/ UNCHANGED tickVars PROVE TicksInv'
  BY <1>1, <1>3 DEF Ticks!Signal, Ticks!StopStream, tickVars
<1> QED BY <1>2, <1>3, TradeHappensCounts, NewSessionCounts, ReceiveCounts, InsertCounts
        DEF Ticks!Next

(* It is what the property says.                                           *)
LEMMA VolumeIsComplete == TicksInv => Ticks!VolumeComplete
BY DEF TicksInv, TicksCounted, Within, Ticks!VolumeComplete

-----------------------------------------------------------------------------
(* The volume by direction, on its way into the logs.                      *)

(* What a step of the composition is for the volume by direction.          *)
LEMMA ShadowStep ==
  ASSUME [Next]_vars, part = "shadow"
  PROVE  part' = "shadow" /\ (Shadow!Next \/ UNCHANGED shadowVars)
BY DEF Next, NextBacktest, NextDelta, NextPrice, NextRecord, vars, deltaVars

MinuteBars == [t : Nat, v : Int, up : Int, down : Int]

Accumulators ==
  [prev : Levels \cup {None}, seen : Int, dir : Int, up : Int, down : Int, zero : Int,
   bars : Seq(MinuteBars), recovered : Nat, start : Nat, vol : Int, minUp : Int, minDown : Int]

Days == 0 .. MaxDay

(* The volume of each bar of a sequence, and of the log of each day.       *)
Bars(q) == [i \in 1 .. Len(q) |-> q[i].v]

DayVolumes(logs) == [d \in Days |-> Shadow!VolumeOf(logs[d])]

(* They are numbers, one for each bar.                                     *)
LEMMA BarsTyped ==
  ASSUME NEW q \in Seq(MinuteBars)
  PROVE  Bars(q) \in Seq(Int) /\ Len(Bars(q)) = Len(q) /\ Len(q) \in Nat
<1>1. Len(q) \in Nat
  BY LenProperties
<1>2. \A i \in 1 .. Len(q) : q[i].v \in Int
  <2>1. \A i \in 1 .. Len(q) : q[i] \in MinuteBars
    BY ElementOfSeq
  <2> QED BY <2>1 DEF MinuteBars
<1>3. Bars(q) \in [1 .. Len(q) -> Int]
  BY <1>2 DEF Bars
<1> QED BY <1>1, <1>3

(* What VolumeOf counts of a log is the total of its bars' volumes.        *)
LEMMA VolumeOfIsTotal ==
  ASSUME NEW q \in Seq(MinuteBars)
  PROVE  Shadow!VolumeOf(q) = Total(Bars(q)) /\ Total(Bars(q)) \in Int
<1>0. PICK f, S : f = Bars(q) /\ S = 1 .. Len(q)
  OBVIOUS
<1>1. f \in Seq(Int) /\ Len(f) = Len(q) /\ Len(q) \in Nat /\ DOMAIN q = S
  BY <1>0, BarsTyped, LenProperties
<1>2. \A h : [s \in SUBSET S |-> IF s = {} THEN 0 ELSE q[Chosen(s)].v + h[s \ {Chosen(s)}]]
           = [s \in SUBSET S |-> IF s = {} THEN 0 ELSE f[Chosen(s)] + h[s \ {Chosen(s)}]]
  BY <1>0 DEF Chosen, Bars
<1>3. (CHOOSE h : h = [s \in SUBSET S |-> IF s = {} THEN 0
                           ELSE q[Chosen(s)].v + h[s \ {Chosen(s)}]])
    = (CHOOSE h : h = [s \in SUBSET S |-> IF s = {} THEN 0
                           ELSE f[Chosen(s)] + h[s \ {Chosen(s)}]])
  BY <1>2, Zenon
<1>4. SumOver(f, S) = (CHOOSE h : h = [s \in SUBSET S |-> IF s = {} THEN 0
                           ELSE f[Chosen(s)] + h[s \ {Chosen(s)}]])[S]
  BY DEF SumOver, Summing
<1>5. Shadow!VolumeOf(q) =
        (CHOOSE h : h = [s \in SUBSET S |-> IF s = {} THEN 0
                           ELSE q[Chosen(s)].v + h[s \ {Chosen(s)}]])[S]
  BY <1>1 DEF Chosen, Shadow!VolumeOf, Shadow!FoldSeq, Shadow!FoldFunction,
              Shadow!FoldFunctionOnSet, Shadow!MapThenFoldSet
<1>6. Total(f) = SumOver(f, S)
  BY <1>0, <1>1 DEF Total
<1>7. Total(f) \in Int
  <2>1. \A i \in S : f[i] \in Int
    BY <1>0, <1>1, ElementOfSeq
  <2>2. 1 \in Int /\ Len(q) \in Int
    BY <1>1
  <2>3. IsFiniteSet(S)
    BY <1>0, <2>2, FS_Interval
  <2> QED BY <1>6, <2>1, <2>3, SumFacts
<1> QED BY <1>0, <1>3, <1>4, <1>5, <1>6, <1>7

(* Without bars, there is none.                                            *)
LEMMA BarsOfNone == Shadow!VolumeOf(<<>>) = 0
<1>1. Bars(<<>>) = <<>> /\ <<>> \in Seq(MinuteBars)
  BY DEF Bars
<1> QED BY <1>1, VolumeOfIsTotal, TotalOfNone

(* A bar more is its volume more.                                          *)
LEMMA BarAdds ==
  ASSUME NEW q \in Seq(MinuteBars), NEW b \in MinuteBars
  PROVE  /\ Append(q, b) \in Seq(MinuteBars)
         /\ Shadow!VolumeOf(Append(q, b)) = Shadow!VolumeOf(q) + b.v
         /\ Shadow!VolumeOf(q) \in Int /\ b.v \in Int
<1>1. /\ Append(q, b) \in Seq(MinuteBars) /\ Len(Append(q, b)) = Len(q) + 1 /\ Len(q) \in Nat
      /\ \A i \in 1 .. Len(q) : Append(q, b)[i] = q[i]
      /\ Append(q, b)[Len(q) + 1] = b
  BY AppendProperties, LenProperties
<1>2. PICK f, g, r : f = Bars(q) /\ r = Append(q, b) /\ g = Bars(r)
  OBVIOUS
<1>3. b.v \in Int
  BY DEF MinuteBars
<1>4. /\ f \in Seq(Int) /\ g \in Seq(Int) /\ Len(f) = Len(q) /\ Len(g) = Len(q) + 1
      /\ (\A i \in 1 .. Len(q) : g[i] = f[i]) /\ g[Len(q) + 1] = b.v
  <2>1. f \in Seq(Int) /\ g \in Seq(Int) /\ Len(f) = Len(q) /\ Len(g) = Len(q) + 1
    BY <1>1, <1>2, BarsTyped
  <2>2. \A i \in 1 .. Len(q) : i \in 1 .. Len(r) /\ r[i] = q[i]
    BY <1>1, <1>2
  <2>3. Len(q) + 1 \in 1 .. Len(r) /\ r[Len(q) + 1] = b
    BY <1>1, <1>2
  <2>4. (\A i \in 1 .. Len(q) : g[i] = f[i]) /\ g[Len(q) + 1] = b.v
    BY <1>2, <2>2, <2>3 DEF Bars
  <2> QED BY <2>1, <2>4
<1>5. g = Append(f, b.v)
  <2>1. /\ Append(f, b.v) \in Seq(Int) /\ Len(Append(f, b.v)) = Len(f) + 1
        /\ \A i \in 1 .. Len(f) : Append(f, b.v)[i] = f[i]
        /\ Append(f, b.v)[Len(f) + 1] = b.v
    BY <1>3, <1>4, AppendProperties
  <2>2. \A i \in 1 .. Len(g) : g[i] = Append(f, b.v)[i]
    <3>1. \A i \in 1 .. Len(g) : i \in 1 .. Len(q) \/ i = Len(q) + 1
      BY <1>1, <1>4
    <3> QED BY <1>4, <2>1, <3>1
  <2>3. Len(g) = Len(Append(f, b.v))
    BY <1>4, <2>1
  <2> QED BY <1>4, <2>1, <2>2, <2>3, SeqEqual
<1>6. g = f \o <<b.v>>
  BY <1>3, <1>4, <1>5, AppendIsConcat
<1>7. Total(g) = Total(f) + b.v /\ Total(f) \in Int
  <2>1. <<b.v>> \in Seq(Int) /\ Total(<<b.v>>) = b.v
    BY <1>3, TotalOfOne
  <2> QED BY <1>4, <1>6, <2>1, TotalAdds
<1> QED BY <1>1, <1>2, <1>3, <1>7, VolumeOfIsTotal

(* What is in all logs, as the sum of a function.                          *)
LEMMA LoggedIsSum ==
  ASSUME NEW logs
  PROVE  Shadow!MapThenSumSet(LAMBDA d : Shadow!VolumeOf(logs[d]), Days)
           = SumOver(DayVolumes(logs), Days)
<1> DEFINE V(d) == Shadow!VolumeOf(logs[d])
<1>0. PICK f, S : f = DayVolumes(logs) /\ S = Days
  OBVIOUS
<1>1. \A d \in S : f[d] = V(d)
  BY <1>0 DEF DayVolumes
<1>5. Shadow!MapThenSumSet(V, S) =
        (CHOOSE h : h = [s \in SUBSET S |-> IF s = {} THEN 0
                           ELSE V(Chosen(s)) + h[s \ {Chosen(s)}]])[S]
  BY DEF Chosen, Shadow!MapThenSumSet, Shadow!MapThenFoldSet
<1>6. Shadow!MapThenSumSet(LAMBDA d : Shadow!VolumeOf(logs[d]), S) = Shadow!MapThenSumSet(V, S)
  BY DEF Shadow!MapThenSumSet, Shadow!MapThenFoldSet
<1> HIDE DEF V
<1>2. \A h : [s \in SUBSET S |-> IF s = {} THEN 0 ELSE V(Chosen(s)) + h[s \ {Chosen(s)}]]
           = [s \in SUBSET S |-> IF s = {} THEN 0 ELSE f[Chosen(s)] + h[s \ {Chosen(s)}]]
  <2>1. ASSUME NEW s \in SUBSET S, s # {} PROVE V(Chosen(s)) = f[Chosen(s)]
    <3>1. Chosen(s) \in S
      BY <2>1 DEF Chosen
    <3> QED BY <1>1, <3>1
  <2>2. ASSUME NEW h, NEW s \in SUBSET S
        PROVE  (IF s = {} THEN 0 ELSE V(Chosen(s)) + h[s \ {Chosen(s)}])
                 = (IF s = {} THEN 0 ELSE f[Chosen(s)] + h[s \ {Chosen(s)}])
    BY <2>1
  <2> QED BY <2>2
<1>3. (CHOOSE h : h = [s \in SUBSET S |-> IF s = {} THEN 0
                           ELSE V(Chosen(s)) + h[s \ {Chosen(s)}]])
    = (CHOOSE h : h = [s \in SUBSET S |-> IF s = {} THEN 0
                           ELSE f[Chosen(s)] + h[s \ {Chosen(s)}]])
  BY <1>2, Zenon
<1>4. SumOver(f, S) = (CHOOSE h : h = [s \in SUBSET S |-> IF s = {} THEN 0
                           ELSE f[Chosen(s)] + h[s \ {Chosen(s)}]])[S]
  BY DEF SumOver, Summing
<1> QED BY <1>0, <1>3, <1>4, <1>5, <1>6

(* A bar of q is one of r, or older than all of r.                         *)
Held(q, r) ==
  \A i \in 1 .. Len(q) : \/ \E j \in 1 .. Len(r) : q[i] = r[j]
                         \/ \A j \in 1 .. Len(r) : q[i].t < r[j].t

(* The same of the sets of their bars.                                     *)
LEMMA HeldOfSets ==
  ASSUME NEW q \in Seq(MinuteBars), NEW r \in Seq(MinuteBars), Held(q, r)
  PROVE  \A b \in Shadow!ToSet(q) :
           b \in Shadow!ToSet(r) \/ \A c \in Shadow!ToSet(r) : b.t < c.t
<1>1. DOMAIN q = 1 .. Len(q) /\ DOMAIN r = 1 .. Len(r)
  OBVIOUS
<1>2. Shadow!ToSet(q) = {q[i] : i \in 1 .. Len(q)} /\ Shadow!ToSet(r) = {r[j] : j \in 1 .. Len(r)}
  BY <1>1 DEF Shadow!ToSet
<1> SUFFICES ASSUME NEW i \in 1 .. Len(q)
             PROVE  q[i] \in Shadow!ToSet(r) \/ \A c \in Shadow!ToSet(r) : q[i].t < c.t
  BY <1>2
<1>3. CASE \E j \in 1 .. Len(r) : q[i] = r[j]
  BY <1>2, <1>3
<1>4. CASE \A j \in 1 .. Len(r) : q[i].t < r[j].t
  BY <1>2, <1>4
<1> QED BY <1>3, <1>4 DEF Held

(* Each bar is one of its own log, and no bar is one of any.               *)
LEMMA HeldReflexive ==
  ASSUME NEW q \in Seq(MinuteBars)
  PROVE  Held(q, q) /\ Held(<<>>, q) /\ Held(q, <<>>)
<1>1. Len(<<>>) = 0
  OBVIOUS
<1>2. 1 .. 0 = {}
  OBVIOUS
<1> QED BY <1>1, <1>2 DEF Held

(* A later bar that memory has more, whether the log has it too or not.    *)
LEMMA HeldAppend ==
  ASSUME NEW q \in Seq(MinuteBars), NEW r \in Seq(MinuteBars), NEW b \in MinuteBars, Held(q, r),
         \A i \in 1 .. Len(q) : q[i].t < b.t
  PROVE  Held(q, Append(r, b)) /\ Held(Append(q, b), Append(r, b))
<1>1. PICK x, y : x = Append(q, b) /\ y = Append(r, b)
  OBVIOUS
<1>2. /\ Len(x) = Len(q) + 1 /\ x[Len(q) + 1] = b /\ \A i \in 1 .. Len(q) : x[i] = q[i]
  BY <1>1, AppendProperties
<1>3. /\ Len(y) = Len(r) + 1 /\ y[Len(r) + 1] = b /\ \A i \in 1 .. Len(r) : y[i] = r[i]
  BY <1>1, AppendProperties
<1>4. Len(q) \in Nat /\ Len(r) \in Nat
  BY LenProperties
<1>5. ASSUME NEW i \in 1 .. Len(q)
      PROVE  (\E j \in 1 .. Len(y) : q[i] = y[j]) \/ \A j \in 1 .. Len(y) : q[i].t < y[j].t
  <2>1. CASE \E j \in 1 .. Len(r) : q[i] = r[j]
    <3>1. PICK j \in 1 .. Len(r) : q[i] = r[j]
      BY <2>1
    <3>2. j \in 1 .. Len(y) /\ q[i] = y[j]
      BY <1>3, <1>4, <3>1
    <3> QED BY <3>2
  <2>2. CASE \A j \in 1 .. Len(r) : q[i].t < r[j].t
    <3> SUFFICES ASSUME NEW j \in 1 .. Len(y) PROVE q[i].t < y[j].t
      OBVIOUS
    <3>1. CASE j = Len(r) + 1
      BY <1>3, <3>1
    <3>2. CASE j # Len(r) + 1
      <4>1. j \in 1 .. Len(r)
        BY <1>3, <1>4, <3>2
      <4> QED BY <1>3, <2>2, <4>1
    <3> QED BY <3>1, <3>2
  <2> QED BY <2>1, <2>2 DEF Held
<1>6. ASSUME NEW i \in 1 .. Len(x)
      PROVE  (\E j \in 1 .. Len(y) : x[i] = y[j]) \/ \A j \in 1 .. Len(y) : x[i].t < y[j].t
  <2>1. CASE i = Len(q) + 1
    <3>1. Len(r) + 1 \in 1 .. Len(y) /\ x[i] = y[Len(r) + 1]
      BY <1>2, <1>3, <1>4, <2>1
    <3> QED BY <3>1
  <2>2. CASE i # Len(q) + 1
    <3>1. i \in 1 .. Len(q)
      BY <1>2, <1>4, <2>2
    <3>2. x[i] = q[i]
      BY <1>2, <3>1
    <3> QED BY <1>5, <3>1, <3>2
  <2> QED BY <2>1, <2>2
<1>7. Held(q, y)
  BY <1>5 DEF Held
<1>8. Held(x, y)
  BY <1>6 DEF Held
<1> QED BY <1>1, <1>7, <1>8

(* What was counted since the recovery, with one bar more.                 *)
LEMMA SinceAppend ==
  ASSUME NEW q \in Seq(MinuteBars), NEW b \in MinuteBars, NEW k \in Nat, k <= Len(q)
  PROVE  /\ SubSeq(Append(q, b), k + 1, Len(Append(q, b))) = Append(SubSeq(q, k + 1, Len(q)), b)
         /\ SubSeq(q, k + 1, Len(q)) \in Seq(MinuteBars)
<1>1. Len(q) \in Nat /\ \A i \in 1 .. Len(q) : q[i] \in MinuteBars
  BY LenProperties, ElementOfSeq
<1>2. PICK x : x = Append(q, b)
  OBVIOUS
<1>3. /\ x \in Seq(MinuteBars) /\ Len(x) = Len(q) + 1 /\ x[Len(q) + 1] = b
      /\ \A i \in 1 .. Len(q) : x[i] = q[i]
  BY <1>2, AppendProperties
<1>4. PICK u, v : u = SubSeq(x, k + 1, Len(x)) /\ v = SubSeq(q, k + 1, Len(q))
  OBVIOUS
<1>5. /\ v \in Seq(MinuteBars) /\ Len(v) = Len(q) - k
      /\ \A i \in 1 .. Len(q) - k : v[i] = q[k + i]
  <2>1. k + 1 \in Int /\ Len(q) \in Int /\ \A i \in k + 1 .. Len(q) : q[i] \in MinuteBars
    BY <1>1
  <2>2. /\ v \in Seq(MinuteBars) /\ Len(v) = (IF k + 1 <= Len(q) THEN Len(q) - (k + 1) + 1 ELSE 0)
        /\ \A i \in 1 .. Len(q) - (k + 1) + 1 : v[i] = q[k + 1 + i - 1]
    BY SMTT(30), <1>4, <2>1, SubSeqProperties
  <2> QED BY <1>1, <2>2
<1>6. /\ u \in Seq(MinuteBars) /\ Len(u) = Len(q) + 1 - k
      /\ \A i \in 1 .. Len(q) + 1 - k : u[i] = x[k + i]
  <2>0. \A i \in 1 .. Len(x) : x[i] \in MinuteBars
    BY <1>3, ElementOfSeq
  <2>1. k + 1 \in Int /\ Len(x) \in Int /\ \A i \in k + 1 .. Len(x) : x[i] \in MinuteBars
    BY <1>1, <1>3, <2>0
  <2>2. /\ u \in Seq(MinuteBars) /\ Len(u) = (IF k + 1 <= Len(x) THEN Len(x) - (k + 1) + 1 ELSE 0)
        /\ \A i \in 1 .. Len(x) - (k + 1) + 1 : u[i] = x[k + 1 + i - 1]
    BY <1>4, <2>1, SubSeqProperties
  <2> QED BY <1>1, <1>3, <2>2
<1>7. PICK w : w = Append(v, b)
  OBVIOUS
<1>8. /\ w \in Seq(MinuteBars) /\ Len(w) = Len(v) + 1 /\ w[Len(v) + 1] = b
      /\ \A i \in 1 .. Len(v) : w[i] = v[i]
  BY <1>5, <1>7, AppendProperties
<1>9. ASSUME NEW i \in 1 .. Len(u) PROVE u[i] = w[i]
  <2>1. u[i] = x[k + i]
    BY <1>6
  <2>2. CASE i <= Len(q) - k
    <3>1. i \in 1 .. Len(q) - k /\ k + i \in 1 .. Len(q) /\ i \in 1 .. Len(v)
      BY <1>1, <1>5, <1>6, <2>2
    <3> QED BY <1>3, <1>5, <1>8, <2>1, <3>1
  <2>3. CASE ~(i <= Len(q) - k)
    <3>1. k + i = Len(q) + 1 /\ i = Len(v) + 1
      BY <1>1, <1>5, <1>6, <2>3
    <3> QED BY <1>3, <1>8, <2>1, <3>1
  <2> QED BY <2>2, <2>3
<1>10. Len(u) = Len(w)
  BY <1>1, <1>5, <1>6, <1>8
<1>11. u = w
  BY <1>6, <1>8, <1>9, <1>10, SeqEqual
<1> QED BY <1>2, <1>4, <1>5, <1>7, <1>11

(* One day's log gets a bar.                                               *)
LEMMA LoggedAdds ==
  ASSUME NEW logs \in [Days -> Seq(MinuteBars)], NEW d \in Days, NEW b \in MinuteBars
  PROVE  /\ SumOver(DayVolumes([logs EXCEPT ![d] = Append(@, b)]), Days)
              = SumOver(DayVolumes(logs), Days) + b.v
         /\ SumOver(DayVolumes(logs), Days) \in Int /\ b.v \in Int
<1>1. PICK more : more = [logs EXCEPT ![d] = Append(@, b)]
  OBVIOUS
<1>2. PICK f, g : f = DayVolumes(logs) /\ g = DayVolumes(more)
  OBVIOUS
<1>3. IsFiniteSet(Days)
  <2>1. 0 \in Int /\ MaxDay \in Int
    BY VolumeAssumption
  <2> QED BY <2>1, FS_Interval DEF Days
<1>4. /\ \A e \in Days : f[e] \in Int /\ f[e] = Shadow!VolumeOf(logs[e])
      /\ Shadow!VolumeOf(Append(logs[d], b)) = f[d] + b.v /\ b.v \in Int
  <2>1. \A e \in Days : logs[e] \in Seq(MinuteBars)
    OBVIOUS
  <2>2. \A e \in Days : f[e] = Shadow!VolumeOf(logs[e])
    BY <1>2 DEF DayVolumes
  <2>3. \A e \in Days : Shadow!VolumeOf(logs[e]) \in Int
    BY <2>1, VolumeOfIsTotal
  <2>4. Shadow!VolumeOf(Append(logs[d], b)) = Shadow!VolumeOf(logs[d]) + b.v /\ b.v \in Int
    BY <2>1, BarAdds
  <2> QED BY <2>2, <2>3, <2>4
<1>5. g[d] = f[d] + b.v /\ \A e \in Days \ {d} : g[e] = f[e]
  <2>1. more[d] = Append(logs[d], b) /\ \A e \in Days \ {d} : more[e] = logs[e]
    BY <1>1
  <2>2. \A e \in Days : g[e] = Shadow!VolumeOf(more[e])
    BY <1>2 DEF DayVolumes
  <2> QED BY <1>4, <2>1, <2>2
<1>6. \A e \in Days : g[e] \in Int
  BY <1>4, <1>5
<1>7. PICK R : R = Days \ {d}
  OBVIOUS
<1>8. SumOver(f, Days) = f[d] + SumOver(f, R) /\ SumOver(g, Days) = g[d] + SumOver(g, R)
  <2>1. SumOver(f, Days) = f[d] + SumOver(f, Days \ {d})
    BY <1>3, <1>4, SumTakesOut
  <2>2. SumOver(g, Days) = g[d] + SumOver(g, Days \ {d})
    BY <1>3, <1>6, SumTakesOut
  <2> QED BY <1>7, <2>1, <2>2
<1>9. SumOver(g, R) = SumOver(f, R)
  BY <1>5, <1>7, SumOfEquals
<1>10. SumOver(f, R) \in Int
  <2>1. IsFiniteSet(R) /\ \A e \in R : f[e] \in Int
    BY <1>3, <1>4, <1>7, FS_Subset
  <2> QED BY <2>1, SumFacts
<1>11. SumOver(g, Days) = SumOver(f, Days) + b.v /\ SumOver(f, Days) \in Int
  BY <1>4, <1>5, <1>8, <1>9, <1>10
<1> QED BY <1>1, <1>2, <1>4, <1>11

ShadowTyped ==
  /\ minute \in Nat /\ utcDay \in Days /\ daily \in Nat /\ traded \in Int
  /\ acc # None => acc \in Accumulators
  /\ log \in [Days -> Seq(MinuteBars)]

InLogs == SumOver(DayVolumes(log), Days)

(* What the exchange's total is ahead of what was seen of it.              *)
Ahead(a) == IF daily - a.seen > 0 THEN daily - a.seen ELSE 0

(* Nothing is counted twice, and what will be counted with the next tick   *)
(* is not counted yet either.                                              *)
CountedOnce ==
  /\ InLogs <= traded
  /\ acc # None => /\ acc.vol >= 0 /\ InLogs + acc.vol <= traded
                   /\ acc.prev # None => InLogs + acc.vol + Ahead(acc) <= traded

(* The minute that is open is later than those of the day's log.           *)
Ordered ==
  /\ \A d \in Days : \A i \in 1 .. Len(log[d]) - 1 : log[d][i].t < log[d][i + 1].t
  /\ \A d \in Days : \A i \in 1 .. Len(log[d]) : log[d][i].t < minute
  /\ \A d \in Days : d > utcDay => log[d] = <<>>
  /\ acc # None /\ acc.prev # None =>
       acc.start <= minute /\ \A i \in 1 .. Len(log[utcDay]) : log[utcDay][i].t < acc.start

InMemory(a) ==
  /\ Held(log[utcDay], a.bars) /\ a.recovered <= Len(a.bars)
  /\ Shadow!VolumeOf(SubSeq(a.bars, a.recovered + 1, Len(a.bars))) + a.vol = a.up + a.down + a.zero

ShadowInv == ShadowTyped /\ CountedOnce /\ Ordered /\ (acc # None => InMemory(acc))

(* There are finitely many days.                                           *)
LEMMA DaysFinite == IsFiniteSet(Days)
<1>1. 0 \in Int /\ MaxDay \in Int
  BY VolumeAssumption
<1> QED BY <1>1, FS_Interval DEF Days

(* What is in the logs is a number.                                        *)
LEMMA LogsTyped == ASSUME ShadowTyped PROVE InLogs \in Int
<1>1. \A d \in Days : log[d] \in Seq(MinuteBars)
  BY DEF ShadowTyped
<1>2. \A d \in Days : Shadow!VolumeOf(log[d]) \in Int
  BY <1>1, VolumeOfIsTotal
<1>3. \A d \in Days : DayVolumes(log)[d] \in Int
  BY <1>2 DEF DayVolumes
<1> QED BY <1>3, DaysFinite, SumFacts DEF InLogs

(* The invariant has what the property says.                               *)
LEMMA LogIsTrue == ShadowInv => Shadow!LogIsVolume
<1> SUFFICES ASSUME ShadowInv PROVE Shadow!LogIsVolume
  OBVIOUS
<1>1. ShadowTyped /\ CountedOnce /\ Ordered /\ (acc # None => InMemory(acc))
  BY DEF ShadowInv
<1>2. Shadow!Logged = InLogs
  <2>1. PICK logs : logs = log
    OBVIOUS
  <2>2. Shadow!MapThenSumSet(LAMBDA d : Shadow!VolumeOf(logs[d]), Days) = SumOver(DayVolumes(logs), Days)
    BY LoggedIsSum
  <2> QED BY <2>1, <2>2 DEF Shadow!Logged, InLogs, Days, Shadow!MapThenSumSet, Shadow!MapThenFoldSet
<1>3. InLogs \in Int
  BY <1>1, LogsTyped
<1>4. Shadow!Logged + (IF acc = None THEN 0 ELSE acc.vol) <= traded
  <2>1. CASE acc = None
    <3>1. InLogs + 0 = InLogs
      BY <1>3
    <3> QED BY <1>1, <1>2, <2>1, <3>1 DEF CountedOnce
  <2>2. CASE acc # None
    BY <1>1, <1>2, <2>2 DEF CountedOnce
  <2> QED BY <2>1, <2>2
<1>5. \A d \in 0 .. MaxDay : \A i \in 1 .. (Len(log[d]) - 1) : log[d][i].t < log[d][i + 1].t
  BY <1>1 DEF Ordered, Days
<1>6. ASSUME acc # None
      PROVE  /\ \A b \in Shadow!ToSet(log[utcDay]) :
                  b \in Shadow!ToSet(acc.bars) \/ \A c \in Shadow!ToSet(acc.bars) : b.t < c.t
             /\ Shadow!VolumeOf(SubSeq(acc.bars, acc.recovered + 1, Len(acc.bars))) + acc.vol
                  = acc.up + acc.down + acc.zero
  <2>1. log[utcDay] \in Seq(MinuteBars) /\ acc.bars \in Seq(MinuteBars)
    BY <1>1, <1>6 DEF ShadowTyped, Accumulators
  <2>2. Held(log[utcDay], acc.bars)
    BY <1>1, <1>6 DEF InMemory
  <2>3. \A b \in Shadow!ToSet(log[utcDay]) :
          b \in Shadow!ToSet(acc.bars) \/ \A c \in Shadow!ToSet(acc.bars) : b.t < c.t
    BY <2>1, <2>2, HeldOfSets
  <2> QED BY <1>1, <1>6, <2>3 DEF InMemory
<1> QED BY <1>4, <1>5, <1>6 DEF Shadow!LogIsVolume

(* Initially the logs are empty.                                           *)
LEMMA ShadowInitially == Shadow!Init => ShadowInv
<1> SUFFICES ASSUME Shadow!Init PROVE ShadowInv
  OBVIOUS
<1>1. /\ minute = 0 /\ utcDay = 0 /\ daily = 0 /\ traded = 0 /\ acc = None
      /\ log = [d \in Days |-> <<>>]
  BY DEF Shadow!Init, Days
<1>2. ShadowTyped
  <2>1. 0 \in Days /\ <<>> \in Seq(MinuteBars)
    BY VolumeAssumption DEF Days
  <2> QED BY <1>1, <2>1 DEF ShadowTyped
<1>3. InLogs = 0
  <2>1. IsFiniteSet(Days)
    BY DaysFinite
  <2>2. \A d \in Days : DayVolumes(log)[d] = 0
    BY <1>1, BarsOfNone DEF DayVolumes
  <2> QED BY <2>1, <2>2, SumOfZeros DEF InLogs
<1>4. Ordered
  BY <1>1 DEF Ordered
<1> QED BY <1>1, <1>2, <1>3, <1>4 DEF ShadowInv, CountedOnce

(* Steps that touch neither logs nor memory, and let nothing go back.      *)
LEMMA ClockKeeps ==
  ASSUME ShadowInv, UNCHANGED <<acc, log>>, minute' \in {minute, minute + 1},
         \/ UNCHANGED <<utcDay, daily, traded>>
         \/ UNCHANGED <<utcDay, traded>> /\ daily' = 0
         \/ UNCHANGED utcDay /\ daily' = daily + 1 /\ traded' = traded + 1
         \/ UNCHANGED <<daily, traded>> /\ utcDay' = utcDay + 1 /\ utcDay < MaxDay
  PROVE  ShadowInv'
<1>1. ShadowTyped /\ CountedOnce /\ Ordered /\ (acc # None => InMemory(acc))
  BY DEF ShadowInv
<1>2. minute \in Nat /\ utcDay \in Days /\ daily \in Nat /\ traded \in Int /\ MaxDay \in Nat
  BY <1>1, VolumeAssumption DEF ShadowTyped
<1>3. minute' \in Nat /\ utcDay' \in Days /\ daily' \in Nat /\ traded' \in Int
      /\ minute <= minute' /\ utcDay <= utcDay' /\ (utcDay' # utcDay => utcDay' > utcDay)
  BY <1>2 DEF Days
<1>4. ShadowTyped'
  BY <1>1, <1>3 DEF ShadowTyped
<1>5. InLogs' = InLogs /\ InLogs \in Int
  <2>1. InLogs' = InLogs
    BY DEF InLogs
  <2> QED BY <1>1, <2>1, LogsTyped
<1>6. acc # None => acc.seen \in Int /\ acc.vol \in Int /\ acc.start \in Int
  BY <1>1 DEF ShadowTyped, Accumulators
<1>7. CountedOnce'
  <2>1. InLogs' <= traded'
    BY <1>1, <1>2, <1>5 DEF CountedOnce
  <2>2. ASSUME acc # None
        PROVE  /\ acc.vol >= 0 /\ InLogs' + acc.vol <= traded'
               /\ acc.prev # None => InLogs' + acc.vol + Ahead(acc)' <= traded'
    <3>1. /\ acc.vol >= 0 /\ InLogs + acc.vol <= traded
          /\ acc.prev # None => InLogs + acc.vol + Ahead(acc) <= traded
      BY <1>1, <2>2 DEF CountedOnce
    <3>2. Ahead(acc)' = IF daily' - acc.seen > 0 THEN daily' - acc.seen ELSE 0
      BY DEF Ahead
    <3>3. Ahead(acc) = IF daily - acc.seen > 0 THEN daily - acc.seen ELSE 0
      BY DEF Ahead
    <3>4. Ahead(acc)' \in Int /\ Ahead(acc) \in Int
      BY <1>2, <1>3, <1>6, <2>2, <3>2, <3>3
    <3>5. Ahead(acc)' - Ahead(acc) <= traded' - traded
      BY <1>2, <1>3, <1>6, <2>2, <3>2, <3>3
    <3> QED BY <1>2, <1>3, <1>5, <1>6, <2>2, <3>1, <3>4, <3>5
  <2> QED BY <2>1, <2>2 DEF CountedOnce
<1>8. Ordered'
  <2>1. \A d \in Days : \A i \in 1 .. Len(log[d]) : log[d][i].t \in Int
    <3>1. \A d \in Days : log[d] \in Seq(MinuteBars)
      BY <1>1 DEF ShadowTyped
    <3>2. \A d \in Days : \A i \in 1 .. Len(log[d]) : log[d][i] \in MinuteBars
      BY <3>1, ElementOfSeq
    <3> QED BY <3>2 DEF MinuteBars
  <2>2. \A d \in Days : \A i \in 1 .. Len(log[d]) : log[d][i].t < minute'
    <3>1. \A d \in Days : \A i \in 1 .. Len(log[d]) : log[d][i].t < minute
      BY <1>1 DEF Ordered
    <3> QED BY <1>2, <1>3, <2>1, <3>1
  <2>3. \A d \in Days : d > utcDay' => log[d] = <<>>
    <3>1. \A d \in Days : d > utcDay' => d > utcDay
      BY <1>2, <1>3 DEF Days
    <3> QED BY <1>1, <3>1 DEF Ordered
  <2>4. ASSUME acc # None, acc.prev # None
        PROVE  acc.start <= minute' /\ \A i \in 1 .. Len(log[utcDay']) : log[utcDay'][i].t < acc.start
    <3>1. acc.start <= minute /\ \A i \in 1 .. Len(log[utcDay]) : log[utcDay][i].t < acc.start
      BY <1>1, <2>4 DEF Ordered
    <3>2. acc.start <= minute'
      BY <1>2, <1>3, <1>6, <2>4, <3>1
    <3>3. CASE utcDay' = utcDay
      BY <3>1, <3>2, <3>3
    <3>4. CASE utcDay' # utcDay
      <4>1. log[utcDay'] = <<>>
        BY <1>1, <1>3, <3>4 DEF Ordered
      <4> QED BY <3>2, <4>1
    <3> QED BY <3>3, <3>4
  <2> QED BY <1>1, <2>2, <2>3, <2>4 DEF Ordered
<1>9. ASSUME acc # None PROVE InMemory(acc)'
  <2>1. InMemory(acc)
    BY <1>1, <1>9
  <2>2. CASE utcDay' = utcDay
    BY <2>1, <2>2 DEF InMemory
  <2>3. CASE utcDay' # utcDay
    <3>1. log[utcDay'] = <<>>
      BY <1>1, <1>3, <2>3 DEF Ordered
    <3>2. acc.bars \in Seq(MinuteBars)
      BY <1>1, <1>9 DEF ShadowTyped, Accumulators
    <3>3. Held(log[utcDay'], acc.bars)
      BY <3>1, <3>2, HeldReflexive
    <3> QED BY <2>1, <3>3 DEF InMemory
  <2> QED BY <2>2, <2>3
<1> QED BY <1>4, <1>7, <1>8, <1>9 DEF ShadowInv

-----------------------------------------------------------------------------
(* Updates, which count volume and close minutes.                          *)

(* What is counted is counted by direction, and nothing else changes.      *)
LEMMA CountAdds ==
  ASSUME NEW a \in Accumulators, NEW dv \in Int, NEW dir \in Int,
         NEW c, c = Shadow!Count(a, dv, dir)
  PROVE  /\ c \in Accumulators /\ c.vol = a.vol + dv
         /\ c.up + c.down + c.zero = a.up + a.down + a.zero + dv
         /\ c.prev = a.prev /\ c.seen = a.seen /\ c.start = a.start
         /\ c.bars = a.bars /\ c.recovered = a.recovered
<1>1. /\ a.vol \in Int /\ a.up \in Int /\ a.down \in Int /\ a.zero \in Int
      /\ a.minUp \in Int /\ a.minDown \in Int
  BY DEF Accumulators
<1>2. PICK u, d, z : /\ u = (IF dir > 0 THEN dv ELSE 0) /\ d = (IF dir < 0 THEN dv ELSE 0)
                     /\ z = (IF dir = 0 THEN dv ELSE 0)
  OBVIOUS
<1>3. u \in Int /\ d \in Int /\ z \in Int /\ u + d + z = dv
  BY <1>2
<1>4. c = [a EXCEPT !.dir = dir, !.vol = @ + dv, !.up = @ + u, !.minUp = @ + u,
                    !.down = @ + d, !.minDown = @ + d, !.zero = @ + z]
  BY <1>2 DEF Shadow!Count
<1>5. c \in Accumulators
  <2>1. PICK W : W = Seq(MinuteBars)
    OBVIOUS
  <2>2. PICK L : L = Levels \cup {None}
    OBVIOUS
  <2>3. a.vol + dv \in Int /\ a.up + u \in Int /\ a.minUp + u \in Int /\ a.down + d \in Int
        /\ a.minDown + d \in Int /\ a.zero + z \in Int
    BY <1>1, <1>3
  <2>4. a \in [prev : L, seen : Int, dir : Int, up : Int, down : Int, zero : Int,
                bars : W, recovered : Nat, start : Nat, vol : Int, minUp : Int, minDown : Int]
    BY <2>1, <2>2 DEF Accumulators
  <2>5. c \in [prev : L, seen : Int, dir : Int, up : Int, down : Int, zero : Int,
                bars : W, recovered : Nat, start : Nat, vol : Int, minUp : Int, minDown : Int]
    BY ZenonT(40), <1>4, <2>3, <2>4
  <2> QED BY <2>1, <2>2, <2>5 DEF Accumulators
<1>6. /\ c.vol = a.vol + dv /\ c.up = a.up + u /\ c.down = a.down + d /\ c.zero = a.zero + z
      /\ c.prev = a.prev /\ c.seen = a.seen /\ c.start = a.start
      /\ c.bars = a.bars /\ c.recovered = a.recovered
  BY <1>4 DEF Accumulators
<1> QED BY <1>1, <1>3, <1>5, <1>6

Note(a, p, n) == [a EXCEPT !.prev = p, !.seen = n]

Begin(a, p, n, m) == [a EXCEPT !.prev = p, !.seen = n, !.start = m]

(* An update is remembered,                                                *)
LEMMA Noted ==
  ASSUME NEW a \in Accumulators, NEW p \in Levels, NEW n \in Int, 
         NEW c, c = Note(a, p, n)
  PROVE  /\ c \in Accumulators /\ c.prev = p /\ c.seen = n /\ c.start = a.start
         /\ c.vol = a.vol /\ c.bars = a.bars /\ c.recovered = a.recovered
         /\ c.up = a.up /\ c.down = a.down /\ c.zero = a.zero
<1>1. PICK W, L : W = Seq(MinuteBars) /\ L = Levels \cup {None}
  OBVIOUS
<1>2. a \in [prev : L, seen : Int, dir : Int, up : Int, down : Int, zero : Int,
             bars : W, recovered : Nat, start : Nat, vol : Int, minUp : Int, minDown : Int]
      /\ p \in L
  BY <1>1 DEF Accumulators
<1>3. c \in [prev : L, seen : Int, dir : Int, up : Int, down : Int, zero : Int,
             bars : W, recovered : Nat, start : Nat, vol : Int, minUp : Int, minDown : Int]
  BY <1>2 DEF Note
<1>4. c \in Accumulators
  BY <1>1, <1>3 DEF Accumulators
<1>5. /\ c.prev = p /\ c.seen = n /\ c.start = a.start
      /\ c.vol = a.vol /\ c.bars = a.bars /\ c.recovered = a.recovered
      /\ c.up = a.up /\ c.down = a.down /\ c.zero = a.zero
  BY <1>2 DEF Note
<1> QED BY <1>4, <1>5

(* and with the first of them a minute starts.                              *)
LEMMA Started ==
  ASSUME NEW a \in Accumulators, NEW p \in Levels, NEW n \in Int, NEW m \in Nat,
         NEW c, c = Begin(a, p, n, m)
  PROVE  /\ c \in Accumulators /\ c.prev = p /\ c.seen = n /\ c.start = m
         /\ c.vol = a.vol /\ c.bars = a.bars /\ c.recovered = a.recovered
         /\ c.up = a.up /\ c.down = a.down /\ c.zero = a.zero
<1>1. PICK W, L : W = Seq(MinuteBars) /\ L = Levels \cup {None}
  OBVIOUS
<1>2. a \in [prev : L, seen : Int, dir : Int, up : Int, down : Int, zero : Int,
             bars : W, recovered : Nat, start : Nat, vol : Int, minUp : Int, minDown : Int]
      /\ p \in L
  BY <1>1 DEF Accumulators
<1>3. c \in [prev : L, seen : Int, dir : Int, up : Int, down : Int, zero : Int,
             bars : W, recovered : Nat, start : Nat, vol : Int, minUp : Int, minDown : Int]
  BY <1>2 DEF Begin
<1>4. c \in Accumulators
  BY <1>1, <1>3 DEF Accumulators
<1>5. /\ c.prev = p /\ c.seen = n /\ c.start = m
      /\ c.vol = a.vol /\ c.bars = a.bars /\ c.recovered = a.recovered
      /\ c.up = a.up /\ c.down = a.down /\ c.zero = a.zero
  BY <1>2 DEF Begin
<1> QED BY <1>4, <1>5

(* A difference, if it is positive.                                        *)
LEMMA MaxWithZero ==
  ASSUME NEW n \in Int
  PROVE  Shadow!Max({0, n}) = (IF n > 0 THEN n ELSE 0)
<1>1. PICK m : m = Shadow!Max({0, n})
  OBVIOUS
<1>2. m = CHOOSE x \in {0, n} : \A y \in {0, n} : x >= y
  BY <1>1 DEF Shadow!Max
<1>3. \E x \in {0, n} : \A y \in {0, n} : x >= y
  <2>1. CASE n > 0
    BY <2>1
  <2>2. CASE ~(n > 0)
    BY <2>2
  <2> QED BY <2>1, <2>2
<1>4. m \in {0, n} /\ m >= 0 /\ m >= n
  BY <1>2, <1>3
<1> QED BY <1>1, <1>4

(* What was counted since the recovery is a number.                        *)
LEMMA Since ==
  ASSUME NEW a \in Accumulators, a.recovered <= Len(a.bars)
  PROVE  Shadow!VolumeOf(SubSeq(a.bars, a.recovered + 1, Len(a.bars))) \in Int
<1>1. a.bars \in Seq(MinuteBars) /\ a.recovered \in Nat
  BY DEF Accumulators
<1>2. Len(a.bars) \in Nat /\ \A i \in 1 .. Len(a.bars) : a.bars[i] \in MinuteBars
  BY <1>1, LenProperties, ElementOfSeq
<1>3. PICK q, k : q = a.bars /\ k = a.recovered + 1
  OBVIOUS
<1>4. SubSeq(q, k, Len(q)) \in Seq(MinuteBars)
  <2>1. k \in Int /\ Len(q) \in Int /\ \A i \in k .. Len(q) : q[i] \in MinuteBars
    BY <1>1, <1>2, <1>3
  <2> QED BY <2>1, SubSeqProperties
<1> QED BY <1>3, <1>4, VolumeOfIsTotal

(* The first update that a symbol's accumulator is told of.                *)
LEMMA FirstTold ==
  ASSUME ShadowInv, NEW p \in Levels, acc # None, acc.prev = None,
         UNCHANGED <<minute, utcDay>>, daily' = daily + 1, traded' = traded + 1,
         Shadow!OnUpdate(p, daily + 1)
  PROVE  ShadowInv'
<1>1. ShadowTyped /\ CountedOnce /\ Ordered /\ InMemory(acc)
  BY DEF ShadowInv
<1>2. minute \in Nat /\ daily \in Nat /\ traded \in Int /\ acc \in Accumulators
      /\ utcDay \in Days /\ log \in [Days -> Seq(MinuteBars)]
  BY <1>1 DEF ShadowTyped
<1>3. acc' = [acc EXCEPT !.prev = p, !.seen = daily + 1, !.start = minute] /\ log' = log
  BY DEF Shadow!OnUpdate
<1>4. /\ acc' \in Accumulators /\ acc'.prev = p /\ acc'.seen = daily + 1 /\ acc'.start = minute
      /\ acc'.vol = acc.vol /\ acc'.bars = acc.bars /\ acc'.recovered = acc.recovered
      /\ acc'.up = acc.up /\ acc'.down = acc.down /\ acc'.zero = acc.zero
  <2>1. daily + 1 \in Int /\ p \in Levels
    BY <1>2
  <2>2. PICK a, b, n : a = acc /\ b = acc' /\ n = daily + 1
    OBVIOUS
  <2>5. n \in Int /\ p \in Levels /\ a \in Accumulators /\ minute \in Nat
    BY <1>2, <2>1, <2>2
  <2>3. b = Begin(a, p, n, minute)
    BY <1>3, <2>2 DEF Begin
  <2>4. /\ b \in Accumulators /\ b.prev = p /\ b.seen = n /\ b.start = minute
        /\ b.vol = a.vol /\ b.bars = a.bars /\ b.recovered = a.recovered
        /\ b.up = a.up /\ b.down = a.down /\ b.zero = a.zero
    BY <2>3, <2>5, Started
  <2> QED BY <2>2, <2>4
<1>5. ShadowTyped'
  BY <1>2, <1>3, <1>4 DEF ShadowTyped
<1>6. CountedOnce'
  <2>1. InLogs' = InLogs /\ InLogs \in Int
    <3>1. InLogs' = InLogs
      BY <1>3 DEF InLogs
    <3> QED BY <1>1, <3>1, LogsTyped
  <2>2. InLogs <= traded /\ acc.vol >= 0 /\ InLogs + acc.vol <= traded /\ acc.vol \in Int
    BY <1>1, <1>2 DEF CountedOnce, Accumulators
  <2>3. Ahead(acc)' = 0
    BY <1>2, <1>4 DEF Ahead
  <2>4. /\ InLogs' <= traded' /\ acc'.vol >= 0 /\ InLogs' + acc'.vol <= traded'
        /\ InLogs' + acc'.vol + Ahead(acc)' <= traded'
    BY <1>2, <1>4, <2>1, <2>2, <2>3
  <2> QED BY <2>4 DEF CountedOnce
<1>7. Ordered'
  <2>1. /\ \A d \in Days : \A i \in 1 .. Len(log[d]) - 1 : log[d][i].t < log[d][i + 1].t
        /\ \A d \in Days : \A i \in 1 .. Len(log[d]) : log[d][i].t < minute
        /\ \A d \in Days : d > utcDay => log[d] = <<>>
    BY <1>1 DEF Ordered
  <2>2. acc'.start <= minute
    BY <1>2, <1>4
  <2> QED BY <1>2, <1>3, <1>4, <2>1, <2>2 DEF Ordered
<1>8. InMemory(acc)'
  BY <1>1, <1>3, <1>4 DEF InMemory
<1> QED BY <1>5, <1>6, <1>7, <1>8 DEF ShadowInv

(* What later ones find: the ticks' volume is what was ahead, and one more. *)
LEMMA LaterTold ==
  ASSUME ShadowInv, NEW p \in Levels, acc # None, acc.prev # None,
         daily' = daily + 1, traded' = traded + 1,
         NEW c, c = Shadow!Count(acc, Shadow!Max({0, daily + 1 - acc.seen}), Shadow!Direction(acc, p))
  PROVE  /\ acc \in Accumulators /\ c \in Accumulators /\ InLogs \in Int
         /\ c.vol >= 0 /\ InLogs + c.vol <= traded' /\ c.start = acc.start
         /\ c.bars = acc.bars /\ c.recovered = acc.recovered
         /\ c.up + c.down + c.zero - c.vol = acc.up + acc.down + acc.zero - acc.vol
<1>1. ShadowTyped /\ CountedOnce /\ InLogs \in Int
  BY LogsTyped DEF ShadowInv
<1>2. daily \in Nat /\ traded \in Int /\ acc \in Accumulators
  BY <1>1 DEF ShadowTyped
<1>3. acc.seen \in Int /\ acc.vol \in Int /\ acc.dir \in Int
      /\ acc.up \in Int /\ acc.down \in Int /\ acc.zero \in Int
  BY <1>2 DEF Accumulators
<1>4. PICK dv, dir : dv = Shadow!Max({0, daily + 1 - acc.seen}) /\ dir = Shadow!Direction(acc, p)
  OBVIOUS
<1>5. dv = (IF daily + 1 - acc.seen > 0 THEN daily + 1 - acc.seen ELSE 0)
  BY <1>2, <1>3, <1>4, MaxWithZero
<1>6. dv \in Int /\ dv >= 0 /\ dv <= Ahead(acc) + 1 /\ Ahead(acc) \in Int
  BY <1>2, <1>3, <1>5 DEF Ahead
<1>7. dir \in Int
  BY <1>3, <1>4 DEF Shadow!Direction
<1>8. /\ c \in Accumulators /\ c.vol = acc.vol + dv
      /\ c.up + c.down + c.zero = acc.up + acc.down + acc.zero + dv
      /\ c.start = acc.start /\ c.bars = acc.bars /\ c.recovered = acc.recovered
  BY <1>2, <1>4, <1>6, <1>7, CountAdds
<1>9. acc.vol >= 0 /\ InLogs + acc.vol + Ahead(acc) <= traded
  BY <1>1 DEF CountedOnce
<1>10. c.vol >= 0 /\ InLogs + c.vol <= traded'
  BY <1>1, <1>2, <1>3, <1>6, <1>8, <1>9
<1>11. c.up + c.down + c.zero - c.vol = acc.up + acc.down + acc.zero - acc.vol
  <2>1. c.up \in Int /\ c.down \in Int /\ c.zero \in Int
    BY <1>8 DEF Accumulators
  <2> QED BY <1>3, <1>6, <1>8, <2>1
<1> QED BY <1>1, <1>2, <1>8, <1>10, <1>11

(* An update within the minute.                                            *)
LEMMA KeepsOpen ==
  ASSUME ShadowInv, NEW p \in Levels, acc # None, acc.prev # None,
         UNCHANGED <<minute, utcDay, log>>, daily' = daily + 1, traded' = traded + 1,
         NEW c, c = Shadow!Count(acc, Shadow!Max({0, daily + 1 - acc.seen}), Shadow!Direction(acc, p)),
         acc' = [c EXCEPT !.prev = p, !.seen = daily + 1]
  PROVE  ShadowInv'
<1>1. ShadowTyped /\ CountedOnce /\ Ordered /\ InMemory(acc)
  BY DEF ShadowInv
<1>2. minute \in Nat /\ daily \in Nat /\ traded \in Int /\ traded' \in Int
      /\ utcDay \in Days /\ log \in [Days -> Seq(MinuteBars)] 
  BY <1>1 DEF ShadowTyped
<1>3. /\ acc \in Accumulators /\ c \in Accumulators /\ InLogs \in Int
      /\ c.vol >= 0 /\ InLogs + c.vol <= traded' /\ c.start = acc.start
      /\ c.bars = acc.bars /\ c.recovered = acc.recovered
      /\ c.up + c.down + c.zero - c.vol = acc.up + acc.down + acc.zero - acc.vol
  BY LaterTold
<1>4. /\ acc' \in Accumulators /\ acc'.prev = p /\ acc'.seen = daily + 1 /\ acc'.start = c.start
      /\ acc'.vol = c.vol /\ acc'.bars = c.bars /\ acc'.recovered = c.recovered
      /\ acc'.up = c.up /\ acc'.down = c.down /\ acc'.zero = c.zero
  <2>1. daily + 1 \in Int /\ p \in Levels
    BY <1>2
  <2>2. PICK b, n : b = acc' /\ n = daily + 1
    OBVIOUS
  <2>5. n \in Int /\ p \in Levels /\ c \in Accumulators
    BY <1>3, <2>1, <2>2
  <2>3. b = Note(c, p, n)
    BY <2>2 DEF Note
  <2>4. /\ b \in Accumulators /\ b.prev = p /\ b.seen = n /\ b.start = c.start
        /\ b.vol = c.vol /\ b.bars = c.bars /\ b.recovered = c.recovered
        /\ b.up = c.up /\ b.down = c.down /\ b.zero = c.zero
    BY <2>3, <2>5, Noted
  <2> QED BY <2>2, <2>4
<1>5. ShadowTyped'
  BY <1>2, <1>4 DEF ShadowTyped
<1>6. CountedOnce'
  <2>1. InLogs' = InLogs
    BY DEF InLogs
  <2>2. Ahead(acc)' = 0
    BY <1>2, <1>4 DEF Ahead
  <2>3. c.vol \in Int
    BY <1>3 DEF Accumulators
  <2>4. /\ InLogs' <= traded' /\ acc'.vol >= 0 /\ InLogs' + acc'.vol <= traded'
        /\ InLogs' + acc'.vol + Ahead(acc)' <= traded'
    BY <1>2, <1>3, <1>4, <2>1, <2>2, <2>3
  <2> QED BY <2>4 DEF CountedOnce
<1>7. Ordered'
  <2>1. /\ \A d \in Days : \A i \in 1 .. Len(log[d]) - 1 : log[d][i].t < log[d][i + 1].t
        /\ \A d \in Days : \A i \in 1 .. Len(log[d]) : log[d][i].t < minute
        /\ \A d \in Days : d > utcDay => log[d] = <<>>
        /\ acc.start <= minute /\ \A i \in 1 .. Len(log[utcDay]) : log[utcDay][i].t < acc.start
    BY <1>1 DEF Ordered
  <2> QED BY <1>3, <1>4, <2>1 DEF Ordered
<1>8. InMemory(acc)'
  <2>1. /\ Held(log[utcDay], acc.bars) /\ acc.recovered <= Len(acc.bars)
        /\ Shadow!VolumeOf(SubSeq(acc.bars, acc.recovered + 1, Len(acc.bars))) + acc.vol
             = acc.up + acc.down + acc.zero
    BY <1>1 DEF InMemory
  <2>2. Shadow!VolumeOf(SubSeq(acc.bars, acc.recovered + 1, Len(acc.bars))) \in Int
    BY <1>3, <2>1, Since
  <2>3. /\ acc.up \in Int /\ acc.down \in Int /\ acc.zero \in Int /\ acc.vol \in Int
        /\ c.up \in Int /\ c.down \in Int /\ c.zero \in Int /\ c.vol \in Int
    BY <1>3 DEF Accumulators
  <2>4. Shadow!VolumeOf(SubSeq(c.bars, c.recovered + 1, Len(c.bars))) + c.vol
          = c.up + c.down + c.zero
    <3>1. PICK v : v = Shadow!VolumeOf(SubSeq(acc.bars, acc.recovered + 1, Len(acc.bars)))
      OBVIOUS
    <3>2. v \in Int /\ v + acc.vol = acc.up + acc.down + acc.zero
      BY <2>1, <2>2, <3>1
    <3>3. v + c.vol = c.up + c.down + c.zero
      BY <1>3, <2>3, <3>2
    <3> QED BY <1>3, <3>1, <3>3
  <2> QED BY <1>3, <1>4, <2>1, <2>4 DEF InMemory
<1> QED BY <1>4, <1>5, <1>6, <1>7, <1>8 DEF ShadowInv

(* A minute that closes is a bar, and the next one starts without volume.  *)
LEMMA Closed ==
  ASSUME NEW a \in Accumulators, minute \in Nat, a.vol > 0,
         NEW b, b = Shadow!Bar(a), NEW c, c = Shadow!NewMinute(a)
  PROVE  /\ b \in MinuteBars /\ b.t = a.start /\ b.v = a.vol
         /\ c \in Accumulators /\ c.vol = 0 /\ c.start = minute /\ c.bars = Append(a.bars, b)
         /\ c.recovered = a.recovered /\ c.up = a.up /\ c.down = a.down /\ c.zero = a.zero
<1>1. /\ a.vol \in Nat /\ a.start \in Nat /\ a.minUp \in Int /\ a.minDown \in Int
      /\ a.bars \in Seq(MinuteBars)
  BY DEF Accumulators
<1>2. b \in MinuteBars /\ b.t = a.start /\ b.v = a.vol
  BY <1>1 DEF Shadow!Bar, MinuteBars
<1>3. PICK q : q = Append(a.bars, b)
  OBVIOUS
<1>4. q \in Seq(MinuteBars)
  BY <1>1, <1>2, <1>3, AppendProperties
<1>5. PICK W, L : W = Seq(MinuteBars) /\ L = Levels \cup {None}
  OBVIOUS
<1>6. a \in [prev : L, seen : Int, dir : Int, up : Int, down : Int, zero : Int,
             bars : W, recovered : Nat, start : Nat, vol : Int, minUp : Int, minDown : Int]
      /\ q \in W
  BY <1>4, <1>5 DEF Accumulators
<1>7. c = [a EXCEPT !.bars = q, !.start = minute, !.vol = 0, !.minUp = 0, !.minDown = 0]
  BY <1>3 DEF Shadow!NewMinute
<1>8. c \in [prev : L, seen : Int, dir : Int, up : Int, down : Int, zero : Int,
             bars : W, recovered : Nat, start : Nat, vol : Int, minUp : Int, minDown : Int]
  <2>1. c = [prev |-> a.prev, seen |-> a.seen, dir |-> a.dir, up |-> a.up, down |-> a.down,
             zero |-> a.zero, bars |-> q, recovered |-> a.recovered, start |-> minute,
             vol |-> 0, minUp |-> 0, minDown |-> 0]
    BY <1>6, <1>7
  <2>2. /\ a.prev \in L /\ a.seen \in Int /\ a.dir \in Int /\ a.up \in Int /\ a.down \in Int
        /\ a.zero \in Int /\ a.recovered \in Nat /\ 0 \in Int
    BY <1>6
  <2> QED BY <1>6, <2>1, <2>2
<1>9. c \in Accumulators
  BY <1>5, <1>8 DEF Accumulators
<1>10. /\ c.vol = 0 /\ c.start = minute /\ c.bars = q
       /\ c.recovered = a.recovered /\ c.up = a.up /\ c.down = a.down /\ c.zero = a.zero
  BY <1>6, <1>7
<1> QED BY <1>2, <1>3, <1>9, <1>10

(* The day's log with a bar of the minute that closes.                     *)
LEMMA OrderedAppend ==
  ASSUME ShadowTyped, Ordered, acc # None, acc.prev # None, minute > acc.start,
         NEW b \in MinuteBars, b.t = acc.start, NEW logs, logs = [log EXCEPT ![utcDay] = Append(@, b)]
  PROVE  /\ logs \in [Days -> Seq(MinuteBars)] /\ logs[utcDay] = Append(log[utcDay], b)
         /\ \A d \in Days : \A i \in 1 .. Len(logs[d]) - 1 : logs[d][i].t < logs[d][i + 1].t
         /\ \A d \in Days : \A i \in 1 .. Len(logs[d]) : logs[d][i].t < minute
         /\ \A d \in Days : d > utcDay => logs[d] = <<>>
<1>1. /\ \A d \in Days : \A i \in 1 .. Len(log[d]) - 1 : log[d][i].t < log[d][i + 1].t
      /\ \A d \in Days : \A i \in 1 .. Len(log[d]) : log[d][i].t < minute
      /\ \A d \in Days : d > utcDay => log[d] = <<>>
      /\ \A i \in 1 .. Len(log[utcDay]) : log[utcDay][i].t < acc.start
  BY DEF Ordered
<1>2. utcDay \in Days /\ log \in [Days -> Seq(MinuteBars)] /\ utcDay \in Int
  BY DEF ShadowTyped, Days
<1>3. PICK q, r : q = log[utcDay] /\ r = Append(q, b)
  OBVIOUS
<1>4. /\ q \in Seq(MinuteBars) /\ Len(q) \in Nat /\ r \in Seq(MinuteBars) /\ Len(r) = Len(q) + 1
      /\ (\A i \in 1 .. Len(q) : r[i] = q[i]) /\ r[Len(q) + 1] = b
  <2>1. q \in Seq(MinuteBars)
    BY <1>2, <1>3
  <2> QED BY <1>3, <2>1, LenProperties, AppendProperties
<1>5. logs \in [Days -> Seq(MinuteBars)] /\ logs[utcDay] = r
      /\ \A d \in Days : d # utcDay => logs[d] = log[d]
  BY <1>2, <1>3, <1>4
<1>6. ASSUME NEW i \in 1 .. Len(r) - 1 PROVE r[i].t < r[i + 1].t
  <2>1. i \in 1 .. Len(q) /\ i + 1 \in 1 .. Len(q) + 1
    BY <1>4
  <2>2. CASE i = Len(q)
    <3>1. q[i].t < acc.start
      BY <1>1, <1>3, <2>1
    <3> QED BY <1>4, <2>1, <2>2, <3>1
  <2>3. CASE i # Len(q)
    <3>1. i \in 1 .. Len(q) - 1 /\ i + 1 \in 1 .. Len(q)
      BY <1>4, <2>1, <2>3
    <3>2. q[i].t < q[i + 1].t
      BY <1>1, <1>2, <1>3, <3>1
    <3> QED BY <1>4, <2>1, <3>1, <3>2
  <2> QED BY <2>2, <2>3
<1>7. ASSUME NEW i \in 1 .. Len(r) PROVE r[i].t < minute
  <2>1. CASE i = Len(q) + 1
    BY <1>4, <2>1
  <2>2. CASE i # Len(q) + 1
    <3>1. i \in 1 .. Len(q)
      BY <1>4, <2>2
    <3> QED BY <1>1, <1>2, <1>3, <1>4, <3>1
  <2> QED BY <2>1, <2>2
<1>8. \A d \in Days : \A i \in 1 .. Len(logs[d]) - 1 : logs[d][i].t < logs[d][i + 1].t
  <2> SUFFICES ASSUME NEW d \in Days PROVE \A i \in 1 .. Len(logs[d]) - 1 : logs[d][i].t < logs[d][i + 1].t
    OBVIOUS
  <2>1. CASE d = utcDay
    BY <1>5, <1>6, <2>1
  <2>2. CASE d # utcDay
    BY <1>1, <1>5, <2>2
  <2> QED BY <2>1, <2>2
<1>9. \A d \in Days : \A i \in 1 .. Len(logs[d]) : logs[d][i].t < minute
  <2> SUFFICES ASSUME NEW d \in Days PROVE \A i \in 1 .. Len(logs[d]) : logs[d][i].t < minute
    OBVIOUS
  <2>1. CASE d = utcDay
    BY <1>5, <1>7, <2>1
  <2>2. CASE d # utcDay
    BY <1>1, <1>5, <2>2
  <2> QED BY <2>1, <2>2
<1>10. \A d \in Days : d > utcDay => logs[d] = <<>>
  <2>1. \A d \in Days : d > utcDay => d # utcDay
    BY <1>2 DEF Days
  <2> QED BY <1>1, <1>5, <2>1
<1> QED BY <1>3, <1>5, <1>8, <1>9, <1>10

Closing(p, c) ==
  /\ c = Shadow!Count(acc, Shadow!Max({0, daily + 1 - acc.seen}), Shadow!Direction(acc, p))
  /\ Shadow!Closes(c)
  /\ acc' = [Shadow!NewMinute(c) EXCEPT !.prev = p, !.seen = daily + 1]
  /\ log' = [log EXCEPT ![utcDay] = Append(@, Shadow!Bar(c))] \/ log' = log

(* An update of a later minute closes the one that was open, and its bar    *)
(* gets into the log or not.                                                *)
LEMMA MinuteCloses ==
  ASSUME ShadowInv, NEW p \in Levels, acc # None, acc.prev # None,
         UNCHANGED <<minute, utcDay>>, daily' = daily + 1, traded' = traded + 1,
         NEW c, Closing(p, c)
  PROVE  ShadowInv'
<1>1. ShadowTyped /\ CountedOnce /\ Ordered /\ InMemory(acc)
  BY DEF ShadowInv
<1>2. /\ minute \in Nat /\ daily \in Nat /\ traded \in Int /\ traded' \in Int
      /\ daily' \in Nat /\ utcDay \in Days /\ log \in [Days -> Seq(MinuteBars)]
  BY <1>1 DEF ShadowTyped
<1>3. /\ acc \in Accumulators /\ c \in Accumulators /\ InLogs \in Int
      /\ c.vol >= 0 /\ InLogs + c.vol <= traded' /\ c.start = acc.start
      /\ c.bars = acc.bars /\ c.recovered = acc.recovered
      /\ c.up + c.down + c.zero - c.vol = acc.up + acc.down + acc.zero - acc.vol
  <2>1. c = Shadow!Count(acc, Shadow!Max({0, daily + 1 - acc.seen}), Shadow!Direction(acc, p))
    BY DEF Closing
  <2> QED BY <2>1, LaterTold
<1>4. minute > acc.start /\ c.vol > 0
  BY <1>3 DEF Closing, Shadow!Closes
<1>5. PICK b, e : b = Shadow!Bar(c) /\ e = Shadow!NewMinute(c)
  OBVIOUS
<1>6. /\ b \in MinuteBars /\ b.t = acc.start /\ b.v = c.vol
      /\ e \in Accumulators /\ e.vol = 0 /\ e.start = minute /\ e.bars = Append(acc.bars, b)
      /\ e.recovered = acc.recovered /\ e.up = c.up /\ e.down = c.down /\ e.zero = c.zero
  <2>1. c \in Accumulators /\ minute \in Nat /\ c.vol > 0
    BY <1>2, <1>3, <1>4
  <2>2. /\ b \in MinuteBars /\ b.t = c.start /\ b.v = c.vol
        /\ e \in Accumulators /\ e.vol = 0 /\ e.start = minute /\ e.bars = Append(c.bars, b)
        /\ e.recovered = c.recovered /\ e.up = c.up /\ e.down = c.down /\ e.zero = c.zero
    BY <1>5, <2>1, Closed
  <2> QED BY <1>3, <2>2
<1>7. PICK f : f = acc'
  OBVIOUS
<1>8. /\ f \in Accumulators /\ f.prev = p /\ f.seen = daily + 1 /\ f.start = minute
      /\ f.vol = 0 /\ f.bars = Append(acc.bars, b) /\ f.recovered = acc.recovered
      /\ f.up = c.up /\ f.down = c.down /\ f.zero = c.zero
  <2>1. PICK n : n = daily + 1
    OBVIOUS
  <2>2. n \in Int /\ p \in Levels /\ e \in Accumulators /\ f = Note(e, p, n)
    BY <1>2, <1>5, <1>6, <1>7, <2>1 DEF Note, Closing
  <2>3. /\ f \in Accumulators /\ f.prev = p /\ f.seen = n /\ f.start = e.start
        /\ f.vol = e.vol /\ f.bars = e.bars /\ f.recovered = e.recovered
        /\ f.up = e.up /\ f.down = e.down /\ f.zero = e.zero
    BY <2>2, Noted
  <2> QED BY <1>6, <2>1, <2>3
<1>9. PICK logs : logs = [log EXCEPT ![utcDay] = Append(@, b)]
  OBVIOUS
<1>10. log' = logs \/ log' = log
  BY <1>5, <1>9 DEF Closing
<1>16. /\ logs \in [Days -> Seq(MinuteBars)] /\ logs[utcDay] = Append(log[utcDay], b)
       /\ \A d \in Days : \A i \in 1 .. Len(logs[d]) - 1 : logs[d][i].t < logs[d][i + 1].t
       /\ \A d \in Days : \A i \in 1 .. Len(logs[d]) : logs[d][i].t < minute
       /\ \A d \in Days : d > utcDay => logs[d] = <<>>
  BY <1>1, <1>4, <1>6, <1>9, OrderedAppend
<1>17. PICK kept : kept = log'
  OBVIOUS
<1>11. /\ kept \in [Days -> Seq(MinuteBars)]
       /\ \A d \in Days : \A i \in 1 .. Len(kept[d]) - 1 : kept[d][i].t < kept[d][i + 1].t
       /\ \A d \in Days : \A i \in 1 .. Len(kept[d]) : kept[d][i].t < minute
       /\ \A d \in Days : d > utcDay => kept[d] = <<>>
  <2>1. CASE kept = logs
    BY <1>16, <2>1
  <2>2. CASE kept = log
    BY <1>1, <1>2, <2>2 DEF Ordered
  <2> QED BY <1>10, <1>17, <2>1, <2>2
<1>18. Held(kept[utcDay], Append(acc.bars, b))
  <2>1. PICK q, x : q = log[utcDay] /\ x = acc.bars
    OBVIOUS
  <2>2. q \in Seq(MinuteBars) /\ x \in Seq(MinuteBars) /\ Held(q, x)
    BY <1>1, <1>2, <1>3, <2>1 DEF InMemory, Accumulators
  <2>3. \A i \in 1 .. Len(q) : q[i].t < b.t
    BY <1>1, <1>6, <2>1 DEF Ordered
  <2>4. Held(q, Append(x, b)) /\ Held(Append(q, b), Append(x, b))
    BY <1>6, <2>2, <2>3, HeldAppend
  <2> QED BY <1>10, <1>16, <1>17, <2>1, <2>4
<1>12. ShadowTyped'
  BY <1>2, <1>7, <1>8, <1>11, <1>17 DEF ShadowTyped
<1>13. CountedOnce'
  <2>1. InLogs' = InLogs + c.vol \/ InLogs' = InLogs
    <3>1. SumOver(DayVolumes(logs), Days) = SumOver(DayVolumes(log), Days) + b.v
      BY <1>2, <1>6, <1>9, LoggedAdds
    <3>2. InLogs' = SumOver(DayVolumes(logs), Days) \/ InLogs' = InLogs
      BY <1>10 DEF InLogs
    <3> QED BY <1>6, <3>1, <3>2 DEF InLogs
  <2>2. Ahead(acc)' = 0
    <3>1. acc'.seen = daily'
      BY <1>7, <1>8
    <3> QED BY <1>2, <3>1 DEF Ahead
  <2>3. c.vol \in Int
    BY <1>3 DEF Accumulators
  <2>4. acc'.vol = 0
    BY <1>7, <1>8
  <2>5. /\ InLogs' <= traded' /\ acc'.vol >= 0 /\ InLogs' + acc'.vol <= traded'
        /\ InLogs' + acc'.vol + Ahead(acc)' <= traded'
    BY <1>2, <1>3, <2>1, <2>2, <2>3, <2>4
  <2> QED BY <2>5 DEF CountedOnce
<1>14. Ordered'
  <2>1. acc'.start = minute /\ acc'.start <= minute
    BY <1>2, <1>7, <1>8
  <2> QED BY <1>2, <1>11, <1>17, <2>1 DEF Ordered
<1>15. InMemory(acc)'
  <2>1. /\ acc.recovered <= Len(acc.bars)
        /\ Shadow!VolumeOf(SubSeq(acc.bars, acc.recovered + 1, Len(acc.bars))) + acc.vol
             = acc.up + acc.down + acc.zero
    BY <1>1 DEF InMemory
  <2>2. PICK q, k, x : q = acc.bars /\ k = acc.recovered /\ x = Append(q, b)
    OBVIOUS
  <2>3. /\ q \in Seq(MinuteBars) /\ k \in Nat /\ k <= Len(q) /\ Len(q) \in Nat
        /\ Len(x) = Len(q) + 1 /\ log[utcDay] \in Seq(MinuteBars)
    <3>1. q \in Seq(MinuteBars) /\ k \in Nat /\ log[utcDay] \in Seq(MinuteBars)
      BY <1>2, <1>3, <2>2 DEF Accumulators
    <3> QED BY <1>6, <2>1, <2>2, <3>1, LenProperties, AppendProperties
  <2>4. Held(kept[utcDay], x)
    BY <1>18, <2>2
  <2>5. PICK s : s = SubSeq(q, k + 1, Len(q))
    OBVIOUS
  <2>6. SubSeq(x, k + 1, Len(x)) = Append(s, b) /\ s \in Seq(MinuteBars)
    BY <1>6, <2>2, <2>3, <2>5, SinceAppend
  <2>7. Shadow!VolumeOf(Append(s, b)) = Shadow!VolumeOf(s) + b.v /\ Shadow!VolumeOf(s) \in Int
    BY <1>6, <2>6, BarAdds
  <2>8. Shadow!VolumeOf(SubSeq(x, k + 1, Len(x))) + 0 = c.up + c.down + c.zero
    <3>1. PICK v : v = Shadow!VolumeOf(s)
      OBVIOUS
    <3>2. /\ acc.up \in Int /\ acc.down \in Int /\ acc.zero \in Int /\ acc.vol \in Int
          /\ c.up \in Int /\ c.down \in Int /\ c.zero \in Int /\ c.vol \in Int
      BY <1>3 DEF Accumulators
    <3>3. v \in Int /\ v + acc.vol = acc.up + acc.down + acc.zero
      BY <2>1, <2>2, <2>5, <2>7, <3>1
    <3>4. v + c.vol + 0 = c.up + c.down + c.zero
      <4>1. PICK n, m : /\ n = acc.up + acc.down + acc.zero - acc.vol
                        /\ m = c.up + c.down + c.zero
        OBVIOUS
      <4>2. n \in Int /\ m \in Int /\ v = n
        BY <3>2, <3>3, <4>1
      <4>3. m - c.vol = n
        BY <1>3, <3>2, <4>1
      <4> QED BY <3>2, <4>1, <4>2, <4>3
    <3> QED BY <1>6, <2>6, <2>7, <3>1, <3>4
  <2>9. k <= Len(x)
    BY <2>3
  <2>10. /\ Held(kept[utcDay], f.bars) /\ f.recovered <= Len(f.bars)
         /\ Shadow!VolumeOf(SubSeq(f.bars, f.recovered + 1, Len(f.bars))) + f.vol
              = f.up + f.down + f.zero
    BY <1>8, <2>2, <2>4, <2>8, <2>9
  <2> QED BY <1>7, <1>17, <2>10 DEF InMemory
<1> QED BY <1>12, <1>13, <1>14, <1>15 DEF ShadowInv

(* An update that the collector is told of.                                *)
LEMMA Told ==
  ASSUME ShadowInv, NEW p \in Levels, acc # None, UNCHANGED <<minute, utcDay>>,
         daily' = daily + 1, traded' = traded + 1, Shadow!OnUpdate(p, daily + 1)
  PROVE  ShadowInv'
<1>1. CASE acc.prev = None
  BY <1>1, FirstTold
<1>2. CASE acc.prev # None
  <2>0. PICK vol : vol = daily + 1
    OBVIOUS
  <2>5. Shadow!OnUpdate(p, vol)
    BY <2>0
  <2>1. PICK c : c = Shadow!Count(acc, Shadow!Max({0, vol - acc.seen}), Shadow!Direction(acc, p))
    OBVIOUS
  <2>2. /\ acc' = [(IF Shadow!Closes(c) THEN Shadow!NewMinute(c) ELSE c)
                      EXCEPT !.prev = p, !.seen = vol]
        /\ \/ Shadow!Closes(c) /\ log' = [log EXCEPT ![utcDay] = Append(@, Shadow!Bar(c))]
           \/ log' = log
    BY <1>2, <2>1, <2>5 DEF Shadow!OnUpdate
  <2>6. c = Shadow!Count(acc, Shadow!Max({0, daily + 1 - acc.seen}), Shadow!Direction(acc, p))
    <3>0. daily \in Int /\ acc.seen \in Int
      BY DEF ShadowInv, ShadowTyped, Accumulators
    <3>1. vol - acc.seen = daily + 1 - acc.seen
      BY <2>0, <3>0
    <3>2. Shadow!Max({0, vol - acc.seen}) = Shadow!Max({0, daily + 1 - acc.seen})
      BY <3>1
    <3> QED BY <2>1, <3>2
  <2>3. CASE Shadow!Closes(c)
    <3>1. acc' = [Shadow!NewMinute(c) EXCEPT !.prev = p, !.seen = daily + 1]
      BY <2>0, <2>2, <2>3
    <3>2. log' = [log EXCEPT ![utcDay] = Append(@, Shadow!Bar(c))] \/ log' = log
      BY <2>2
    <3>3. Closing(p, c)
      BY <2>3, <2>6, <3>1, <3>2 DEF Closing
    <3> QED BY <1>2, <3>3, MinuteCloses
  <2>4. CASE ~Shadow!Closes(c)
    <3>1. acc' = [c EXCEPT !.prev = p, !.seen = daily + 1]
      BY <2>0, <2>2, <2>4
    <3>2. log' = log
      BY <2>0, <2>2, <2>4
    <3> QED BY <1>2, <2>6, <3>1, <3>2, KeepsOpen
  <2> QED BY <2>3, <2>4
<1> QED BY <1>1, <1>2

(* A symbol that is added has the bars of the day's log or none, and one    *)
(* that is reset has none.                                                  *)
LEMMA Recovers ==
  ASSUME ShadowInv, NEW q \in {log[utcDay], <<>>}, acc' = Shadow!Fresh(q),
         UNCHANGED <<minute, utcDay, daily, traded, log>>
  PROVE  ShadowInv'
<1>1. ShadowTyped /\ CountedOnce /\ Ordered
  BY DEF ShadowInv
<1>2. UNCHANGED <<minute, utcDay, daily, traded, log>>
  OBVIOUS
<1>3. PICK f : f = acc'
  OBVIOUS
<1>4. q \in Seq(MinuteBars) /\ Len(q) \in Nat /\ traded \in Int
  <2>1. q \in Seq(MinuteBars) /\ traded \in Int
    <3>1. log[utcDay] \in Seq(MinuteBars) /\ traded \in Int
      BY <1>1 DEF ShadowTyped
    <3>2. <<>> \in Seq(MinuteBars)
      OBVIOUS
    <3> QED BY <3>1, <3>2
  <2> QED BY <2>1, LenProperties
<1>5. f = [prev |-> None, seen |-> 0, dir |-> 0, up |-> 0, down |-> 0, zero |-> 0,
           bars |-> q, recovered |-> Len(q), start |-> 0, vol |-> 0, minUp |-> 0, minDown |-> 0]
  BY <1>3 DEF Shadow!Fresh
<1>6. f \in Accumulators
  BY <1>4, <1>5 DEF Accumulators
<1>7. f.prev = None /\ f.vol = 0 /\ f.bars = q /\ f.recovered = Len(q)
      /\ f.up = 0 /\ f.down = 0 /\ f.zero = 0
  BY <1>5
<1>8. ShadowTyped'
  BY <1>1, <1>2, <1>3, <1>6 DEF ShadowTyped
<1>9. CountedOnce'
  <2>1. InLogs' = InLogs /\ InLogs \in Int /\ InLogs <= traded
    <3>1. InLogs' = InLogs
      BY <1>2 DEF InLogs
    <3> QED BY <1>1, <3>1, LogsTyped DEF CountedOnce
  <2>2. InLogs' <= traded' /\ InLogs' + 0 <= traded'
    BY <1>2, <1>4, <2>1
  <2>3. acc'.prev = None /\ acc'.vol = 0
    BY <1>3, <1>7
  <2> QED BY <2>2, <2>3 DEF CountedOnce
<1>10. Ordered'
  <2>1. acc'.prev = None
    BY <1>3, <1>7
  <2> QED BY <1>1, <1>2, <2>1 DEF Ordered
<1>11. InMemory(acc)'
  <2>1. Held(log[utcDay], q) /\ Len(q) <= Len(q)
    <3>1. log[utcDay] \in Seq(MinuteBars)
      BY <1>1 DEF ShadowTyped
    <3> QED BY <1>4, <3>1, HeldReflexive
  <2>2. SubSeq(q, Len(q) + 1, Len(q)) = <<>>
    <3>1. /\ Len(q) + 1 \in Int /\ Len(q) \in Int /\ Len(q) + 1 > Len(q)
      BY <1>4
    <3> QED BY <3>1, SubSeqEmpty
  <2>3. Shadow!VolumeOf(SubSeq(f.bars, f.recovered + 1, Len(f.bars))) + f.vol = f.up + f.down + f.zero
    <3>1. SubSeq(f.bars, f.recovered + 1, Len(f.bars)) = <<>>
      BY <1>7, <2>2
    <3>2. f.vol = 0 /\ f.up + f.down + f.zero = 0
      BY <1>7
    <3>3. Shadow!VolumeOf(SubSeq(f.bars, f.recovered + 1, Len(f.bars))) = 0
      BY <3>1, BarsOfNone
    <3> QED BY <1>7, <3>2, <3>3
  <2>4. Held(log[utcDay], f.bars) /\ f.recovered <= Len(f.bars)
    BY <1>3, <1>7, <2>1
  <2> QED BY <1>2, <1>3, <2>3, <2>4 DEF InMemory
<1> QED BY <1>8, <1>9, <1>10, <1>11 DEF ShadowInv

(* What a restart forgets was not in the logs.                             *)
LEMMA Forgets ==
  ASSUME ShadowInv, acc' = None, UNCHANGED <<minute, utcDay, daily, traded, log>>
  PROVE  ShadowInv'
<1>1. ShadowTyped /\ CountedOnce /\ Ordered
  BY DEF ShadowInv
<1>2. ShadowTyped'
  BY <1>1 DEF ShadowTyped
<1>3. CountedOnce'
  <2>1. InLogs' = InLogs
    BY DEF InLogs
  <2> QED BY <1>1, <2>1 DEF CountedOnce
<1>4. Ordered'
  BY <1>1 DEF Ordered
<1> QED BY <1>2, <1>3, <1>4 DEF ShadowInv

(* Every step of the volume by direction keeps its invariant.              *)
LEMMA ShadowNext == ShadowInv /\ [Shadow!Next]_shadowVars => ShadowInv'
<1> SUFFICES ASSUME ShadowInv, [Shadow!Next]_shadowVars PROVE ShadowInv'
  OBVIOUS
<1>0. minute \in Nat /\ utcDay \in Days
  BY DEF ShadowInv, ShadowTyped
<1>1. ASSUME NEW p \in Levels, Shadow!Trade(p) PROVE ShadowInv'
  <2>1. /\ daily' = daily + 1 /\ traded' = traded + 1 /\ UNCHANGED <<minute, utcDay>>
        /\ \/ acc # None /\ Shadow!OnUpdate(p, daily + 1)
           \/ UNCHANGED <<acc, log>>
    BY <1>1 DEF Shadow!Trade
  <2>2. CASE acc # None /\ Shadow!OnUpdate(p, daily + 1)
    BY <2>1, <2>2, Told
  <2>3. CASE UNCHANGED <<acc, log>>
    BY <2>1, <2>3, ClockKeeps
  <2> QED BY <2>1, <2>2, <2>3
<1>2. CASE Shadow!MinutePasses
  BY <1>2, ClockKeeps DEF Shadow!MinutePasses
<1>3. CASE Shadow!DayPasses
  BY <1>3, ClockKeeps DEF Shadow!DayPasses
<1>4. CASE Shadow!TotalResets
  BY <1>4, ClockKeeps DEF Shadow!TotalResets
<1>5. CASE Shadow!StartCollector \/ Shadow!StopCollector \/ Shadow!SaveDaily
  BY <1>5, ClockKeeps DEF Shadow!StartCollector, Shadow!StopCollector, Shadow!SaveDaily
<1>6. CASE Shadow!AddSymbol
  <2>1. PICK q \in {log[utcDay], <<>>} : acc' = Shadow!Fresh(q)
    BY <1>6 DEF Shadow!AddSymbol
  <2> QED BY <1>6, <2>1, Recovers DEF Shadow!AddSymbol
<1>9. CASE Shadow!Reset
  BY <1>9, Recovers DEF Shadow!Reset
<1>7. CASE Shadow!Restart
  BY <1>7, Forgets DEF Shadow!Restart
<1>8. CASE UNCHANGED shadowVars
  BY <1>8, ClockKeeps DEF shadowVars
<1> QED BY <1>1, <1>2, <1>3, <1>4, <1>5, <1>6, <1>7, <1>8, <1>9 DEF Shadow!Next

(***************************************************************************)
(* On its way into the database, what a symbol trades from the session's   *)
(* first total on is counted, and nothing twice but the trades that carry  *)
(* no total; the logs of the volume delta never count a share twice,       *)
(* whatever restarts, resets and failing appends come between (_parse_l1   *)
(* and _flush_loop of the collector, on_update, _append_bar_to_log,        *)
(* _load_bars_from_log and reset of the shadow).                           *)
(***************************************************************************)
THEOREM VolumeStaysCounted == Spec => []VolumeCounted
<1> DEFINE Inv == (part = "ticks" => TicksInv) /\ (part = "shadow" => ShadowInv)
<1>1. Init => Inv
  <2>1. ASSUME Init PROVE Ticks!Init /\ (part = "shadow" => Shadow!Init)
    BY <2>1 DEF Init
  <2> QED BY <2>1, TicksInitially, ShadowInitially
<1>2. Inv /\ [Next]_vars => Inv'
  <2> SUFFICES ASSUME Inv, [Next]_vars PROVE Inv'
    OBVIOUS
  <2>1. CASE part = "ticks"
    BY <2>1, TicksStep, TicksNext
  <2>2. CASE part = "shadow"
    BY <2>2, ShadowStep, ShadowNext
  <2>3. CASE part \notin {"ticks", "shadow"}
    BY <2>3 DEF Next, vars
  <2> QED BY <2>1, <2>2, <2>3
<1>3. Inv => VolumeCounted
  BY VolumeIsComplete, LogIsTrue DEF VolumeCounted
<1> QED BY <1>1, <1>2, <1>3, PTL DEF Spec

=============================================================================
