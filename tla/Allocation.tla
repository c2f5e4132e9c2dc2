----------------------------- MODULE Allocation ------------------------------
(***************************************************************************)
(* The capital rules of a backtest: apply_allocation walks through the     *)
(* simulated trades in the order of their entries and takes, skips or      *)
(* replaces them; compute_portfolio_sim walks through the trades taken     *)
(* again, with cash.  run_backtest returns its results symbol by symbol,   *)
(* and apply_allocation pairs them with the entries one by one: unless all *)
(* entries are of one symbol, or stand together by symbol, the walk looks  *)
(* at one trade's result at another trade's entry.  Positions are named by *)
(* the step of the walk that looks at them.                                *)
(* Times are compared as strings: an entry is written in UTC, a bar and so *)
(* an exit in Eastern time, which reads earlier by Offset.  Times below    *)
(* are Eastern, amounts whole dollars.                                     *)
(***************************************************************************)
EXTENDS Integers, FiniteSets, FiniteSetsExt, Functions

CONSTANTS N,        \* trades
          Inputs,   \* what a trade may be: entry, minutes held, drift, has it bars
          MaxOpen,  \* max_concurrent
          Rules,    \* "skip", "unreal_pl", or "other": any other ranking method
          Margin,   \* replace_min_margin, in tenths
          Offset,   \* how much later an entry reads than a bar of its minute
          Delay,    \* reinvest_delay_minutes
          Start     \* starting_amount

VARIABLES
  rule, trade,      \* the inputs, sorted by entry
  paired,           \* per step of the walk, the trade whose result it looks at
  turn,             \* the order of the simulation: its steps' steps of the walk
  phase, next,      \* the walk, and its step
  open, out,        \* open_positions; per step, the result's fate and its exit
  cash, active,     \* the simulation: cash, positions,
  invested,         \* the principal of every position ever opened,
  pending           \* and proceeds that are not available yet

allocVars == <<open, out>>
simVars   == <<cash, active, invested, pending>>
inputs == <<rule, trade, paired, turn>>
vars == <<inputs, phase, next, allocVars, simVars>>

Trades == 1 .. N

(* When an entry reads to be.  The k-th step of the walk is at the k-th    *)
(* entry, whatever trade it looks at.                                      *)
Label(k) == trade[k].at + Offset

(* The trades as run_backtest returns them, for entries at their places in *)
(* the list: by symbol, in the order in which the symbols first appear.    *)
(* zip pairs the entry at a place with the result at the same place.       *)
Results(place, symbol) ==
  LET First(s) == Min({place[i] : i \in {j \in Trades : symbol[j] = s}})
      Earlier(i, j) == \/ First(symbol[i]) < First(symbol[j])
                       \/ symbol[i] = symbol[j] /\ place[i] < place[j]
  IN {p \in Bijection(Trades, Trades) :
        \A j, k \in Trades : place[j] < place[k] => Earlier(p[j], p[k])}

(* Results sorted by the entry of the trade; of equals, the first listed.  *)
Turns(place) ==
  {t \in Bijection(Trades, Trades) : \A m, n \in Trades : m < n =>
     LET i == paired[t[m]]  j == paired[t[n]]
     IN \/ trade[i].at < trade[j].at
        \/ trade[i].at = trade[j].at /\ place[t[m]] < place[t[n]]}

Fates == {"unknown", "no_data", "taken", "skipped", "replaced"}

Init ==
  /\ rule \in Rules
  /\ trade \in [Trades -> Inputs]
  /\ \A i, j \in Trades : i < j => trade[i].at <= trade[j].at
  /\ \E place \in Bijection(Trades, Trades), symbol \in [Trades -> Trades] :
       /\ \A i, j \in Trades : i < j /\ trade[i].at = trade[j].at => place[i] < place[j]
       /\ paired \in Results(place, symbol)
       /\ turn \in Turns(place)
  /\ phase = "allocation" /\ next = 1
  /\ open = {}
  /\ out = [i \in Trades |-> [fate |-> "unknown", exit |-> 0]]
  /\ cash = Start /\ active = {} /\ pending = {}
  /\ invested = [i \in Trades |-> 0]

Result(k) == trade[paired[k]]

(* The exit of a trade that runs to its end.                               *)
FullExit(k) == Result(k).at + Result(k).held

(* _price_at_time against the entry price: a price that drifts, at the     *)
(* latest close that reads no later than t, or the entry price itself.     *)
GainAt(k, t) == IF t < Result(k).at THEN 0 ELSE Result(k).drift * (t - Result(k).at)

(* The weakest by _rank_unreal_pl; of equals, the one opened first.        *)
Weakest(S, t) ==
  CHOOSE v \in S : \A w \in S :
    GainAt(v, t) < GainAt(w, t) \/ (GainAt(v, t) = GainAt(w, t) /\ v <= w)

(* _try_replace over scores brought to the range 0 to 1: does the new      *)
(* signal, which scores 0, exceed the weakest by the margin.               *)
Outranked(S, t) ==
  LET scores == {GainAt(v, t) : v \in S} \cup {0}
  IN -10 * GainAt(Weakest(S, t), t) > Margin * (Max(scores) - Min(scores))

(* The scores of the other methods are not computed: any victim, or none.  *)
Victims(S, t) ==
  CASE rule = "skip" -> {}
    [] rule = "unreal_pl" -> IF Outranked(S, t) THEN {Weakest(S, t)} ELSE {}
    [] OTHER -> S

StillOpen == {i \in open : out[i].exit > Label(next)}

Take(i) == [fate |-> "taken", exit |-> FullExit(i)]

(* Mutant: the result of the victim stays as it is.                        *)
ReplacedUncut(v) == out[v]

(* _truncate_result.                                                       *)
Replaced(v) == [fate |-> "replaced", exit |-> Label(next)]

(* One step of apply_allocation's walk.                                    *)
NoData ==
  /\ ~Result(next).data
  /\ open' = StillOpen
  /\ out' = [out EXCEPT ![next].fate = "no_data"]

TakeTrade ==
  /\ Result(next).data /\ Cardinality(StillOpen) < MaxOpen
  /\ open' = StillOpen \cup {next}
  /\ out' = [out EXCEPT ![next] = Take(next)]

ReplaceWeakest(v) ==
  /\ Result(next).data /\ Cardinality(StillOpen) >= MaxOpen
  /\ v \in Victims(StillOpen, Label(next))
  /\ open' = (StillOpen \ {v}) \cup {next}
  /\ out' = [out EXCEPT ![v] = Replaced(v), ![next] = Take(next)]

SkipTrade ==
  /\ Result(next).data /\ Cardinality(StillOpen) >= MaxOpen
  /\ rule = "other" \/ Victims(StillOpen, Label(next)) = {}
  /\ open' = StillOpen
  /\ out' = [out EXCEPT ![next].fate = "skipped"]

Allocate ==
  /\ phase = "allocation" /\ next <= N
  /\ \/ NoData \/ TakeTrade \/ SkipTrade
     \/ \E v \in StillOpen : ReplaceWeakest(v)
  /\ next' = next + 1
  /\ UNCHANGED <<inputs, phase, simVars>>

StartSimulation ==
  /\ phase = "allocation" /\ next > N
  /\ phase' = "simulation" /\ next' = 1
  /\ UNCHANGED <<inputs, allocVars, simVars>>

Taken(i) == out[i].fate \in {"taken", "replaced"}

(* A position with its gain, on an entry price of ten.                     *)
Proceeds(i) == invested[i] + (invested[i] * GainAt(i, out[i].exit)) \div 10

Credit(i) == [trade |-> i, at |-> out[i].exit + Delay, amount |-> Proceeds(i)]

Amounts(S) == MapThenSumSet(LAMBDA c : c.amount, S)

(* When the trade that the simulation looks at was entered.                *)
Entered(k) == Label(paired[k])

Now == Entered(turn[next])

(* Mutant: positions that exit in the minute of the entry stay.            *)
ExitedLater == {i \in active : out[i].exit < Now}

Exited == {i \in active : out[i].exit <= Now}

Opens == MaxOpen - Cardinality(active \ Exited)

(* Mutant: matured proceeds are paid out and kept.                         *)
StillPendingAll(credits) == credits

StillPending(credits) == {c \in credits : c.at > Now}

(* One trade of the simulation: exits are credited, with the delay;        *)
(* matured credits become cash; and an equal part of the cash for each     *)
(* free slot is invested.                                                  *)
SimulateTrade ==
  /\ Taken(turn[next])
  /\ LET credits == pending \cup {Credit(i) : i \in Exited}
         matured == {c \in credits : c.at <= Now}
         money   == cash + Amounts(matured)
         size    == money \div Opens
     IN /\ pending' = StillPending(credits)
        /\ IF Opens > 0 /\ money >= 1
             THEN /\ active' = (active \ Exited) \cup {turn[next]}
                  /\ invested' = [invested EXCEPT ![turn[next]] = size]
                  /\ cash' = money - size
             ELSE /\ active' = active \ Exited
                  /\ cash' = money
                  /\ UNCHANGED invested

PassOver ==
  /\ ~Taken(turn[next])
  /\ UNCHANGED simVars

Simulate ==
  /\ phase = "simulation" /\ next <= N
  /\ SimulateTrade \/ PassOver
  /\ next' = next + 1
  /\ UNCHANGED <<inputs, phase, allocVars>>

(* What is open and what is pending is paid out.                           *)
Finish ==
  /\ phase = "simulation" /\ next > N
  /\ phase' = "done"
  /\ cash' = cash + Amounts(pending) + Amounts({Credit(i) : i \in active})
  /\ active' = {} /\ pending' = {}
  /\ UNCHANGED <<inputs, next, allocVars, invested>>

Next == Allocate \/ StartSimulation \/ Simulate \/ Finish

Spec == Init /\ [][Next]_vars

-----------------------------------------------------------------------------
(* The positions taken by step k of the walk that are open at it, as the   *)
(* times read.                                                             *)
OpenAt(k) == {i \in 1 .. k : Taken(i) /\ out[i].exit > Label(k)}

(* max_pos is kept at every entry the walk has looked at, whatever is      *)
(* replaced and cut short later.  Read in one time zone, positions of the  *)
(* last Offset minutes are missing from the count.                         *)
CapKept ==
  \A k \in Trades : (phase # "allocation" \/ k < next) => Cardinality(OpenAt(k)) <= MaxOpen

(* The results come, and are simulated, in the order of the entries.       *)
SameOrder == \A k \in Trades : paired[k] = k /\ turn[k] = k

(* The two walks agree: when the results come in the order of the entries, *)
(* a trade the allocation has taken finds a free slot in the simulation,   *)
(* which evicts positions by itself.                                       *)
TakenHasSlot ==
  SameOrder /\ phase = "simulation" /\ next <= N /\ Taken(turn[next]) => Opens > 0

(* max_pos as it is documented, a cap on the positions that are open at    *)
(* once: of the trades taken, no more run when any of them is entered.     *)
CapIsHard ==
  phase # "allocation" =>
    \A k \in Trades :
      Taken(k) => Cardinality({i \in Trades : Taken(i) /\ Entered(i) <= Entered(k)
                                                /\ Entered(k) < out[i].exit}) <= MaxOpen

(* No dollar is lost or paid twice between cash, positions and delayed     *)
(* proceeds: what there is is the start and the gains of the closed trades.*)
MoneyConserved ==
  cash + Amounts(pending) + MapThenSumSet(LAMBDA i : invested[i], active)
    = Start + MapThenSumSet(LAMBDA i : Proceeds(i) - invested[i], Trades \ active)
=============================================================================
