------------------------ MODULE InvestigationProofs ------------------------
(***************************************************************************)
(* Proofs about Investigation, for every set of threads, articles and      *)
(* symbols: every state is type correct, no mark outlives the thread that  *)
(* explores its symbol, no signal is evaluated twice, and none that cools  *)
(* down is explored.                                                       *)
(***************************************************************************)
EXTENDS Investigation, TLAPS

LEMMA InitTyped == Init => TypeOK
  BY NoneIsNoSymbol, Bounds DEF Init, TypeOK, Snapshots, NoSnapshot, Kinds, Locals

LEMMA BecomeTyped ==
  ASSUME TypeOK, NEW t \in Threads, NEW local \in Locals, Become(t, local)
  PROVE  thread' \in [Threads -> Locals]
  BY DEF TypeOK, Become

(* A thread at work has an article, and a symbol when it explores one.     *)
LEMMA WorkTyped ==
  ASSUME TypeOK, NEW t \in Threads, thread[t].pc # "idle"
  PROVE  /\ thread[t] \in Work(Deciding, {None}) \cup Work({"explore", "trade"}, Symbols)
         /\ thread[t].article \in Articles
         /\ thread[t].pc \in {"explore", "trade"} => thread[t].symbol \in Symbols
         /\ Base(t) \in SnapIds
         /\ \A s \in Symbols : SnapIdOf(t, s) \in SnapIds
<1>1. thread[t] \in Locals /\ thread[t] # Free
  BY DEF TypeOK, Free
<1>2. thread[t] \in Work(Deciding, {None}) \cup Work({"explore", "trade"}, Symbols)
  BY <1>1 DEF Locals
<1>3. thread[t].article \in Articles
  BY <1>2 DEF Work
<1>4. thread[t].pc \in {"explore", "trade"} => thread[t].symbol \in Symbols
  BY <1>2 DEF Work, Deciding
<1> QED
  BY <1>2, <1>3, <1>4 DEF Base, SnapIdOf, SnapIds

LEMMA InsertTyped ==
  ASSUME TypeOK, NEW i \in SnapIds, NEW r \in Snapshots, Insert(i, r)
  PROVE  snap' \in [SnapIds -> Snapshots] /\ recent' \in Seq(SnapIds)
<1>1. snap' \in [SnapIds -> Snapshots]
  BY DEF TypeOK, Insert
<1>2. recent' \in Seq(SnapIds)
  BY DEF TypeOK, Insert
<1> QED
  BY <1>1, <1>2

LEMMA RecentTyped == TypeOK => RecentlyExplored \in SUBSET Symbols
<1> SUFFICES ASSUME TypeOK, NEW k \in 1 .. Len(recent)
             PROVE  snap[recent[k]].symbols \subseteq Symbols
  BY DEF RecentlyExplored
<1>1. recent[k] \in SnapIds
  BY DEF TypeOK
<1> QED
  BY <1>1 DEF TypeOK, Snapshots

LEMMA ThreadTyped ==
  ASSUME TypeOK, NEW t \in Threads, Process(t)
  PROVE  thread' \in [Threads -> Locals]
<1> DEFINE me == thread[t]
<1>1. me \in Work(Deciding, {None}) \cup Work({"explore", "trade"}, Symbols)
  BY WorkTyped DEF Process, LookUpRecent, LookUpInFlight, Triage, SealSkipped, Mark, NextSymbol,
                   ExploreStops, SealExplored, Trade, Unmark
<1>2. SUFFICES \E local \in Locals : Become(t, local)
  BY BecomeTyped
<1>3. Free \in Locals
  BY DEF Locals
<1>4. CASE LookUpRecent(t)
  BY <1>1, <1>4, RecentTyped DEF LookUpRecent, Locals, Work, Deciding
<1>5. CASE LookUpInFlight(t)
  BY <1>1, <1>5 DEF LookUpInFlight, Locals, Work, Deciding, Marked
<1>6. CASE Triage(t)
  <2>1. ASSUME NEW named \in Answers[me.article], NEW chosen \in SUBSET (named \ me.cooled),
               Become(t, [me EXCEPT !.pc = "mark", !.cooled = {}, !.symbols = named,
                            !.explore = chosen, !.todo = chosen])
        PROVE  \E local \in Locals : Become(t, local)
    <3>1. me.pc = "triage" /\ me.article \in Articles
      BY <1>1, <1>6 DEF Triage, Work
    <3>2. named \subseteq Symbols
      BY <2>1, <3>1, AnswersKnown
    <3> QED BY <1>1, <2>1, <3>1, <3>2 DEF Locals, Work, Deciding
  <2>2. CASE GoTo(t, "skip")
    BY <1>1, <1>6, <2>2 DEF Triage, GoTo, Locals, Work, Deciding
  <2> QED BY <1>3, <1>6, <2>1, <2>2 DEF Triage
<1>7. CASE SealSkipped(t) \/ Unmark(t)
  BY <1>3, <1>7 DEF SealSkipped, Unmark
<1>8. CASE Mark(t)
  BY <1>1, <1>8 DEF Mark, GoTo, Locals, Work, Deciding
<1>9. CASE NextSymbol(t)
  <2>1. CASE GoTo(t, "unmark")
    BY <1>1, <1>9, <2>1 DEF NextSymbol, GoTo, Locals, Work, Deciding
  <2>2. ASSUME NEW s \in me.todo,
               LET rest == [me EXCEPT !.todo = @ \ {s}] IN
               \/ Become(t, rest)
               \/ Become(t, [rest EXCEPT !.pc = "explore", !.symbol = s])
        PROVE  \E local \in Locals : Become(t, local)
    BY <1>1, <1>9, <2>2 DEF NextSymbol, Locals, Work, Deciding
  <2> QED BY <1>9, <2>1, <2>2 DEF NextSymbol
<1>10. ASSUME NEW pc \in {"next", "unmark"}, me.pc \in {"explore", "trade"}, Leave(t, pc)
       PROVE  \E local \in Locals : Become(t, local)
  BY <1>1, <1>10 DEF Leave, Locals, Work, Deciding
<1>11. ASSUME me.pc = "explore", GoTo(t, "trade")
       PROVE  \E local \in Locals : Become(t, local)
  BY <1>1, <1>11 DEF GoTo, Locals, Work, Deciding
<1>12. CASE ExploreStops(t) \/ Trade(t)
  BY <1>10, <1>12 DEF ExploreStops, Trade
<1>13. CASE SealExplored(t)
  <2>1. me.pc = "explore" /\ (Leave(t, "next") \/ Leave(t, "unmark") \/ GoTo(t, "trade"))
    BY <1>13, Zenon DEF SealExplored
  <2> QED BY <1>10, <1>11, <2>1
<1> QED BY <1>4, <1>5, <1>6, <1>7, <1>8, <1>9, <1>12, <1>13 DEF Process

LEMMA ProcessTyped ==
  ASSUME TypeOK, NEW t \in Threads, Process(t)
  PROVE  TypeOK'
<1>1. /\ thread[t].pc # "idle"
      /\ UNCHANGED <<runs, crashes>>
  BY DEF Process, LookUpRecent, LookUpInFlight, Triage, SealSkipped, Mark, NextSymbol,
         ExploreStops, SealExplored, Trade, Unmark
<1>2. thread' \in [Threads -> Locals]
  BY ThreadTyped
<1>3. snap' \in [SnapIds -> Snapshots] /\ recent' \in Seq(SnapIds)
  <2>1. CASE UNCHANGED <<snap, recent>>
    BY <2>1 DEF TypeOK
  <2>2. ASSUME NEW i \in SnapIds, NEW r \in Snapshots, Insert(i, r)
        PROVE  snap' \in [SnapIds -> Snapshots] /\ recent' \in Seq(SnapIds)
    BY <2>2, InsertTyped
  <2>3. CASE SealSkipped(t)
    <3>1. [NoSnapshot EXCEPT !.kind = "skipped"] \in Snapshots
      BY DEF NoSnapshot, Snapshots, Kinds
    <3> QED BY <1>1, <2>1, <2>2, <2>3, <3>1, WorkTyped DEF SealSkipped
  <2>4. CASE SealExplored(t)
    <3>1. /\ thread[t].symbol \in Symbols /\ thread[t].symbols \subseteq Symbols
          /\ SnapIdOf(t, thread[t].symbol) \in SnapIds
      BY <1>1, <2>4, WorkTyped DEF SealExplored, Work
    <3>2. ASSUME NEW kind \in {"failed", "explored"}
          PROVE  [kind |-> kind, symbol |-> thread[t].symbol, symbols |-> thread[t].symbols]
                   \in Snapshots
      BY <3>1 DEF Snapshots, Kinds
    <3> QED BY <2>2, <2>4, <3>1, <3>2, Zenon DEF SealExplored
  <2> QED BY <2>1, <2>3, <2>4 DEF Process, LookUpRecent, LookUpInFlight, Triage, Mark, NextSymbol,
                                 ExploreStops, Trade, Unmark
<1>4. inFlight' \in [Symbols -> Articles \cup {None}]
  BY <1>1, WorkTyped DEF TypeOK, Process, LookUpRecent, LookUpInFlight, Triage, SealSkipped, Mark,
                         NextSymbol, ExploreStops, SealExplored, Trade, Unmark
<1>5. traded' \in [SnapIds -> Nat]
  <2>1. CASE UNCHANGED traded
    BY <2>1 DEF TypeOK
  <2>2. CASE Trade(t)
    <3>1. PICK i \in SnapIds : traded' = [traded EXCEPT ![i] = @ + 1]
      BY <1>1, <2>2, WorkTyped DEF Trade
    <3>2. traded \in [SnapIds -> Nat]
      BY DEF TypeOK
    <3> QED BY <3>1, <3>2
  <2> QED BY <2>1, <2>2 DEF Process, LookUpRecent, LookUpInFlight, Triage, SealSkipped, Mark,
                            NextSymbol, ExploreStops, SealExplored, Unmark
<1> QED BY <1>1, <1>2, <1>3, <1>4, <1>5 DEF TypeOK

LEMMA NextTyped ==
  ASSUME TypeOK, [Next]_vars
  PROVE  TypeOK'
<1>1. ASSUME NEW t \in Threads, Process(t) PROVE TypeOK'
  BY <1>1, ProcessTyped
<1>2. ASSUME NEW t \in Threads, NEW a \in Articles, Take(t, a) PROVE TypeOK'
  <2>1. thread' \in [Threads -> Locals]
    <3>1. ASSUME NEW pc \in Deciding PROVE [Free EXCEPT !.article = a, !.pc = pc] \in Locals
      BY <3>1 DEF Free, Locals, Work
    <3>2. UNCHANGED thread
          \/ \E pc \in Deciding : Become(t, [Free EXCEPT !.article = a, !.pc = pc])
      BY <1>2 DEF Take, Deciding
    <3> QED BY <3>1, <3>2, BecomeTyped DEF TypeOK
  <2>2. runs' \in [Articles -> Nat] /\ \A b \in Articles : runs'[b] <= MaxRuns[b]
    <3>1. runs' = [runs EXCEPT ![a] = @ + 1] /\ runs[a] < MaxRuns[a]
      BY <1>2 DEF Take
    <3>2. runs \in [Articles -> Nat] /\ \A b \in Articles : runs[b] <= MaxRuns[b]
      BY DEF TypeOK
    <3>3. runs[a] + 1 \in Nat /\ runs[a] + 1 <= MaxRuns[a]
      BY <3>1, <3>2, Bounds
    <3> QED BY <3>1, <3>2, <3>3
  <2> QED BY <1>2, <2>1, <2>2 DEF Take, TypeOK
<1>3. CASE CooldownEnds
  BY <1>3 DEF CooldownEnds, TypeOK
<1>4. CASE Crash
  BY <1>4, Bounds DEF Crash, TypeOK, Locals
<1>5. CASE UNCHANGED vars
  BY <1>5 DEF vars, TypeOK
<1> QED BY <1>1, <1>2, <1>3, <1>4, <1>5 DEF Next

(* Every reachable state is type correct.                                  *)
THEOREM InvestigationTypeCorrect == Spec => []TypeOK
BY InitTyped, NextTyped, PTL DEF Spec

-----------------------------------------------------------------------------
(* Marks.  A thread puts its symbols down when it starts on them and keeps *)
(* them until it removes their marks: MarksAreLive is inductive.           *)

ExploringPcs == {"next", "explore", "trade", "unmark"}

(* A thread that goes on exploring keeps its symbols.                      *)
LEMMA StillExploring ==
  ASSUME TypeOK, NEW t \in Threads, NEW s \in Symbols, Exploring(t, s),
         NEW u \in Threads, Process(u), ~Unmark(u)
  PROVE  Exploring(t, s)'
<1>1. CASE u # t
  <2>1. thread'[t] = thread[t]
    BY <1>1 DEF TypeOK, Process, LookUpRecent, LookUpInFlight, Triage, SealSkipped, Mark, NextSymbol,
                ExploreStops, SealExplored, Trade, Become, GoTo, Leave
  <2> QED BY <2>1 DEF Exploring
<1>2. CASE u = t
  <2>1. thread'[t].pc \in ExploringPcs /\ thread'[t].explore = thread[t].explore
    <3>1. thread[t] \in Work(Deciding, {None}) \cup Work({"explore", "trade"}, Symbols)
      BY WorkTyped DEF Exploring
    <3>2. ASSUME NEW pc \in ExploringPcs, GoTo(t, pc) \/ Leave(t, pc)
          PROVE  thread'[t].pc \in ExploringPcs /\ thread'[t].explore = thread[t].explore
      BY <3>1, <3>2 DEF TypeOK, GoTo, Leave, Become, Work
    <3>3. CASE ExploreStops(t) \/ Trade(t) \/ SealExplored(t)
      <4>1. \/ Leave(t, "next") \/ Leave(t, "unmark") \/ GoTo(t, "trade")
        BY <3>3, Zenon DEF ExploreStops, Trade, SealExplored
      <4> QED BY <3>2, <4>1 DEF ExploringPcs
    <3>4. CASE NextSymbol(t)
      <4>1. CASE GoTo(t, "unmark")
        BY <3>2, <4>1 DEF ExploringPcs
      <4>2. ASSUME NEW q \in thread[t].todo,
                   LET rest == [thread[t] EXCEPT !.todo = @ \ {q}] IN
                   Become(t, IF Exists(SnapIdOf(t, q)) THEN rest
                             ELSE [rest EXCEPT !.pc = "explore", !.symbol = q])
            PROVE  thread'[t].pc \in ExploringPcs /\ thread'[t].explore = thread[t].explore
        <5> DEFINE rest == [thread[t] EXCEPT !.todo = @ \ {q}]
        <5>1. thread[t].pc = "next"
          BY <3>4 DEF NextSymbol
        <5>2. rest.pc = "next" /\ rest.explore = thread[t].explore
          BY <3>1, <5>1 DEF Work
        <5>3. [rest EXCEPT !.pc = "explore", !.symbol = q].pc = "explore"
              /\ [rest EXCEPT !.pc = "explore", !.symbol = q].explore = thread[t].explore
          BY <3>1, <5>1 DEF Work
        <5>4. thread'[t] \in {rest, [rest EXCEPT !.pc = "explore", !.symbol = q]}
          BY <4>2 DEF TypeOK, Become
        <5> HIDE DEF rest
        <5> QED BY <5>2, <5>3, <5>4 DEF ExploringPcs
      <4> QED BY <3>4, <4>1, <4>2, Zenon DEF NextSymbol
    <3> QED BY <1>2, <3>3, <3>4 DEF Exploring, Process, LookUpRecent, LookUpInFlight, Triage,
                                    SealSkipped, Mark
  <2> QED BY <2>1 DEF Exploring, ExploringPcs
<1> QED BY <1>1, <1>2

LEMMA MarksStep ==
  ASSUME TypeOK, MarksAreLive, [Next]_vars
  PROVE  MarksAreLive'
<1> SUFFICES ASSUME NEW s \in Symbols, inFlight'[s] # None
             PROVE  \E t \in Threads : Exploring(t, s)'
  BY DEF MarksAreLive, Marked
<1>1. ASSUME inFlight[s] # None, NEW u \in Threads, Process(u), ~Unmark(u)
      PROVE  \E t \in Threads : Exploring(t, s)'
  BY <1>1, StillExploring DEF MarksAreLive, Marked
<1>2. ASSUME inFlight[s] = None, NEW u \in Threads, Process(u)
      PROVE  \E t \in Threads : Exploring(t, s)'
  <2>1. Mark(u)
    BY <1>2 DEF Process, LookUpRecent, LookUpInFlight, Triage, SealSkipped, NextSymbol,
                ExploreStops, SealExplored, Trade, Unmark
  <2>2. s \in thread[u].explore
    BY <1>2, <2>1 DEF Mark
  <2>3. thread' = [thread EXCEPT ![u] = [thread[u] EXCEPT !.pc = "next"]]
    BY <2>1 DEF Mark, GoTo, Become
  <2>4. thread[u] \in Work(Deciding, {None}) \cup Work({"explore", "trade"}, Symbols)
    BY <2>1, WorkTyped DEF Mark
  <2>5. thread'[u].pc = "next" /\ thread'[u].explore = thread[u].explore
    BY <2>3, <2>4 DEF TypeOK, Work
  <2> QED BY <2>2, <2>5 DEF Exploring
<1>3. ASSUME NEW u \in Threads, Unmark(u)
      PROVE  \E t \in Threads : Exploring(t, s)'
  <2>1. s \notin thread[u].explore /\ inFlight[s] # None
    BY <1>3 DEF Unmark
  <2>2. PICK t \in Threads : Exploring(t, s)
    BY <2>1 DEF MarksAreLive, Marked
  <2>3. t # u /\ thread'[t] = thread[t]
    BY <1>3, <2>1, <2>2 DEF Exploring, Unmark, Become, TypeOK
  <2> QED BY <2>2, <2>3 DEF Exploring
<1>4. ASSUME NEW u \in Threads, NEW a \in Articles, Take(u, a)
      PROVE  \E t \in Threads : Exploring(t, s)'
  <2>1. PICK t \in Threads : Exploring(t, s)
    BY <1>4 DEF MarksAreLive, Marked, Take
  <2>2. thread'[t] = thread[t]
    BY <1>4, <2>1 DEF Exploring, Take, Become, TypeOK
  <2> QED BY <2>1, <2>2 DEF Exploring
<1>5. CASE CooldownEnds \/ UNCHANGED vars
  BY <1>5 DEF CooldownEnds, vars, MarksAreLive, Marked, Exploring
<1>6. CASE Crash
  BY <1>6 DEF Crash
<1> QED BY <1>1, <1>2, <1>3, <1>4, <1>5, <1>6 DEF Next

(* No mark outlives the threads that explore its symbol.                   *)
THEOREM MarksStayLive == Spec => []MarksAreLive
<1>1. Init => TypeOK /\ MarksAreLive
  BY InitTyped DEF Init, MarksAreLive, Marked
<1>2. TypeOK /\ MarksAreLive /\ [Next]_vars => (TypeOK /\ MarksAreLive)'
  BY NextTyped, MarksStep
<1> QED BY <1>1, <1>2, PTL DEF Spec

-----------------------------------------------------------------------------
(* Signals.  Once no two threads have the same article, the snapshot that  *)
(* a thread is about to write is written by nobody else, and a signal that *)
(* waits to be evaluated was never evaluated before.                       *)

Apart ==
  \A t, u \in Threads :
    thread[t].pc # "idle" /\ thread[t].article = thread[u].article => t = u

AboutTo(t) ==
  LET i == SnapIdOf(t, thread[t].symbol) IN
  /\ thread[t].pc = "explore" => ~Exists(i)
  /\ thread[t].pc = "trade" => snap[i].kind = "explored" /\ traded[i] = 0

TradeInv == TypeOK /\ Apart /\ (\A t \in Threads : AboutTo(t)) /\ TradedOnce

LEMMA TradeInit == Init => TradeInv
<1> SUFFICES ASSUME Init PROVE TradeInv
  OBVIOUS
<1>1. \A t \in Threads : thread[t] = Free
  BY DEF Init
<1> QED BY <1>1, InitTyped DEF Init, TradeInv, Apart, AboutTo, TradedOnce, Free

LEMMA AtWork ==
  ASSUME TypeOK, NEW t \in Threads, Process(t)
  PROVE  thread[t] \in Work(Deciding \cup {"explore", "trade"}, Symbols \cup {None})
<1>1. thread[t] \in Work(Deciding, {None}) \cup Work({"explore", "trade"}, Symbols)
  BY WorkTyped DEF Process, LookUpRecent, LookUpInFlight, Triage, SealSkipped, Mark, NextSymbol,
                   ExploreStops, SealExplored, Trade, Unmark
<1> QED BY <1>1 DEF Work

(* A step of a thread leaves the others alone and keeps its own article.   *)
LEMMA OneThread ==
  ASSUME TypeOK, NEW t \in Threads, Process(t)
  PROVE  /\ \A u \in Threads : u # t => thread'[u] = thread[u]
         /\ thread'[t] = Free \/ thread'[t].article = thread[t].article
<1> DEFINE Kept(local) == local = Free \/ local.article = thread[t].article
<1>1. thread[t] \in Work(Deciding \cup {"explore", "trade"}, Symbols \cup {None})
  BY AtWork
<1> SUFFICES \E local : Become(t, local) /\ Kept(local)
  BY DEF Become, TypeOK
<1>2. \A pc : Kept([thread[t] EXCEPT !.pc = pc]) /\ Kept([thread[t] EXCEPT !.pc = pc, !.symbol = None])
  BY <1>1 DEF Work
<1>3. CASE LookUpRecent(t)
  <2>1. Kept([thread[t] EXCEPT !.pc = "inflight", !.cooled = RecentlyExplored])
    BY <1>1 DEF Work
  <2> QED BY <1>3, <2>1, Zenon DEF LookUpRecent
<1>4. CASE LookUpInFlight(t)
  <2>1. \A c, pc : Kept([thread[t] EXCEPT !.cooled = c, !.pc = pc])
    BY <1>1 DEF Work
  <2> QED BY <1>4, <2>1, Zenon DEF LookUpInFlight
<1>5. CASE Triage(t)
  <2>1. \A named, chosen : Kept([thread[t] EXCEPT !.pc = "mark", !.cooled = {}, !.symbols = named,
                                   !.explore = chosen, !.todo = chosen])
    BY <1>1 DEF Work
  <2> QED BY <1>2, <1>5, <2>1, Zenon DEF Triage, GoTo
<1>6. CASE NextSymbol(t)
  <2>1. ASSUME NEW q
        PROVE  LET rest == [thread[t] EXCEPT !.todo = @ \ {q}] IN
               Kept(rest) /\ Kept([rest EXCEPT !.pc = "explore", !.symbol = q])
    BY <1>1 DEF Work
  <2> QED BY <1>2, <1>6, <2>1, Zenon DEF NextSymbol, GoTo
<1>7. CASE SealSkipped(t) \/ Mark(t) \/ ExploreStops(t) \/ SealExplored(t) \/ Trade(t) \/ Unmark(t)
  BY <1>2, <1>7, Zenon DEF SealSkipped, Mark, ExploreStops, SealExplored, Trade, Unmark, GoTo, Leave
<1> QED BY <1>3, <1>4, <1>5, <1>6, <1>7 DEF Process

LEMMA ApartStep ==
  ASSUME TypeOK, Apart, ~Shared, [Next]_vars
  PROVE  Apart'
<1>1. ASSUME NEW p \in Threads, Process(p) PROVE Apart'
  <2>1. thread'[p] = Free \/ (thread'[p].article = thread[p].article /\ thread[p].pc # "idle")
    BY <1>1, OneThread DEF Process, LookUpRecent, LookUpInFlight, Triage, SealSkipped, Mark,
                           NextSymbol, ExploreStops, SealExplored, Trade, Unmark
  <2>2. \A u \in Threads : u # p => thread'[u] = thread[u]
    BY <1>1, OneThread
  <2>3. \A u \in Threads : thread[u].pc # "idle" => thread[u].article # None
    BY WorkTyped, NoneIsNoSymbol
  <2> QED BY <2>1, <2>2, <2>3 DEF Apart, Free
<1>2. ASSUME NEW p \in Threads, NEW a \in Articles, Take(p, a) PROVE Apart'
  <2>1. \A u \in Threads : thread[u].article # a
    BY <1>2 DEF Take
  <2>2. CASE UNCHANGED thread
    BY <2>2 DEF Apart
  <2>3. ASSUME NEW pc, Become(p, [Free EXCEPT !.article = a, !.pc = pc]) PROVE Apart'
    <3>1. thread'[p].article = a /\ \A u \in Threads : u # p => thread'[u] = thread[u]
      BY <2>3 DEF Become, TypeOK, Free
    <3> QED BY <2>1, <3>1 DEF Apart
  <2> QED BY <1>2, <2>2, <2>3 DEF Take
<1>3. CASE Crash
  BY <1>3 DEF Crash, Apart, Free
<1>4. CASE CooldownEnds \/ UNCHANGED vars
  BY <1>4 DEF CooldownEnds, vars, Apart
<1> QED BY <1>1, <1>2, <1>3, <1>4 DEF Next

(* A thread writes and evaluates the snapshots of its own article only.    *)
LEMMA OwnArticle ==
  ASSUME TypeOK, NEW t \in Threads, Process(t), NEW j \in SnapIds, j[1] # thread[t].article
  PROVE  snap'[j] = snap[j] /\ traded'[j] = traded[j]
<1>1. \A s : SnapIdOf(t, s)[1] = thread[t].article /\ Base(t)[1] = thread[t].article
  BY DEF SnapIdOf, Base
<1>2. \A i, r : Insert(i, r) /\ i # j => snap'[j] = snap[j]
  BY DEF Insert, TypeOK
<1>3. CASE SealSkipped(t)
  BY <1>1, <1>2, <1>3, Zenon DEF SealSkipped
<1>4. CASE SealExplored(t)
  BY <1>1, <1>2, <1>4, Zenon DEF SealExplored
<1>5. CASE Trade(t)
  BY <1>1, <1>5 DEF Trade, TypeOK
<1> QED BY <1>3, <1>4, <1>5 DEF Process, LookUpRecent, LookUpInFlight, Triage, Mark, NextSymbol,
                                ExploreStops, Unmark

LEMMA OthersKept ==
  ASSUME TypeOK, Apart, NEW t \in Threads, Process(t), NEW u \in Threads, u # t, AboutTo(u)
  PROVE  AboutTo(u)'
<1>1. thread'[u] = thread[u]
  BY OneThread
<1>2. CASE thread[u].pc \in {"explore", "trade"}
  <2>1. SnapIdOf(u, thread[u].symbol) \in SnapIds
    BY <1>2, WorkTyped
  <2>2. SnapIdOf(u, thread[u].symbol)[1] # thread[t].article
    BY <1>2 DEF SnapIdOf, Base, Apart
  <2>3. /\ snap'[SnapIdOf(u, thread[u].symbol)] = snap[SnapIdOf(u, thread[u].symbol)]
        /\ traded'[SnapIdOf(u, thread[u].symbol)] = traded[SnapIdOf(u, thread[u].symbol)]
    BY <2>1, <2>2, OwnArticle
  <2> QED BY <1>1, <2>3 DEF AboutTo, SnapIdOf, Base, Exists
<1> QED BY <1>1, <1>2 DEF AboutTo

LEMMA TradeProcess ==
  ASSUME TypeOK, NEW t \in Threads, AboutTo(t), TradedOnce, Process(t)
  PROVE  AboutTo(t)' /\ TradedOnce'
<1> DEFINE i == SnapIdOf(t, thread[t].symbol)
<1>1. thread[t] \in Work(Deciding \cup {"explore", "trade"}, Symbols \cup {None})
  BY AtWork
<1>2. CASE LookUpRecent(t) \/ LookUpInFlight(t) \/ Triage(t) \/ Mark(t) \/ ExploreStops(t) \/ Unmark(t)
  <2>1. thread'[t].pc \notin {"explore", "trade"}
    <3>1. \A pc : GoTo(t, pc) \/ Leave(t, pc) => thread'[t].pc = pc
      BY <1>1 DEF GoTo, Leave, Become, TypeOK, Work
    <3>2. Become(t, Free) => thread'[t].pc = "idle"
      BY DEF Become, TypeOK, Free
    <3>3. CASE LookUpRecent(t) \/ LookUpInFlight(t)
      <4>1. LookUpRecent(t) => thread'[t].pc = "inflight"
        BY <1>1 DEF LookUpRecent, Become, TypeOK, Work
      <4>2. LookUpInFlight(t) => thread'[t].pc \in {"skip", "triage"}
        BY <1>1 DEF LookUpInFlight, Become, TypeOK, Work
      <4> QED BY <3>3, <4>1, <4>2
    <3>4. CASE Triage(t)
      <4>1. ASSUME NEW named, NEW chosen,
                   Become(t, [thread[t] EXCEPT !.pc = "mark", !.cooled = {}, !.symbols = named,
                                !.explore = chosen, !.todo = chosen])
            PROVE  thread'[t].pc = "mark"
        BY <1>1, <4>1 DEF Become, TypeOK, Work
      <4>2. thread'[t].pc \in {"idle", "skip", "mark"}
        BY <3>1, <3>2, <3>4, <4>1, Zenon DEF Triage
      <4> QED BY <4>2
    <3>5. CASE Mark(t) \/ ExploreStops(t) \/ Unmark(t)
      <4>1. thread'[t].pc \in {"idle", "next", "unmark"}
        BY <3>1, <3>2, <3>5, Zenon DEF Mark, ExploreStops, Unmark
      <4> QED BY <4>1
    <3> QED BY <1>2, <3>3, <3>4, <3>5
  <2>2. UNCHANGED <<snap, traded>>
    BY <1>2 DEF LookUpRecent, LookUpInFlight, Triage, Mark, ExploreStops, Unmark
  <2> QED BY <2>1, <2>2 DEF AboutTo, TradedOnce
<1>3. CASE NextSymbol(t)
  <2>1. UNCHANGED <<snap, traded>>
    BY <1>3 DEF NextSymbol
  <2>2. AboutTo(t)'
    <3>1. CASE GoTo(t, "unmark")
      BY <1>1, <3>1 DEF GoTo, Become, TypeOK, Work, AboutTo
    <3>2. ASSUME NEW s \in thread[t].todo,
                 LET rest == [thread[t] EXCEPT !.todo = @ \ {s}] IN
                 Become(t, IF Exists(SnapIdOf(t, s)) THEN rest
                           ELSE [rest EXCEPT !.pc = "explore", !.symbol = s])
          PROVE  AboutTo(t)'
      <4>1. thread[t].pc = "next"
        BY <1>3 DEF NextSymbol
      <4>2. \/ thread'[t].pc = "next"
            \/ /\ thread'[t].pc = "explore" /\ thread'[t].symbol = s
               /\ thread'[t].explore = thread[t].explore
               /\ thread'[t].article = thread[t].article
               /\ ~Exists(SnapIdOf(t, s))
        BY <1>1, <3>2, <4>1 DEF Become, TypeOK, Work
      <4> QED BY <2>1, <4>2 DEF AboutTo, SnapIdOf, Base, Exists
    <3> QED BY <1>3, <3>1, <3>2, Zenon DEF NextSymbol
  <2> QED BY <2>1, <2>2 DEF TradedOnce
<1>4. CASE SealSkipped(t)
  <2>1. thread'[t] = Free /\ UNCHANGED traded
    BY <1>4 DEF SealSkipped, Become, TypeOK
  <2>2. \A j \in SnapIds : snap[j].kind = "explored" => snap'[j] = snap[j]
    BY <1>4 DEF SealSkipped, Insert, Exists, NoSnapshot, TypeOK
  <2> QED BY <2>1, <2>2 DEF AboutTo, TradedOnce, Free, TypeOK
<1>5. CASE SealExplored(t)
  <2>1. PICK kind \in {"failed", "explored"} :
          /\ Insert(i, [kind |-> kind, symbol |-> thread[t].symbol, symbols |-> thread[t].symbols])
          /\ \/ Leave(t, "next") \/ Leave(t, "unmark")
             \/ kind = "explored" /\ GoTo(t, "trade")
    BY <1>5, Zenon DEF SealExplored
  <2>2. i \in SnapIds /\ ~Exists(i) /\ UNCHANGED traded
    BY <1>5, WorkTyped DEF SealExplored, AboutTo
  <2>3. traded[i] = 0
    BY <2>2 DEF TradedOnce, Exists, NoSnapshot
  <2>4. snap'[i].kind = kind /\ \A j \in SnapIds : j # i => snap'[j] = snap[j]
    BY <2>1, <2>2 DEF Insert, TypeOK
  <2>5. AboutTo(t)'
    <3>1. CASE Leave(t, "next") \/ Leave(t, "unmark")
      <4>1. \A pc : Leave(t, pc) => thread'[t].pc = pc
        BY <1>1 DEF Leave, Become, TypeOK, Work
      <4>2. thread'[t].pc \in {"next", "unmark"}
        BY <3>1, <4>1
      <4> QED BY <4>2 DEF AboutTo
    <3>2. CASE kind = "explored" /\ GoTo(t, "trade")
      <4>1. /\ thread'[t].pc = "trade" /\ thread'[t].symbol = thread[t].symbol
            /\ thread'[t].explore = thread[t].explore /\ thread'[t].article = thread[t].article
        BY <1>1, <3>2 DEF GoTo, Become, TypeOK, Work
      <4> QED BY <2>2, <2>3, <2>4, <3>2, <4>1 DEF AboutTo, SnapIdOf, Base
    <3> QED BY <2>1, <3>1, <3>2
  <2> QED BY <2>2, <2>3, <2>4, <2>5 DEF TradedOnce
<1>6. CASE Trade(t)
  <2>1. thread'[t].pc = "next"
    BY <1>1, <1>6 DEF Trade, Leave, Become, TypeOK, Work
  <2>2. i \in SnapIds /\ snap[i].kind = "explored" /\ traded[i] = 0 /\ UNCHANGED snap
    BY <1>6, WorkTyped DEF Trade, AboutTo
  <2>3. traded'[i] = 1 /\ \A j \in SnapIds : j # i => traded'[j] = traded[j]
    BY <1>6, <2>2 DEF Trade, TypeOK
  <2> QED BY <2>1, <2>2, <2>3 DEF AboutTo, TradedOnce
<1> QED BY <1>2, <1>3, <1>4, <1>5, <1>6 DEF Process

LEMMA Untouched ==
  ASSUME NEW u \in Threads, AboutTo(u), UNCHANGED <<snap, traded>>,
         thread'[u] = thread[u] \/ thread'[u].pc \notin {"explore", "trade"}
  PROVE  AboutTo(u)'
BY DEF AboutTo, SnapIdOf, Base, Exists

LEMMA TradeStep ==
  ASSUME TradeInv, ~Shared, [Next]_vars
  PROVE  TradeInv'
<1>1. TypeOK' /\ Apart'
  BY NextTyped, ApartStep DEF TradeInv
<1>2. ASSUME NEW t \in Threads, Process(t)
      PROVE  (\A u \in Threads : AboutTo(u)') /\ TradedOnce'
  BY <1>2, OthersKept, TradeProcess DEF TradeInv
<1>3. ASSUME NEW t \in Threads, NEW a \in Articles, Take(t, a)
      PROVE  (\A u \in Threads : AboutTo(u)') /\ TradedOnce'
  <2>1. UNCHANGED <<snap, traded>>
    BY <1>3 DEF Take
  <2>2. \A u \in Threads : thread'[u] = thread[u] \/ thread'[u].pc \in {"triage", "recent"}
    BY <1>3 DEF Take, Become, Free, TradeInv, TypeOK
  <2> QED BY <2>1, <2>2, Untouched DEF TradeInv, TradedOnce
<1>4. CASE Crash
  <2>1. UNCHANGED <<snap, traded>> /\ \A u \in Threads : thread'[u].pc = "idle"
    BY <1>4 DEF Crash, Free
  <2> QED BY <1>1, <2>1, Untouched DEF TradeInv, TradedOnce
<1>5. CASE CooldownEnds \/ UNCHANGED vars
  <2>1. UNCHANGED <<snap, traded, thread>>
    BY <1>5 DEF CooldownEnds, vars
  <2> QED BY <1>1, <2>1, Untouched DEF TradeInv, TradedOnce
<1> QED BY <1>1, <1>2, <1>3, <1>4, <1>5 DEF Next, TradeInv

(* As long as no two threads have the same article, no signal is evaluated *)
(* twice, and none before its snapshot is in the table.                    *)
THEOREM SignalsTradedOnce == ~Shared => (Spec => []TradedOnce)
<1> SUFFICES ASSUME ~Shared PROVE Spec => []TradedOnce
  OBVIOUS
<1>1. Init => TradeInv
  BY TradeInit
<1>2. TradeInv /\ [Next]_vars => TradeInv'
  BY TradeStep
<1>3. TradeInv => TradedOnce
  BY DEF TradeInv
<1> QED BY <1>1, <1>2, <1>3, PTL DEF Spec
-----------------------------------------------------------------------------
(* The cooldown.  From its look at the table until it marks its symbols,   *)
(* the one thread that serves the queue knows of every snapshot of the     *)
(* queue that is still cooling down: any other thread only adds manual     *)
(* ones, and what is in the table is not written again.                    *)

OneServesQueue ==
  \A t, u \in Threads : \A a \in Handles[t] \ Manual, b \in Handles[u] \ Manual : t = u

Cooling == {recent[k] : k \in 1 .. Len(recent)}

HasItsOwn(t) == thread[t].pc # "idle" => thread[t].article \in Handles[t]

FromNews(t) == thread[t].article \notin Manual /\ Incoming[thread[t].article] # {}

LooksBack(t) ==
  FromNews(t) =>
    \A i \in Cooling : FromQueue(i) =>
      /\ thread[t].pc \in {"inflight", "triage"} => snap[i].symbols \subseteq thread[t].cooled
      /\ thread[t].pc = "mark" => snap[i].symbols \cap thread[t].explore = {}

CoolInv ==
  /\ TypeOK
  /\ \A i \in Cooling : Exists(i)
  /\ \A t \in Threads : HasItsOwn(t) /\ LooksBack(t)

LEMMA CoolInit == Init => CoolInv
<1> SUFFICES ASSUME Init PROVE CoolInv
  OBVIOUS
<1>1. Cooling = {} /\ \A t \in Threads : thread[t].pc = "idle"
  BY DEF Init, Cooling, Free
<1> QED BY <1>1, InitTyped DEF CoolInv, HasItsOwn, LooksBack

(* A snapshot that is inserted cools down only if it was explored, and     *)
(* those that cool down stay what they are.                                *)
LEMMA InsertCools ==
  ASSUME TypeOK, \A j \in Cooling : Exists(j),
         NEW i \in SnapIds, NEW r, r.kind = "explored" => r # NoSnapshot, Insert(i, r)
  PROVE  /\ Cooling' \subseteq Cooling \cup {i}
         /\ r.kind # "explored" => Cooling' = Cooling
         /\ \A j \in Cooling : snap'[j] = snap[j]
         /\ \A j \in Cooling' : Exists(j)'
<1>1. Cooling \subseteq SnapIds
  BY DEF Cooling, TypeOK
<1>2. \A j \in Cooling : snap'[j] = snap[j]
  BY <1>1 DEF Insert, Exists, TypeOK
<1>3. CASE ~Exists(i) /\ r.kind = "explored"
  <2>1. recent' = Append(recent, i) /\ recent \in Seq(SnapIds)
    BY <1>3 DEF Insert, TypeOK
  <2>2. \A k \in 1 .. Len(recent') : recent'[k] = i \/ (k \in 1 .. Len(recent) /\ recent'[k] = recent[k])
    BY <2>1
  <2>3. Cooling' \subseteq Cooling \cup {i}
    BY <2>2 DEF Cooling
  <2>4. snap'[i] = r
    BY <1>3 DEF Insert, TypeOK
  <2> QED BY <1>2, <1>3, <2>3, <2>4 DEF Exists
<1>4. CASE Exists(i) \/ r.kind # "explored"
  <2>1. Cooling' = Cooling
    BY <1>4 DEF Insert, Cooling
  <2> QED BY <1>2, <2>1 DEF Exists
<1> QED BY <1>3, <1>4

(* What a step of a thread does to what cools down.                        *)
LEMMA ProcessCools ==
  ASSUME TypeOK, \A j \in Cooling : Exists(j), NEW t \in Threads, Process(t)
  PROVE  /\ \A j \in Cooling' : Exists(j)' /\ (j \in Cooling \/ j[1] = thread[t].article)
         /\ \A j \in Cooling : snap'[j] = snap[j]
         /\ thread[t].pc # "explore" => Cooling' \subseteq Cooling
<1>1. CASE SealSkipped(t)
  <2>1. Base(t) \in SnapIds
    BY <1>1, WorkTyped DEF SealSkipped
  <2>2. [NoSnapshot EXCEPT !.kind = "skipped"].kind = "skipped"
    BY DEF NoSnapshot
  <2>3. CASE UNCHANGED <<snap, recent>>
    BY <2>3 DEF Cooling, Exists
  <2>4. CASE Insert(Base(t), [NoSnapshot EXCEPT !.kind = "skipped"])
    BY <2>1, <2>2, <2>4, InsertCools
  <2> QED BY <1>1, <2>3, <2>4 DEF SealSkipped
<1>2. CASE SealExplored(t)
  <2> DEFINE Explored(k) == [kind |-> k, symbol |-> thread[t].symbol, symbols |-> thread[t].symbols]
  <2>1. thread[t].pc = "explore" /\ SnapIdOf(t, thread[t].symbol) \in SnapIds
    BY <1>2, WorkTyped DEF SealExplored
  <2>2. PICK k \in {"failed", "explored"} : Insert(SnapIdOf(t, thread[t].symbol), Explored(k))
    BY <1>2, Zenon DEF SealExplored
  <2>3. Explored(k).kind = "explored" => Explored(k) # NoSnapshot
    BY DEF NoSnapshot
  <2>4. SnapIdOf(t, thread[t].symbol)[1] = thread[t].article
    BY DEF SnapIdOf, Base
  <2> HIDE DEF Explored
  <2> QED BY <2>1, <2>2, <2>3, <2>4, InsertCools
<1>3. CASE UNCHANGED <<snap, recent>>
  BY <1>3 DEF Cooling, Exists
<1> QED BY <1>1, <1>2, <1>3 DEF Process, LookUpRecent, LookUpInFlight, Triage, Mark, NextSymbol,
                                ExploreStops, Trade, Unmark

(* What the thread at work has learned of the table, it goes on with.      *)
LEMMA GoesOnLooking ==
  ASSUME TypeOK, NEW t \in Threads, Process(t), FromNews(t)', NEW i \in Cooling, FromQueue(i),
         LooksBack(t), snap'[i] = snap[i]
  PROVE  /\ thread'[t].pc \in {"inflight", "triage"} => snap'[i].symbols \subseteq thread'[t].cooled
         /\ thread'[t].pc = "mark" => snap'[i].symbols \cap thread'[t].explore = {}
<1> DEFINE me == thread[t]
           Looking == {"inflight", "triage", "mark"}
<1>0. me \in Work(Deciding \cup {"explore", "trade"}, Symbols \cup {None})
  BY AtWork
<1>a. \A local : Become(t, local) => thread'[t] = local
  BY DEF Become, TypeOK
<1>b. \A pc : [me EXCEPT !.pc = pc].pc = pc /\ [me EXCEPT !.pc = pc, !.symbol = None].pc = pc
  BY <1>0 DEF Work
<1>c. Free.pc = "idle"
  BY DEF Free
<1>1. CASE LookUpRecent(t)
  <2>1. thread'[t] = [me EXCEPT !.pc = "inflight", !.cooled = RecentlyExplored]
    BY <1>1, <1>a DEF LookUpRecent
  <2>2. thread'[t].pc = "inflight" /\ thread'[t].cooled = RecentlyExplored
    BY <1>0, <2>1 DEF Work
  <2>3. snap[i].symbols \subseteq RecentlyExplored
    BY DEF Cooling, RecentlyExplored
  <2> QED BY <2>2, <2>3
<1>2. CASE LookUpInFlight(t)
  <2>1. PICK pc \in {"skip", "triage"} :
          thread'[t] = [me EXCEPT !.cooled = me.cooled \cup Marked, !.pc = pc]
    BY <1>2, <1>a DEF LookUpInFlight
  <2>2. /\ thread'[t].pc = pc /\ thread'[t].cooled = me.cooled \cup Marked
        /\ thread'[t].article = me.article
    BY <1>0, <2>1 DEF Work
  <2>3. me.pc = "inflight" /\ FromNews(t)
    BY <1>2, <2>2 DEF LookUpInFlight, FromNews
  <2> QED BY <2>2, <2>3 DEF LooksBack
<1>3. CASE Triage(t)
  <2>1. ASSUME NEW named, NEW chosen \in SUBSET (named \ me.cooled),
               Become(t, [me EXCEPT !.pc = "mark", !.cooled = {}, !.symbols = named,
                            !.explore = chosen, !.todo = chosen])
        PROVE  snap'[i].symbols \cap thread'[t].explore = {} /\ thread'[t].pc = "mark"
    <3>1. /\ thread'[t].pc = "mark" /\ thread'[t].explore = chosen
          /\ thread'[t].article = me.article
      BY <1>0, <1>a, <2>1 DEF Work
    <3>2. me.pc = "triage" /\ FromNews(t)
      BY <1>3, <3>1 DEF Triage, FromNews
    <3>3. snap[i].symbols \subseteq me.cooled
      BY <3>2 DEF LooksBack
    <3> QED BY <3>1, <3>3
  <2>2. CASE Become(t, Free)
    BY <1>a, <1>c, <2>2
  <2>3. CASE GoTo(t, "skip")
    BY <1>a, <1>b, <2>3 DEF GoTo
  <2> QED BY <1>3, <2>1, <2>2, <2>3 DEF Triage
<1>4. CASE NextSymbol(t)
  <2> DEFINE Without(s) == [me EXCEPT !.todo = @ \ {s}]
  <2>1. \A s : /\ Without(s).pc = me.pc
               /\ [Without(s) EXCEPT !.pc = "explore", !.symbol = s].pc = "explore"
    BY <1>0 DEF Work
  <2>2. me.pc = "next"
    BY <1>4 DEF NextSymbol
  <2>3. \/ GoTo(t, "unmark")
        \/ \E s : \/ Become(t, Without(s))
                 \/ Become(t, [Without(s) EXCEPT !.pc = "explore", !.symbol = s])
    BY <1>4, Zenon DEF NextSymbol
  <2> HIDE DEF Without
  <2>4. thread'[t].pc \notin Looking
    BY <1>a, <1>b, <2>1, <2>2, <2>3 DEF GoTo
  <2> QED BY <2>4
<1>5. CASE SealSkipped(t) \/ Mark(t) \/ ExploreStops(t) \/ SealExplored(t) \/ Trade(t) \/ Unmark(t)
  <2>1. Become(t, Free) \/ \E pc \in {"next", "unmark", "trade"} : GoTo(t, pc) \/ Leave(t, pc)
    BY <1>5, Zenon DEF SealSkipped, Mark, ExploreStops, SealExplored, Trade, Unmark
  <2>2. thread'[t].pc \notin Looking
    BY <1>a, <1>b, <1>c, <2>1 DEF GoTo, Leave
  <2> QED BY <2>2
<1> QED BY <1>1, <1>2, <1>3, <1>4, <1>5 DEF Process

LEMMA ProcessLooksBack ==
  ASSUME OneServesQueue, CoolInv, NEW p \in Threads, Process(p), NEW t \in Threads
  PROVE  LooksBack(t)'
<1>0. /\ TypeOK /\ \A j \in Cooling : Exists(j)
      /\ HasItsOwn(p) /\ HasItsOwn(t) /\ LooksBack(t)
  BY DEF CoolInv
<1>1. /\ \A j \in Cooling' : j \in Cooling \/ j[1] = thread[p].article
      /\ \A j \in Cooling : snap'[j] = snap[j]
      /\ thread[p].pc # "explore" => Cooling' \subseteq Cooling
  BY <1>0, ProcessCools
<1>2. thread[p].pc # "idle"
  BY DEF Process, LookUpRecent, LookUpInFlight, Triage, SealSkipped, Mark, NextSymbol, ExploreStops,
         SealExplored, Trade, Unmark
<1> SUFFICES ASSUME FromNews(t)', NEW i \in Cooling', FromQueue(i),
                    thread'[t].pc \in {"inflight", "triage", "mark"}
             PROVE  /\ thread'[t].pc \in {"inflight", "triage"} =>
                         snap'[i].symbols \subseteq thread'[t].cooled
                    /\ thread'[t].pc = "mark" => snap'[i].symbols \cap thread'[t].explore = {}
  BY DEF LooksBack, FromQueue
<1>3. CASE p = t
  <2>1. i \in Cooling
    <3>1. CASE thread[p].pc = "explore"
      <4>1. thread'[p].pc \in {"next", "unmark", "trade"}
        <5>1. \E pc \in {"next", "unmark", "trade"} : GoTo(p, pc) \/ Leave(p, pc)
          BY <3>1, Zenon DEF Process, LookUpRecent, LookUpInFlight, Triage, SealSkipped, Mark,
               NextSymbol, ExploreStops, SealExplored, Trade, Unmark
        <5>2. thread[p] \in Work(Deciding \cup {"explore", "trade"}, Symbols \cup {None})
          BY <1>0, AtWork
        <5> QED BY <1>0, <5>1, <5>2 DEF GoTo, Leave, Become, TypeOK, Work
      <4> QED BY <1>3, <4>1
    <3> QED BY <1>1, <3>1
  <2> QED BY <1>0, <1>1, <1>3, <2>1, GoesOnLooking
<1>4. CASE p # t
  <2>1. thread'[t] = thread[t]
    BY <1>0, <1>4, OneThread
  <2>2. FromNews(t) /\ thread[t].article \in Handles[t] \ Manual
    BY <1>0, <2>1 DEF FromNews, HasItsOwn
  <2>3. thread[p].article \in Manual
    BY <1>0, <1>2, <1>4, <2>2 DEF OneServesQueue, HasItsOwn
  <2>4. i \in Cooling
    BY <1>1, <2>3 DEF FromQueue
  <2> QED BY <1>0, <1>1, <2>1, <2>2, <2>4 DEF LooksBack
<1> QED BY <1>3, <1>4

LEMMA CoolStep ==
  ASSUME OneServesQueue, CoolInv, [Next]_vars
  PROVE  CoolInv'
<1>0. /\ TypeOK /\ \A j \in Cooling : Exists(j)
      /\ \A t \in Threads : HasItsOwn(t) /\ LooksBack(t)
  BY DEF CoolInv
<1>1. TypeOK'
  BY <1>0, NextTyped
<1>2. ASSUME NEW p \in Threads, Process(p)
      PROVE  (\A j \in Cooling : Exists(j))' /\ (\A t \in Threads : HasItsOwn(t) /\ LooksBack(t))'
  <2>1. \A j \in Cooling' : Exists(j)'
    BY <1>0, <1>2, ProcessCools
  <2>2. ASSUME NEW t \in Threads PROVE HasItsOwn(t)'
    <3>1. thread'[t] = thread[t] \/ thread'[t] = Free
          \/ (thread'[t].article = thread[t].article /\ thread[t].pc # "idle")
      BY <1>0, <1>2, OneThread DEF Process, LookUpRecent, LookUpInFlight, Triage, SealSkipped, Mark,
           NextSymbol, ExploreStops, SealExplored, Trade, Unmark
    <3> QED BY <1>0, <3>1 DEF HasItsOwn, Free
  <2> QED BY <1>2, <2>1, <2>2, ProcessLooksBack
<1>3. ASSUME NEW p \in Threads, NEW a \in Articles, Take(p, a)
      PROVE  (\A j \in Cooling : Exists(j))' /\ (\A t \in Threads : HasItsOwn(t) /\ LooksBack(t))'
  <2>1. UNCHANGED <<snap, recent>> /\ a \in Handles[p]
    BY <1>3 DEF Take
  <2>2. ASSUME NEW t \in Threads PROVE HasItsOwn(t)' /\ LooksBack(t)'
    <3>1. CASE thread'[t] = thread[t]
      BY <1>0, <2>1, <3>1 DEF HasItsOwn, LooksBack, FromNews, Cooling, FromQueue
    <3>2. ASSUME thread'[t] # thread[t]
          PROVE  /\ t = p /\ thread'[t].article = a /\ thread'[t].pc \in {"triage", "recent"}
                 /\ thread'[t].pc = "triage" => a \in Manual \/ Incoming[a] = {}
      <4>1. Become(p, [Free EXCEPT !.article = a,
                         !.pc = IF a \in Manual \/ Incoming[a] = {} THEN "triage" ELSE "recent"])
        BY <1>3, <3>2 DEF Take
      <4> QED BY <1>0, <3>2, <4>1 DEF Become, TypeOK, Free
    <3> QED BY <2>1, <3>1, <3>2 DEF HasItsOwn, LooksBack, FromNews
  <2> QED BY <1>0, <2>1, <2>2 DEF Cooling, Exists
<1>4. CASE CooldownEnds
  <2>1. UNCHANGED <<snap, thread>> /\ recent' = Tail(recent) /\ recent # <<>>
    BY <1>4 DEF CooldownEnds
  <2>2. recent \in Seq(SnapIds)
    BY <1>0 DEF TypeOK
  <2>3. Cooling' \subseteq Cooling
    <3>1. \A k \in 1 .. Len(recent') : k + 1 \in 1 .. Len(recent) /\ recent'[k] = recent[k + 1]
      BY <2>1, <2>2
    <3> QED BY <3>1 DEF Cooling
  <2>4. \A t \in Threads : HasItsOwn(t)' /\ LooksBack(t)'
    BY <1>0, <2>1, <2>3 DEF HasItsOwn, LooksBack, FromNews, FromQueue
  <2> QED BY <1>0, <1>1, <2>1, <2>3, <2>4 DEF Exists, CoolInv
<1>5. CASE Crash
  <2>1. UNCHANGED <<snap, recent>> /\ \A t \in Threads : thread'[t].pc = "idle"
    BY <1>5 DEF Crash, Free
  <2> QED BY <1>0, <1>1, <2>1 DEF Cooling, Exists, HasItsOwn, LooksBack, CoolInv
<1>6. CASE UNCHANGED vars
  <2>1. UNCHANGED <<snap, recent, thread>>
    BY <1>6 DEF vars
  <2> QED BY <1>0, <1>1, <2>1 DEF Cooling, Exists, HasItsOwn, LooksBack, FromNews, CoolInv
<1> QED BY <1>1, <1>2, <1>3, <1>4, <1>5, <1>6 DEF CoolInv, Next

(* While one thread serves the queue, whatever threads the dashboard       *)
(* starts beside it, no symbol that is cooling down is explored again      *)
(* (get_recently_explored_symbols, run_triage).                            *)
THEOREM CooldownIsKept ==
  ASSUME OneServesQueue
  PROVE  Spec => CooldownHolds
<1> DEFINE Kept == \A t \in Threads :
                     thread[t].pc = "mark" /\ FromQueue(Base(t)) /\ Incoming[thread[t].article] # {}
                       => \A k \in 1 .. Len(recent) :
                            FromQueue(recent[k]) => snap[recent[k]].symbols \cap thread[t].explore = {}
<1>1. Init => CoolInv
  BY CoolInit
<1>2. CoolInv /\ [Next]_vars => CoolInv'
  BY CoolStep
<1>3. CoolInv => Kept
  BY DEF CoolInv, LooksBack, FromNews, FromQueue, Base, Cooling
<1>4. CoolInv /\ [Next]_vars => [Kept]_vars
  BY <1>3
<1> QED BY <1>1, <1>2, <1>4, PTL DEF Spec, CooldownHolds
=============================================================================
