---------------------------- MODULE RecordProofs ----------------------------
(***************************************************************************)
(* Proofs about what the program keeps, as MCData composes it: knowledge   *)
(* files, for any threads, pages and patterns; the results of backtests,   *)
(* for any entries and bars; snapshots, and the watches that scripts       *)
(* repair, for any number of scripts and runs; what the vendors' answers   *)
(* leave in the cache; when a live exit is decided, for any plans, bars    *)
(* and trades; and at what price it is recorded, for any watches, orders,  *)
(* workers and faults.                                                     *)
(***************************************************************************)
EXTENDS MCData, FoldTheorems, SequenceTheorems

-----------------------------------------------------------------------------
(* The knowledge files.                                                    *)

LEMMA LearnedStep ==
  ASSUME [Next]_vars, part = "knowledge"
  PROVE  part' = "knowledge" /\ (Learned!Next \/ UNCHANGED learnVars)
BY DEF Next, NextBacktest, NextDelta, NextPrice, NextRecord, vars, recordVars

KnowledgeFiles == {"skip", "lists"}

(* Patterns, and symbols on a list.                                        *)
Things == UNION {Words, LongOnly,
                 ({"verified", "rejected"} \cup {Kind[s] : s \in Described}) \X Described}

Contents == [items : SUBSET Things, whole : BOOLEAN,
             writers : SUBSET (Appenders \cup Pages), mixed : BOOLEAN]

Learning == {Learned!Out}
            \cup [pc : {"lock"}, file : KnowledgeFiles, adds : SUBSET Things]
            \cup [pc : {"read", "open"}, file : KnowledgeFiles, adds : SUBSET Things,
                  data : SUBSET Things]

Editing == {Learned!Out}
           \cup [pc : {"shown", "open"}, file : KnowledgeFiles, text : SUBSET Things]

LearnedTyped ==
  /\ file \in [KnowledgeFiles -> Contents]
  /\ lock \in [KnowledgeFiles -> Appenders \cup {None}]
  /\ proc \in [Appenders -> Learning]
  /\ form \in [Pages -> Editing]
  /\ told \in [KnowledgeFiles -> SUBSET Things]

LEMMA LearnedInitTyped == Learned!Init => LearnedTyped
BY DEF Learned!Init, Learned!Files, LearnedTyped, KnowledgeFiles, Contents, Learning, Editing

LEMMA LoadTyped ==
  ASSUME LearnedTyped, NEW f \in KnowledgeFiles
  PROVE  Learned!Load(f) \in SUBSET Things /\ file[f].items \subseteq Learned!Load(f)
BY DEF LearnedTyped, Contents, Things, Learned!Load

LEMMA TruncatedTyped ==
  ASSUME LearnedTyped, NEW f \in KnowledgeFiles, NEW w \in Appenders \cup Pages
  PROVE  Learned!Truncated(f, w) \in [KnowledgeFiles -> Contents]
BY DEF LearnedTyped, Contents, Learned!Truncated

LEMMA FillTyped ==
  ASSUME LearnedTyped, NEW f \in KnowledgeFiles, NEW w, NEW items \in SUBSET Things,
         Learned!Fill(f, w, items)
  PROVE  /\ file' \in [KnowledgeFiles -> Contents]
         /\ file'[f].items = items
         /\ \A g \in KnowledgeFiles \ {f} : file'[g] = file[g]
<1>1. PICK whole \in BOOLEAN :
        file' = [file EXCEPT ![f] = [items |-> items, whole |-> whole,
                                     writers |-> file[f].writers \ {w},
                                     mixed |-> file[f].mixed /\ file[f].writers \ {w} # {}]]
  BY DEF Learned!Fill, LearnedTyped
<1> DEFINE new == [items |-> items, whole |-> whole, writers |-> file[f].writers \ {w},
                   mixed |-> file[f].mixed /\ file[f].writers \ {w} # {}]
<1>2. new \in Contents
  BY DEF Contents, LearnedTyped
<1> QED BY <1>1, <1>2 DEF LearnedTyped

(* Whoever has read a file, or has truncated it to append, has its lock,   *)
(* and all that was told of it is in what it has read.                     *)
Holds(p) == proc[p].pc \in {"read", "open"} =>
              lock[proc[p].file] = p /\ told[proc[p].file] \subseteq proc[p].data

LearnedInv == LearnedTyped /\ Learned!AppendsKept /\ \A p \in Appenders : Holds(p)

LEMMA LearnedInitially == Learned!Init => LearnedInv
BY LearnedInitTyped DEF Learned!Init, Learned!Files, Learned!Out, Learned!AppendsKept, LearnedInv,
                        Holds, KnowledgeFiles

LEMMA OnlyHolder ==
  ASSUME LearnedInv, NEW p \in Appenders, NEW q \in Appenders, p # q,
         proc[p].pc \in {"read", "open"}, proc[q].pc \in {"read", "open"}
  PROVE  proc[p].file # proc[q].file
BY DEF LearnedInv, Holds

LEMMA LearnedNext ==
  ASSUME LearnedInv, Learned!Next \/ UNCHANGED learnVars
  PROVE  LearnedInv'
<1>0. Learned!Files = KnowledgeFiles
  BY DEF Learned!Files, KnowledgeFiles
<1> USE <1>0 DEF LearnedInv, Learned!AppendsKept
<1>1. ASSUME NEW p \in Appenders, NEW f \in KnowledgeFiles, NEW adds \in SUBSET Things,
             proc[p] = Learned!Out,
             proc' = [proc EXCEPT ![p] = [pc |-> "lock", file |-> f, adds |-> adds]],
             UNCHANGED <<file, lock, form, told, kills>>
      PROVE  LearnedInv'
  <2>1. LearnedTyped'
    BY <1>1 DEF LearnedTyped, Learning
  <2> QED BY <1>1, <2>1 DEF Holds, LearnedTyped
<1>2. ASSUME NEW p \in Appenders, Learned!Learn(p) PROVE LearnedInv'
  BY <1>1, <1>2 DEF Learned!Learn, KnowledgeFiles, Things
<1>3. ASSUME NEW p \in Appenders, Learned!FilterSymbol(p) PROVE LearnedInv'
  <2>1. ASSUME NEW s \in Described, NEW x \in {"none", "us", "foreign"}
        PROVE  Learned!Remembers(s, x) \in SUBSET Things
    BY DEF Learned!Remembers, Things
  <2> QED BY <1>1, <1>3, <2>1 DEF Learned!FilterSymbol, KnowledgeFiles
<1>4. ASSUME NEW p \in Appenders, Learned!Read(p) PROVE LearnedInv'
  <2>1. proc[p].file \in KnowledgeFiles /\ proc[p].adds \in SUBSET Things
    BY <1>4 DEF Learned!Read, LearnedTyped, Learning, Learned!Out
  <2> DEFINE f == proc[p].file
             new == [pc |-> "read", file |-> f, adds |-> proc[p].adds, data |-> Learned!Load(f)]
  <2>2. CASE file[f].whole /\ proc' = [proc EXCEPT ![p] = new] /\ lock' = [lock EXCEPT ![f] = p]
    <3>1. new \in Learning
      BY <2>1, LoadTyped DEF Learning
    <3>2. LearnedTyped'
      BY <1>4, <2>1, <2>2, <3>1 DEF Learned!Read, LearnedTyped
    <3>3. \A q \in Appenders : proc[q].pc \in {"read", "open"} => proc[q].file # f
      BY <1>4, LearningAssumption DEF Learned!Read, Learned!MayRead, Holds
    <3>4. told[f] \subseteq Learned!Load(f)
      BY <2>1, <2>2, LoadTyped
    <3> QED BY <1>4, <2>1, <2>2, <3>2, <3>3, <3>4 DEF Learned!Read, Holds, LearnedTyped
  <2>3. CASE proc' = [proc EXCEPT ![p] = Learned!Out] /\ UNCHANGED lock
    <3>1. LearnedTyped'
      BY <1>4, <2>3 DEF Learned!Read, LearnedTyped, Learning
    <3> QED BY <1>4, <2>3, <3>1 DEF Learned!Read, Learned!Out, Holds, LearnedTyped
  <2> QED BY <1>4, <2>2, <2>3 DEF Learned!Read
<1>5. ASSUME NEW p \in Appenders, Learned!NothingNew(p) PROVE LearnedInv'
  <2>1. proc[p].file \in KnowledgeFiles
    BY <1>5 DEF Learned!NothingNew, LearnedTyped, Learning, Learned!Out
  <2>2. LearnedTyped'
    BY <1>5, <2>1 DEF Learned!NothingNew, Learned!Release, LearnedTyped, Learning
  <2>3. \A q \in Appenders \ {p} : proc[q].pc \in {"read", "open"} => proc[q].file # proc[p].file
    BY <1>5, OnlyHolder DEF Learned!NothingNew
  <2> QED BY <1>5, <2>1, <2>2, <2>3 DEF Learned!NothingNew, Learned!Release, Learned!Out, Holds,
                                        LearnedTyped
<1>6. ASSUME NEW p \in Appenders, Learned!Open(p) PROVE LearnedInv'
  <2>1. proc[p] \in [pc : {"read", "open"}, file : KnowledgeFiles, adds : SUBSET Things,
                     data : SUBSET Things]
    BY <1>6 DEF Learned!Open, LearnedTyped, Learning, Learned!Out
  <2>2. [proc[p] EXCEPT !.pc = "open"] \in Learning
    BY <2>1 DEF Learning
  <2>3. file' \in [KnowledgeFiles -> Contents]
    BY <1>6, <2>1, TruncatedTyped DEF Learned!Open
  <2>4. LearnedTyped'
    BY <1>6, <2>2, <2>3 DEF Learned!Open, LearnedTyped
  <2>5. \A g \in KnowledgeFiles : file'[g].whole => file'[g] = file[g]
    BY <1>6, <2>1 DEF Learned!Open, Learned!Truncated, LearnedTyped
  <2> QED BY <1>6, <2>1, <2>4, <2>5 DEF Learned!Open, Holds, LearnedTyped
<1>7. ASSUME NEW p \in Appenders, Learned!Append(p) PROVE LearnedInv'
  <2>1. proc[p] \in [pc : {"read", "open"}, file : KnowledgeFiles, adds : SUBSET Things,
                     data : SUBSET Things]
    BY <1>7 DEF Learned!Append, LearnedTyped, Learning, Learned!Out
  <2> DEFINE f == proc[p].file
             items == proc[p].data \cup proc[p].adds
  <2>2. f \in KnowledgeFiles /\ items \in SUBSET Things
    BY <2>1
  <2>3. /\ file' \in [KnowledgeFiles -> Contents] /\ file'[f].items = items
        /\ \A g \in KnowledgeFiles \ {f} : file'[g] = file[g]
    <3>1. Learned!Fill(f, p, items)
      BY <1>7 DEF Learned!Append
    <3> QED BY <2>2, <3>1, FillTyped
  <2>4. told' \in [KnowledgeFiles -> SUBSET Things]
    BY <1>7, <2>1 DEF Learned!Append, LearnedTyped
  <2>5. LearnedTyped'
    BY <1>7, <2>2, <2>3, <2>4 DEF Learned!Append, Learned!Release, LearnedTyped, Learning
  <2>6. \A q \in Appenders \ {p} : proc[q].pc \in {"read", "open"} => proc[q].file # f
    BY <1>7, OnlyHolder DEF Learned!Append
  <2>7. told[f] \subseteq proc[p].data
    BY <1>7 DEF Learned!Append, Holds
  <2>8. Learned!AppendsKept'
    BY <1>7, <2>2, <2>3, <2>7 DEF Learned!Append, LearnedTyped
  <2>9. \A q \in Appenders : Holds(q)'
    BY <1>7, <2>2, <2>6 DEF Learned!Append, Learned!Release, Learned!Out, Holds, LearnedTyped,
                            Learning
  <2> QED BY <2>5, <2>8, <2>9
<1>8. ASSUME NEW g \in Pages, Learned!LoadPage(g) PROVE LearnedInv'
  <2>1. LearnedTyped'
    BY <1>8 DEF Learned!LoadPage, LearnedTyped, Editing, Contents
  <2> QED BY <1>8, <2>1 DEF Learned!LoadPage, Holds
<1>9. ASSUME NEW g \in Pages, Learned!SavePage(g) PROVE LearnedInv'
  <2>1. form[g] \in [pc : {"shown", "open"}, file : KnowledgeFiles, text : SUBSET Things]
    BY <1>9 DEF Learned!SavePage, LearnedTyped, Editing, Learned!Out
  <2>2. ASSUME NEW removed \in SUBSET form[g].text
        PROVE  [form[g] EXCEPT !.pc = "open", !.text = @ \ removed] \in Editing
    BY <2>1 DEF Editing
  <2>3. file' \in [KnowledgeFiles -> Contents]
    BY <1>9, <2>1, TruncatedTyped DEF Learned!SavePage
  <2>4. form' \in [Pages -> Editing]
    BY <1>9, <2>2 DEF Learned!SavePage, LearnedTyped
  <2>5. LearnedTyped'
    BY <1>9, <2>3, <2>4 DEF Learned!SavePage, LearnedTyped
  <2>6. \A f \in KnowledgeFiles : file'[f].whole => file'[f] = file[f]
    BY <1>9, <2>1 DEF Learned!SavePage, Learned!Truncated, LearnedTyped
  <2> QED BY <1>9, <2>5, <2>6 DEF Learned!SavePage, Holds
<1>10. ASSUME NEW g \in Pages, Learned!PageSaved(g) PROVE LearnedInv'
  <2>1. form[g] \in [pc : {"shown", "open"}, file : KnowledgeFiles, text : SUBSET Things]
    BY <1>10 DEF Learned!PageSaved, LearnedTyped, Editing, Learned!Out
  <2> DEFINE f == form[g].file
  <2>2. f \in KnowledgeFiles /\ form[g].text \in SUBSET Things
    BY <2>1
  <2>3. /\ file' \in [KnowledgeFiles -> Contents] /\ file'[f].items = form[g].text
        /\ \A h \in KnowledgeFiles \ {f} : file'[h] = file[h]
    <3>1. Learned!Fill(f, g, form[g].text)
      BY <1>10 DEF Learned!PageSaved
    <3> QED BY <2>2, <3>1, FillTyped
  <2>4. told' \in [KnowledgeFiles -> SUBSET Things] /\ told'[f] = told[f] \cap form[g].text
        /\ \A h \in KnowledgeFiles : told'[h] \subseteq told[h]
    BY <1>10, <2>2 DEF Learned!PageSaved, LearnedTyped
  <2>5. LearnedTyped'
    BY <1>10, <2>3, <2>4 DEF Learned!PageSaved, LearnedTyped, Editing
  <2>6. Learned!AppendsKept'
    BY <2>3, <2>4
  <2>7. \A p \in Appenders : Holds(p)'
    BY <1>10, <2>4 DEF Learned!PageSaved, Holds, LearnedTyped, Learning
  <2> QED BY <2>5, <2>6, <2>7
<1>11. CASE Learned!Kill
  <2>1. \A f \in KnowledgeFiles : /\ file'[f] = [file[f] EXCEPT !.writers = {}, !.mixed = FALSE]
                                  /\ file[f] \in Contents
    BY <1>11 DEF Learned!Kill, LearnedTyped
  <2>2. \A f \in KnowledgeFiles : /\ file'[f] \in Contents /\ file'[f].items = file[f].items
                                  /\ file'[f].whole = file[f].whole
    BY <2>1 DEF Contents
  <2>3. LearnedTyped'
    BY <1>11, <2>2 DEF Learned!Kill, LearnedTyped, Learning, Editing
  <2> QED BY <1>11, <2>2, <2>3 DEF Learned!Kill, Learned!Out, Holds
<1>12. CASE UNCHANGED learnVars
  BY <1>12 DEF learnVars, LearnedTyped, Holds
<1> QED BY <1>2, <1>3, <1>4, <1>5, <1>6, <1>7, <1>8, <1>9, <1>10, <1>11, <1>12 DEF Learned!Next

(* A knowledge file that can be read has all that was learned, but what a  *)
(* saved page left out: for any threads, pages and patterns, and for any   *)
(* number of kills (store.py, symbol_filter.py).                           *)
THEOREM AppendsAreKept == Spec => []AppendsKept
<1> DEFINE Inv == part = "knowledge" => LearnedInv
<1>1. Init => Inv
  BY LearnedInitially DEF Init
<1>2. Inv /\ [Next]_vars => Inv'
  <2> SUFFICES ASSUME Inv, [Next]_vars, part' = "knowledge" PROVE LearnedInv'
    OBVIOUS
  <2>1. part = "knowledge"
    BY DEF Next, vars
  <2> QED BY <2>1, LearnedStep, LearnedNext
<1>3. Inv => AppendsKept
  BY DEF AppendsKept, LearnedInv
<1> QED BY <1>1, <1>2, <1>3, PTL DEF Spec

-----------------------------------------------------------------------------
(* Greatest and least elements.                                            *)

LEMMA FiniteMax ==
  ASSUME NEW S, IsFiniteSet(S), S # {}, S \subseteq Int
  PROVE  \E x \in S : \A y \in S : x >= y
<1> DEFINE Above(x) == {z \in S : z >= x}
           T == {Above(x) : x \in S}
<1>1. T \subseteq SUBSET S /\ T # {}
  OBVIOUS
<1>2. IsWellFoundedOn(StrictSubsetOrdering(S), SUBSET S)
  BY FS_StrictSubsetOrderingWellFounded, FS_FiniteSubsetsOfFinite
<1>3. PICK U \in T : \A V \in T : ~ (<<V, U>> \in StrictSubsetOrdering(S))
  <2> HIDE DEF T
  <2> QED BY <1>1, <1>2, WFMin
<1>4. PICK x \in S : U = Above(x)
  OBVIOUS
<1>5. ASSUME NEW y \in S PROVE x >= y
  <2>1. CASE y > x
    <3>0. x \in Int /\ y \in Int
      OBVIOUS
    <3>1. x \in Above(x) /\ x \notin Above(y)
      BY <2>1, <3>0
    <3>2. ASSUME NEW z \in S, z >= y PROVE z >= x
      BY <2>1, <3>0, <3>2
    <3>3. Above(y) \subseteq Above(x)
      BY <3>2
    <3>4. <<Above(y), Above(x)>> \in StrictSubsetOrdering(S)
      BY <3>1, <3>3 DEF StrictSubsetOrdering
    <3> QED BY <1>3, <1>4, <3>4
  <2> QED BY <2>1
<1> QED BY <1>5

LEMMA MinOfTwo ==
  ASSUME NEW a \in Int, NEW b \in Int
  PROVE  Backtests!Min({a, b}) \in {a, b} /\ Backtests!Min({a, b}) <= a
BY DEF Backtests!Min

-----------------------------------------------------------------------------
(* The results of a backtest.                                              *)

LEMMA BacktestsStep ==
  ASSUME [Next]_vars, part = "backtests"
  PROVE  part' = "backtests" /\ (Backtests!Next \/ UNCHANGED runVars)
BY DEF Next, NextBacktest, NextDelta, NextPrice, NextRecord, vars, backtestVars

(* The last day that is searched for first bars, or the last with bars.    *)
LastAt(s) == Backtests!Max({e.at : e \in Backtests!Of(s)})

LEMMA LastAtKnown ==
  ASSUME NEW s, Backtests!Of(s) # {}
  PROVE  LastAt(s) \in Int
<1> DEFINE days == {e.at : e \in Backtests!Of(s)}
<1>1. days \subseteq Int /\ days # {}
  BY BacktestAssumption DEF Backtests!Of
<1>2. IsFiniteSet(days)
  <2>1. IsFiniteSet(Backtests!Of(s))
    BY BacktestAssumption, FS_Subset DEF Backtests!Of
  <2>2. [e \in Backtests!Of(s) |-> e.at] \in Surjection(Backtests!Of(s), days)
    BY DEF Surjection
  <2> QED BY <2>1, <2>2, FS_Surjection
<1>3. \E x \in days : \A y \in days : x >= y
  BY <1>1, <1>2, FiniteMax
<1> QED BY <1>1, <1>3 DEF LastAt, Backtests!Max

LEMMA WindowEnds ==
  ASSUME NEW s, Backtests!Of(s) # {}, NEW now \in Int, btNow \in Int
  PROVE  Backtests!Min({now, Backtests!WindowEnd(s)}) \in {now, btNow, LastAt(s) + SearchDays}
<1>1. LastAt(s) + SearchDays \in Int
  BY LastAtKnown, BacktestAssumption
<1>2. Backtests!WindowEnd(s) \in {btNow, LastAt(s) + SearchDays}
  BY <1>1, MinOfTwo DEF Backtests!WindowEnd, LastAt
<1> QED BY <1>1, <1>2, MinOfTwo

(* What the disk has of an entry was true of bars that were there.         *)
Known(e, x) ==
  /\ x \in [reason : {"still_open", "closed"}, end : Int] /\ x.end <= btNow
  /\ x.reason = "closed" => e.exit <= x.end
  /\ x.reason = "still_open" => e.bar <= x.end /\ x.end < e.exit

(* The bars of a symbol whose load did not fail are no older than the run. *)
Current(s) == s \in failed \/ since <= btBars[s]

BacktestsTyped ==
  /\ btNow \in Int /\ since \in Int /\ since <= btNow
  /\ btBars \in [Backtested -> Int] /\ \A s \in Backtested : btBars[s] <= btNow
  /\ disk \in [Entries -> {disk[e] : e \in Entries}]
  /\ result \in [Entries -> {result[e] : e \in Entries}]
  /\ btPending \subseteq Entries

DiskKnown == \A e \in Entries : disk[e] = None \/ Known(e, disk[e])

(* While symbols are prefetched, an entry of one that is done has a result *)
(* or waits with current bars; then, every entry that does not wait, or    *)
(* whose symbol has been evaluated, has its result.                        *)
Progress ==
  /\ btJob = "none" => btPhase = "idle"
  /\ btPhase = "idle" => btPending = {}
  /\ btPhase = "prefetch" =>
       \A e \in Entries : IF e.symbol \in todo THEN e \notin btPending
                          ELSE IF e \in btPending THEN Current(e.symbol) ELSE Backtests!Sound(e)
  /\ btPhase \in {"evaluate", "serial"} =>
       \A e \in Entries : /\ e \in btPending => Current(e.symbol)
                          /\ e \notin btPending \/ e.symbol \notin todo => Backtests!Sound(e)
  /\ btJob = "complete" => btPhase = "ended" /\ \A e \in Entries : Backtests!Sound(e)

BacktestsInv == BacktestsTyped /\ DiskKnown /\ Progress

LEMMA BacktestsInitially == Backtests!Init => BacktestsInv
BY BacktestAssumption DEF Backtests!Init, BacktestsInv, BacktestsTyped, DiskKnown, Progress

LEMMA EvaluatedKnown ==
  ASSUME NEW e \in Entries, NEW h \in Int, h <= btNow, e.bar <= h, btNow \in Int
  PROVE  Known(e, Backtests!Evaluated(e, h))
<1>1. e.exit \in Int /\ e.bar \in Int
  BY BacktestAssumption
<1> QED BY <1>1 DEF Known, Backtests!Evaluated, Backtests!Open, Backtests!Closed

LEMMA KnownStays ==
  ASSUME NEW e \in Entries, NEW x, Known(e, x), btNow \in Int, btNow' \in Int, btNow <= btNow'
  PROVE  Known(e, x)'
BY DEF Known

(* A result that is made of current bars is sound.                         *)
LEMMA EvaluatedSound ==
  ASSUME BacktestsTyped', NEW e \in Entries, NEW h \in Int, h <= btNow', btNow' \in Int,
         result'[e] = Backtests!Evaluated(e, h), e.symbol \in failed' \/ since' <= h
  PROVE  Backtests!Sound(e)'
<1>1. e.exit \in Int /\ e.bar \in Int
  BY BacktestAssumption
<1>2. since' \in Int
  BY DEF BacktestsTyped
<1>3. result'[e] # None
  BY BacktestAssumption DEF Backtests!Evaluated, Backtests!Open, Backtests!Closed, Backtests!NoData
<1>4. CASE e.bar > h
  <2>1. e.symbol \in failed' \/ e.bar > since'
    BY <1>1, <1>2, <1>4
  <2> QED BY <1>3, <1>4, <2>1 DEF Backtests!Evaluated, Backtests!NoData, Backtests!Sound
<1>5. CASE e.bar <= h
  <2>1. e.exit > h \/ e.exit <= btNow'
    BY <1>1
  <2> QED BY <1>1, <1>3, <1>5, <2>1
          DEF Backtests!Evaluated, Backtests!Open, Backtests!Closed, Backtests!Sound
<1> QED BY <1>1, <1>4, <1>5

(* A sound result stays so while it is the result of the same run.         *)
LEMMA SoundStays ==
  ASSUME NEW e \in Entries, Backtests!Sound(e), result'[e] = result[e], since' = since,
         btNow \in Int, btNow' \in Int, btNow <= btNow', failed \subseteq failed'
  PROVE  Backtests!Sound(e)'
<1>1. e.exit \in Int
  BY BacktestAssumption
<1>2. Backtests!Late(e)' = Backtests!Late(e)
  BY DEF Backtests!Late, Backtests!Of
<1>3. result[e].reason = "closed" => e.exit <= btNow'
  BY <1>1 DEF Backtests!Sound
<1> QED BY <1>2, <1>3 DEF Backtests!Sound

LEMMA DiskStays ==
  ASSUME BacktestsTyped, DiskKnown, btNow' \in Int, btNow <= btNow', disk' = disk
  PROVE  DiskKnown'
BY KnownStays DEF BacktestsTyped, DiskKnown

(* Steps that leave the run's own state alone, but may write to the disk.  *)
LEMMA ProgressStays ==
  ASSUME BacktestsInv, btNow' \in Int, btNow <= btNow', UNCHANGED runVars
         \/ UNCHANGED <<btPhase, todo, btPending, since, btBars, failed, result>>,
         btJob' = btJob \/ btJob' \notin {"none", "complete"}
  PROVE  Progress'
<1> USE DEF BacktestsInv
<1>0. UNCHANGED <<btPhase, todo, btPending, since, btBars, failed, result>>
  BY DEF runVars
<1>1. \A e \in Entries : Backtests!Sound(e) => Backtests!Sound(e)'
  BY <1>0, SoundStays DEF BacktestsTyped
<1>2. \A s : Current(s)' <=> Current(s)
  BY <1>0 DEF Current
<1> QED BY <1>0, <1>1, <1>2 DEF Progress

LEMMA PrefetchKeeps ==
  ASSUME BacktestsInv, NEW s \in Backtested, Backtests!Prefetch(s)
  PROVE  BacktestsInv'
<1> USE DEF BacktestsInv
<1>1. PICK early \in Backtests!Loads, late \in Backtests!Loads, done \in SUBSET Backtests!Of(s) :
        /\ btPending' = btPending \cup (Backtests!Of(s) \ done)
        /\ btBars' = [btBars EXCEPT ![s] = IF Backtests!Of(s) \ done # {} THEN late ELSE -1]
        /\ failed' = failed \cup (IF early < btNow \/ late < btNow THEN {s} ELSE {})
        /\ result' = [e \in Entries |-> result'[e]]
        /\ \A e \in Entries \ done : result'[e] = result[e]
        /\ \A e \in done : \/ result'[e] = disk[e] /\ Backtests!CanShortCircuit(disk[e])
                           \/ /\ result'[e] = Backtests!NoData
                              /\ e.bar > Backtests!Min({early, Backtests!WindowEnd(s)})
  <2>1. PICK warm \in BOOLEAN, early \in Backtests!Loads, late \in Backtests!Loads :
        \E known \in SUBSET (Backtests!Of(s) \cap resolution),
           readable \in SUBSET Backtests!Of(s) :
        LET window == Backtests!Min({early, Backtests!WindowEnd(s)})
            looked == IF window >= 0 THEN Backtests!Of(s) \ known ELSE {}
            beyond == {e \in looked : e.bar > window}
            found  == looked \ beyond
            hits   == {e \in readable \cap (known \cup found) : Backtests!CanShortCircuit(disk[e])}
            done   == IF warm THEN beyond \cup hits ELSE {}
            left   == Backtests!Of(s) \ done
        IN /\ ~warm => /\ early = btNow /\ known = {} /\ readable = {}
                       /\ \A e \in Backtests!Of(s) : disk[e] = None
           /\ left = {} => late = btNow
           /\ resolution' = IF warm THEN resolution \cup found ELSE resolution
           /\ btPending' = btPending \cup left
           /\ btBars' = [btBars EXCEPT ![s] = IF left # {} THEN late ELSE -1]
           /\ failed' = failed \cup (IF early < btNow \/ late < btNow THEN {s} ELSE {})
           /\ result' = [e \in Entries |-> IF e \notin done THEN result[e]
                                           ELSE IF e \in hits THEN disk[e] ELSE Backtests!NoData]
    BY Zenon DEF Backtests!Prefetch
  <2>2. PICK known \in SUBSET (Backtests!Of(s) \cap resolution),
             readable \in SUBSET Backtests!Of(s) :
        LET window == Backtests!Min({early, Backtests!WindowEnd(s)})
            looked == IF window >= 0 THEN Backtests!Of(s) \ known ELSE {}
            beyond == {e \in looked : e.bar > window}
            found  == looked \ beyond
            hits   == {e \in readable \cap (known \cup found) : Backtests!CanShortCircuit(disk[e])}
            done   == IF warm THEN beyond \cup hits ELSE {}
            left   == Backtests!Of(s) \ done
        IN /\ btPending' = btPending \cup left
           /\ btBars' = [btBars EXCEPT ![s] = IF left # {} THEN late ELSE -1]
           /\ failed' = failed \cup (IF early < btNow \/ late < btNow THEN {s} ELSE {})
           /\ result' = [e \in Entries |-> IF e \notin done THEN result[e]
                                           ELSE IF e \in hits THEN disk[e] ELSE Backtests!NoData]
    BY <2>1, Zenon
  <2> DEFINE window == Backtests!Min({early, Backtests!WindowEnd(s)})
             looked == IF window >= 0 THEN Backtests!Of(s) \ known ELSE {}
             beyond == {e \in looked : e.bar > window}
             hits   == {e \in readable \cap (known \cup (looked \ beyond)) :
                          Backtests!CanShortCircuit(disk[e])}
             gone   == IF warm THEN beyond \cup hits ELSE {}
  <2>3. Backtests!Of(s) \subseteq Entries /\ gone \in SUBSET Backtests!Of(s)
    BY DEF Backtests!Of
  <2>4. \A e \in gone : e \in hits \/ e.bar > window
    OBVIOUS
  <2>5. \A e \in hits : Backtests!CanShortCircuit(disk[e])
    OBVIOUS
  <2>6. /\ btPending' = btPending \cup (Backtests!Of(s) \ gone)
        /\ btBars' = [btBars EXCEPT ![s] = IF Backtests!Of(s) \ gone # {} THEN late ELSE -1]
        /\ failed' = failed \cup (IF early < btNow \/ late < btNow THEN {s} ELSE {})
        /\ result' = [e \in Entries |-> IF e \notin gone THEN result[e]
                                        ELSE IF e \in hits THEN disk[e] ELSE Backtests!NoData]
    BY <2>2
  <2> HIDE DEF gone, hits, looked, beyond
  <2>7. \A e \in Entries \ gone : result'[e] = result[e]
    BY <2>6
  <2>8. \A e \in gone : \/ result'[e] = disk[e] /\ Backtests!CanShortCircuit(disk[e])
                        \/ result'[e] = Backtests!NoData /\ e.bar > window
    BY <2>3, <2>4, <2>5, <2>6
  <2>9. result' = [e \in Entries |-> result'[e]]
    BY <2>6
  <2> QED BY <2>3, <2>6, <2>7, <2>8, <2>9
<1>2. /\ btPhase = "prefetch" /\ s \in todo /\ UNCHANGED <<btNow, btJob, since, disk>>
      /\ \/ todo = {s} /\ btPhase' = "evaluate"
         \/ btPhase' = "prefetch" /\ todo' = todo \ {s}
  BY DEF Backtests!Prefetch
<1>3. early \in Int /\ late \in Int /\ early <= btNow /\ late <= btNow /\ btNow \in Int
      /\ since \in Int /\ since <= btNow
  BY DEF Backtests!Loads, BacktestsTyped
<1>4. BacktestsTyped'
  <2>1. Backtests!Of(s) \subseteq Entries
    BY DEF Backtests!Of
  <2>2. -1 <= btNow
    BY <1>3 DEF Backtests!Loads
  <2>3. btBars' \in [Backtested -> Int] /\ \A t \in Backtested : btBars'[t] <= btNow
    BY <1>1, <1>3, <2>2 DEF BacktestsTyped
  <2> QED BY <1>1, <1>2, <1>3, <2>1, <2>3 DEF BacktestsTyped
<1>5. DiskKnown'
  BY <1>2, <1>3, DiskStays
<1>6. failed \subseteq failed' /\ (s \notin failed' => early = btNow /\ late = btNow)
  BY <1>1, <1>3
<1>7. ASSUME NEW e \in Backtests!Of(s) PROVE IF e \in btPending' THEN Current(s)' ELSE Backtests!Sound(e)'
  <2>0. e \in Entries /\ e.symbol = s /\ e \notin btPending
    BY <1>2, <1>7 DEF Backtests!Of, Progress
  <2>1. CASE e \notin done
    <3>1. e \in btPending' /\ btBars'[s] = late
      BY <1>1, <2>1 DEF BacktestsTyped
    <3> QED BY <1>2, <1>3, <1>6, <3>1 DEF Current
  <2>2. CASE e \in done
    <3>0. e \notin btPending'
      BY <1>1, <2>0, <2>2
    <3>1. CASE result'[e] = disk[e] /\ Backtests!CanShortCircuit(disk[e])
      <4>1. Known(e, disk[e]) /\ disk[e].reason = "closed"
        BY <2>0, <3>1 DEF DiskKnown, Backtests!CanShortCircuit
      <4>2. result'[e] # None /\ result'[e].reason = "closed" /\ e.exit <= btNow'
        BY <1>2, <1>3, <2>0, <3>1, <4>1, BacktestAssumption DEF Known
      <4> QED BY <3>0, <4>2 DEF Backtests!Sound
    <3>2. CASE result'[e] = Backtests!NoData
               /\ e.bar > Backtests!Min({early, Backtests!WindowEnd(s)})
      <4>1. e.bar \in Int /\ Backtests!Of(s) # {}
        BY <1>7, <2>0, BacktestAssumption
      <4>2. Backtests!Min({early, Backtests!WindowEnd(s)}) \in {early, btNow, LastAt(s) + SearchDays}
        BY <1>3, <4>1, WindowEnds
      <4>3. s \in failed' \/ e.bar > btNow \/ e.bar > LastAt(s) + SearchDays
        BY <1>6, <3>2, <4>2
      <4>4. s \in failed' \/ Backtests!Late(e) \/ e.bar > since'
        BY <1>2, <1>3, <2>0, <4>1, <4>3 DEF Backtests!Late, LastAt
      <4>5. Backtests!Late(e)' = Backtests!Late(e)
        BY DEF Backtests!Late, Backtests!Of
      <4> QED BY <2>0, <3>0, <3>2, <4>4, <4>5, BacktestAssumption
              DEF Backtests!NoData, Backtests!Sound
    <3> QED BY <1>1, <2>2, <3>1, <3>2
  <2> QED BY <2>1, <2>2
<1>8. ASSUME NEW e \in Entries, e.symbol # s
      PROVE  /\ e \in btPending' <=> e \in btPending
             /\ Current(e.symbol) => Current(e.symbol)'
             /\ Backtests!Sound(e) => Backtests!Sound(e)'
  <2>1. e \notin Backtests!Of(s) /\ e.symbol \in Backtested
    BY <1>8, BacktestAssumption DEF Backtests!Of
  <2>2. e \in btPending' <=> e \in btPending
    BY <1>1, <2>1
  <2>3. btBars'[e.symbol] = btBars[e.symbol] /\ result'[e] = result[e]
    BY <1>1, <1>8, <2>1 DEF BacktestsTyped
  <2>4. Current(e.symbol) => Current(e.symbol)'
    BY <1>2, <1>6, <2>3 DEF Current
  <2> QED BY <1>2, <1>3, <1>6, <2>2, <2>3, <2>4, SoundStays
<1>9. ASSUME NEW e \in Entries, e.symbol # s => e.symbol \notin todo
      PROVE  IF e \in btPending' THEN Current(e.symbol)' ELSE Backtests!Sound(e)'
  BY <1>2, <1>7, <1>8, <1>9 DEF Progress, Backtests!Of
<1>10. Progress'
  <2>1. btJob' \notin {"none", "complete"}
    BY <1>2 DEF Progress
  <2>2. CASE btPhase' = "evaluate" /\ todo = {s}
    <3>1. todo' = Backtested
      BY <1>2, <2>2 DEF Backtests!Prefetch
    <3>2. \A e \in Entries : e.symbol \in todo'
      BY <3>1, BacktestAssumption
    <3>3. \A e \in Entries : IF e \in btPending' THEN Current(e.symbol)' ELSE Backtests!Sound(e)'
      BY <1>9, <2>2
    <3> QED BY <2>1, <2>2, <3>2, <3>3 DEF Progress
  <2>3. CASE btPhase' = "prefetch" /\ todo' = todo \ {s}
    <3>1. \A e \in Entries : e.symbol \in todo' => e \notin btPending'
      BY <1>2, <1>8, <2>3 DEF Progress
    <3>2. \A e \in Entries : e.symbol \notin todo' =>
            IF e \in btPending' THEN Current(e.symbol)' ELSE Backtests!Sound(e)'
      BY <1>9, <2>3
    <3> QED BY <2>1, <2>3, <3>1, <3>2 DEF Progress
  <2> QED BY <1>2, <2>2, <2>3
<1> QED BY <1>4, <1>5, <1>10

LEMMA EvaluateKeeps ==
  ASSUME BacktestsInv, NEW s \in Backtested, Backtests!Evaluate(s)
  PROVE  BacktestsInv'
<1> USE DEF BacktestsInv
<1> DEFINE h == btBars[s]
           there == {e \in Backtests!Of(s) \cap btPending : e.bar <= h}
<1>1. /\ btPhase \in {"evaluate", "serial"} /\ s \in todo /\ todo' = todo \ {s}
      /\ UNCHANGED <<btNow, btJob, btPhase, btPending, since, btBars, failed>>
  BY DEF Backtests!Evaluate
<1>2. h \in Int /\ h <= btNow /\ btNow \in Int
  BY DEF BacktestsTyped
<1>3. PICK readable \in SUBSET there, written \in SUBSET there :
        LET fresh == there \ {e \in readable : Backtests!Valid(e, disk[e], h)} IN
        /\ disk' = [e \in Entries |-> IF e \in fresh \cap written THEN Backtests!Evaluated(e, h)
                                      ELSE disk[e]]
        /\ result' = [e \in Entries |-> IF e \in there \ fresh THEN disk[e]
                                        ELSE IF e \in Backtests!Of(s) \cap btPending
                                             THEN Backtests!Evaluated(e, h)
                                             ELSE result[e]]
  BY Zenon DEF Backtests!Evaluate
<1> DEFINE valid == {e \in readable : Backtests!Valid(e, disk[e], h)}
<1>4. /\ \A e \in Entries : \/ disk'[e] = disk[e]
                            \/ e \in there /\ disk'[e] = Backtests!Evaluated(e, h)
      /\ \A e \in Entries : IF e \in valid THEN result'[e] = disk[e]
                            ELSE IF e \in Backtests!Of(s) \cap btPending
                                 THEN result'[e] = Backtests!Evaluated(e, h)
                                 ELSE result'[e] = result[e]
      /\ disk' = [e \in Entries |-> disk'[e]] /\ result' = [e \in Entries |-> result'[e]]
  BY <1>3
<1>5. BacktestsTyped'
  BY <1>1, <1>4 DEF BacktestsTyped
<1>6. DiskKnown'
  <2>1. ASSUME NEW e \in there PROVE Known(e, Backtests!Evaluated(e, h))
    BY <1>2, <2>1, EvaluatedKnown DEF Backtests!Of
  <2>2. \A e \in Entries : disk[e] = None \/ Known(e, disk[e])
    BY DEF DiskKnown
  <2>3. \A e \in Entries : disk'[e] = None \/ Known(e, disk'[e])
    BY <1>4, <2>1, <2>2
  <2> QED BY <1>1, <2>3 DEF DiskKnown, Known
<1>7. ASSUME NEW e \in Entries, e.symbol = s PROVE Backtests!Sound(e)'
  <2>1. e \in Backtests!Of(s)
    BY <1>7 DEF Backtests!Of
  <2>2. CASE e \notin btPending
    <3>1. Backtests!Sound(e)
      BY <1>1, <2>2 DEF Progress
    <3>2. result'[e] = result[e]
      BY <1>4, <2>2
    <3> QED BY <1>1, <1>2, <3>1, <3>2, SoundStays
  <2>3. CASE e \in btPending
    <3>1. e.symbol \in failed' \/ since' <= h
      BY <1>1, <1>7, <2>3 DEF Progress, Current
    <3>2. CASE e \in valid
      <4>1. result'[e] = disk[e] /\ Backtests!Valid(e, disk[e], h)
        BY <1>4, <3>2
      <4>2. Known(e, disk[e])
        BY <4>1 DEF DiskKnown, Backtests!Valid
      <4>3. disk[e].reason = "closed" \/ disk[e].end = h
        BY <4>1 DEF Backtests!Valid
      <4>4. e.exit \in Int
        BY BacktestAssumption
      <4>5. disk[e].reason = "closed" => e.exit <= btNow'
        BY <1>1, <1>2, <4>2, <4>4 DEF Known
      <4>6. disk[e] # None
        BY <4>2, BacktestAssumption DEF Known
      <4> QED BY <3>1, <4>1, <4>2, <4>3, <4>5, <4>6 DEF Known, Backtests!Sound
    <3>3. CASE e \notin valid
      <4>1. result'[e] = Backtests!Evaluated(e, h)
        BY <1>4, <2>1, <2>3, <3>3
      <4>2. btNow' \in Int /\ h <= btNow'
        BY <1>1, <1>2
      <4> HIDE DEF h
      <4> QED BY <1>2, <1>5, <3>1, <4>1, <4>2, EvaluatedSound
    <3> QED BY <3>2, <3>3
  <2> QED BY <2>2, <2>3
<1>8. ASSUME NEW e \in Entries, e.symbol # s
      PROVE  Backtests!Sound(e) => Backtests!Sound(e)'
  <2>1. result'[e] = result[e]
    BY <1>3, <1>4, <1>8 DEF Backtests!Of
  <2> QED BY <1>1, <1>2, <2>1, SoundStays
<1>9. Progress'
  <2>1. \A t : Current(t)' <=> Current(t)
    BY <1>1 DEF Current
  <2>2. btJob' \notin {"none", "complete"}
    BY <1>1 DEF Progress
  <2>3. \A e \in Entries : e \in btPending' => Current(e.symbol)'
    BY <1>1, <2>1 DEF Progress
  <2>4. \A e \in Entries : e \notin btPending' \/ e.symbol \notin todo' => Backtests!Sound(e)'
    BY <1>1, <1>7, <1>8 DEF Progress
  <2> QED BY <1>1, <2>2, <2>3, <2>4 DEF Progress
<1> QED BY <1>5, <1>6, <1>9

LEMMA BacktestsNext ==
  ASSUME BacktestsInv, Backtests!Next \/ UNCHANGED runVars
  PROVE  BacktestsInv'
<1> USE DEF BacktestsInv
<1>0. btNow \in Int
  BY DEF BacktestsTyped
<1>1. CASE Backtests!TimePasses
  <2>1. btNow' = btNow + 1 /\ UNCHANGED <<btJob, btPhase, todo, btPending, since, btBars, failed,
                                          result, disk>>
    BY <1>1 DEF Backtests!TimePasses, Backtests!runVars
  <2>2. btNow' \in Int /\ btNow <= btNow' /\ \A n \in Int : n <= btNow => n <= btNow'
    BY <1>0, <2>1
  <2>3. BacktestsTyped'
    BY <2>1, <2>2 DEF BacktestsTyped
  <2> QED BY <2>1, <2>2, <2>3, DiskStays, ProgressStays
<1>2. CASE Backtests!Request
  <2>1. btPhase' = "prefetch" /\ btJob' = "running" /\ todo' = Backtested /\ btPending = {}
        /\ since' = btNow /\ UNCHANGED <<btNow, btPending, btBars, failed, result, disk>>
    BY <1>2 DEF Backtests!Request, Progress
  <2>2. BacktestsTyped' /\ DiskKnown'
    BY <1>0, <2>1 DEF BacktestsTyped, DiskKnown, Known
  <2> QED BY <2>1, <2>2, BacktestAssumption DEF Progress
<1>3. CASE Backtests!Abort \/ Backtests!Prune
  <2>1. btJob' \notin {"none", "complete"} /\ UNCHANGED <<btNow, disk>>
        /\ UNCHANGED <<btPhase, todo, btPending, since, btBars, failed, result>>
    BY <1>3 DEF Backtests!Abort, Backtests!Prune, Backtests!runVars
  <2>2. BacktestsTyped'
    BY <2>1 DEF BacktestsTyped
  <2> QED BY <1>0, <2>1, <2>2, DiskStays, ProgressStays
<1>4. ASSUME NEW e \in Entries, NEW h \in Backtests!Days, Backtests!OtherRun(e, h)
      PROVE  BacktestsInv'
  <2>1. /\ UNCHANGED <<btNow, btJob, btPhase, todo, btPending, since, btBars, failed, result>>
        /\ e.bar <= h /\ h <= btNow /\ h \in Int
        /\ disk' \in {disk, [disk EXCEPT ![e] = Backtests!Evaluated(e, h)]}
    BY <1>4, BacktestAssumption DEF Backtests!OtherRun, Backtests!runVars, Backtests!Days
  <2>2. BacktestsTyped'
    BY <2>1 DEF BacktestsTyped
  <2>3. Known(e, Backtests!Evaluated(e, h))
    BY <1>0, <2>1, EvaluatedKnown
  <2>4. \A d \in Entries : \/ disk'[d] = disk[d]
                           \/ d = e /\ disk'[d] = Backtests!Evaluated(e, h)
    BY <2>1 DEF BacktestsTyped
  <2>5. \A d \in Entries : disk'[d] = None \/ Known(d, disk'[d])
    BY <2>3, <2>4 DEF DiskKnown
  <2>6. DiskKnown'
    BY <2>1, <2>5 DEF DiskKnown, Known
  <2> QED BY <1>0, <2>1, <2>2, <2>6, ProgressStays
<1>5. CASE Backtests!FallBack
  <2>1. /\ btPhase = "evaluate" /\ btPhase' = "serial" /\ todo' = Backtested
        /\ UNCHANGED <<btNow, btJob, btPending, since, btBars, failed, result, disk>>
    BY <1>5 DEF Backtests!FallBack
  <2>2. BacktestsTyped'
    BY <2>1 DEF BacktestsTyped
  <2>3. \A e \in Entries : Backtests!Sound(e) => Backtests!Sound(e)'
    BY <1>0, <2>1, SoundStays
  <2>4. \A s : Current(s)' <=> Current(s)
    BY <2>1 DEF Current
  <2>5. Progress'
    BY <2>1, <2>3, <2>4, BacktestAssumption DEF Progress
  <2> QED BY <1>0, <2>1, <2>2, <2>5, DiskStays
<1>6. CASE Backtests!Finish \/ Backtests!Fail
  <2>1. /\ btPhase \in {"prefetch", "evaluate", "serial"} /\ btPhase' = "ended" /\ todo' = {}
        /\ \/ btJob' \in {btJob, "error"}
           \/ btPhase \in {"evaluate", "serial"} /\ todo = {}
        /\ btJob' = "none" => btJob = "none"
        /\ UNCHANGED <<btNow, btPending, since, btBars, failed, result, disk>>
    BY <1>6 DEF Backtests!Finish, Backtests!Fail, Backtests!Ends
  <2>2. BacktestsTyped'
    BY <2>1 DEF BacktestsTyped
  <2>3. \A e \in Entries : Backtests!Sound(e) => Backtests!Sound(e)'
    BY <1>0, <2>1, SoundStays
  <2>4. btJob' = "complete" => \A e \in Entries : Backtests!Sound(e)
    BY <2>1 DEF Progress
  <2>5. btJob' # "none"
    BY <2>1 DEF Progress
  <2>6. Progress'
    BY <2>1, <2>3, <2>4, <2>5 DEF Progress
  <2> QED BY <1>0, <2>1, <2>2, <2>6, DiskStays
<1>7. CASE UNCHANGED runVars
  <2>1. UNCHANGED <<btNow, btJob, btPhase, todo, btPending, since, btBars, failed, result, disk>>
    BY <1>7 DEF runVars
  <2>2. BacktestsTyped'
    BY <2>1 DEF BacktestsTyped
  <2> QED BY <1>0, <2>1, <2>2, DiskStays, ProgressStays
<1> QED BY <1>1, <1>2, <1>3, <1>4, <1>5, <1>6, <1>7, PrefetchKeeps, EvaluateKeeps DEF Backtests!Next

(* When a backtest completes, every entry has a result as new as the run,  *)
(* whatever the cache had, other runs wrote and the order was in which     *)
(* symbols came back, and also if it fell back to one process in the       *)
(* middle (run_backtest, _prefetch_symbol_backtest_job): for any entries,  *)
(* bars, window and time.                                                  *)
THEOREM ResultsAreFresh == Spec => []ResultsFresh
<1> DEFINE Inv == part = "backtests" => BacktestsInv
<1>1. Init => Inv
  BY BacktestsInitially DEF Init
<1>2. Inv /\ [Next]_vars => Inv'
  <2> SUFFICES ASSUME Inv, [Next]_vars, part' = "backtests" PROVE BacktestsInv'
    OBVIOUS
  <2>1. part = "backtests"
    BY DEF Next, vars
  <2> QED BY <2>1, BacktestsStep, BacktestsNext
<1>3. Inv => ResultsFresh
  BY DEF ResultsFresh, Backtests!ResultsFresh, BacktestsInv, Progress
<1> QED BY <1>1, <1>2, <1>3, PTL DEF Spec

-----------------------------------------------------------------------------
(* The snapshots.                                                          *)

LEMMA SnapshotsStep ==
  ASSUME [Next]_vars, part = "snapshots"
  PROVE  part' = "snapshots" /\ (Snapshots!Next \/ UNCHANGED fieldVars)
BY DEF Next, NextBacktest, NextDelta, NextPrice, NextRecord, vars, recordVars

Metrics == {None, "captured", "historical"}

Seals == [pc : {"open", "stored", "done"}, metric : Metrics]

SnapshotRows == [metric : Metrics, at : BOOLEAN, ten : BOOLEAN]

Docs == {Snapshots!Absent} \cup [is : {"doc"}, metric : Metrics]

PriceFields == {<<"at">>, <<"ten">>, <<"at", "ten">>}

(* What a row, or a file, of snapshot s may have in it.                    *)
Agrees(s, m) == sealed[s].metric # None => m = sealed[s].metric

RowFits(s, r) == r \in SnapshotRows /\ sealed[s].pc # "open" /\ Agrees(s, r.metric)

DocFits(s, d) ==
  d \in Docs /\ (d = Snapshots!Absent \/ (sealed[s].pc # "open" /\ Agrees(s, d.metric)))

Adding == {Snapshots!Free} \cup [pc : {"read"}, id : Ids, plan : PriceFields]
          \cup [pc : {"write"}, id : Ids, plan : PriceFields, copy : SnapshotRows]

Moving == {Snapshots!Free} \cup [pc : {"open"}, zip : [Ids -> Docs], file : Ids \cup {None},
                                 replaced : BOOLEAN]

Rewriting == [pc : {"rows"}, copy : [Ids -> {None} \cup SnapshotRows],
              place : [Ids -> {"live", "zip", "none"}], todo : SUBSET Ids,
              zip : UNION {[D -> Docs] : D \in SUBSET Ids}]

Replacing == [pc : {"replace"}, zip : [Ids -> Docs]]

SnapshotsTyped ==
  /\ sealed \in [Ids -> Seals] /\ fields \in [Ids -> {None} \cup SnapshotRows]
  /\ jsonFile \in [Ids -> Docs] /\ zip \in [Ids -> Docs]
  /\ adding \in [Collectors -> Adding] /\ mover \in Moving
  /\ script \in {Snapshots!Free} \cup Rewriting \cup Replacing
  /\ clash \in BOOLEAN

(* Whatever has a copy of a row, or of a file, has one that fits.          *)
CopiesFit ==
  /\ \A s \in Ids : /\ fields[s] # None => RowFits(s, fields[s])
                    /\ DocFits(s, jsonFile[s]) /\ DocFits(s, zip[s])
                    /\ mover # Snapshots!Free => DocFits(s, mover.zip[s])
  /\ \A c \in Collectors :
       /\ adding[c].pc \in {"read", "write"} => RowFits(adding[c].id, fields[adding[c].id])
       /\ adding[c].pc = "write" => RowFits(adding[c].id, adding[c].copy)
  /\ script.pc = "rows" => /\ \A s \in script.todo : RowFits(s, script.copy[s])
                           /\ \A s \in DOMAIN script.zip : DocFits(s, script.zip[s])
  /\ script.pc = "replace" => \A s \in Ids : DocFits(s, script.zip[s])

(* The archive that is being written has what the archive has, unless that *)
(* was replaced; and the file that is being moved.  The copy that replaces *)
(* an archive has what that has, unless it was written meanwhile.          *)
FilesKept ==
  /\ mover # Snapshots!Free =>
       /\ mover.file # None => mover.zip[mover.file] # Snapshots!Absent
       /\ ~mover.replaced =>
            \A s \in Ids : zip[s] # Snapshots!Absent => mover.zip[s] # Snapshots!Absent
  /\ script.pc = "rows" => \A s \in DOMAIN script.zip : script.zip[s] # Snapshots!Absent
  /\ script.pc = "replace" /\ ~clash =>
       \A s \in Ids : zip[s] # Snapshots!Absent => script.zip[s] # Snapshots!Absent
  /\ ~clash => \A s \in Ids : sealed[s].pc = "done" =>
       \/ jsonFile[s] # Snapshots!Absent \/ zip[s] # Snapshots!Absent
       \/ mover # Snapshots!Free /\ (mover.replaced \/ mover.zip[s] # Snapshots!Absent)

SnapshotsInv == SnapshotsTyped /\ CopiesFit /\ FilesKept

LEMMA SnapshotsInitially == Snapshots!Init => SnapshotsInv
<1> SUFFICES ASSUME Snapshots!Init PROVE SnapshotsInv
  OBVIOUS
<1>1. /\ fields = [s \in Ids |-> None] /\ jsonFile = [s \in Ids |-> Snapshots!Absent]
      /\ zip = jsonFile /\ adding = [c \in Collectors |-> Snapshots!Free]
      /\ mover = Snapshots!Free /\ script = Snapshots!Free /\ clash = FALSE
      /\ sealed = [s \in Ids |-> [pc |-> "open", metric |-> None]]
  BY DEF Snapshots!Init
<1>2. SnapshotsTyped
  BY <1>1 DEF SnapshotsTyped, Seals, Docs, Adding, Moving, Metrics
<1>3. Snapshots!Free.pc = "free"
  BY DEF Snapshots!Free
<1>4. CopiesFit
  BY <1>1, <1>3 DEF CopiesFit, DocFits, Docs
<1>5. FilesKept
  BY <1>1, <1>3 DEF FilesKept
<1> QED BY <1>2, <1>4, <1>5 DEF SnapshotsInv

(* A seal is only opened once, and what it captured stays.                 *)
SealsMove == \A s \in Ids : sealed[s].pc # "open" =>
                              sealed'[s].pc # "open" /\ sealed'[s].metric = sealed[s].metric

LEMMA FitsStay ==
  ASSUME SealsMove, NEW s \in Ids
  PROVE  /\ \A d : DocFits(s, d) => DocFits(s, d)'
         /\ \A r : RowFits(s, r) => RowFits(s, r)'
BY DEF SealsMove, DocFits, RowFits, Agrees

LEMMA DocsDiffer ==
  /\ Snapshots!Absent \in Docs
  /\ \A m : Snapshots!Doc(m) # Snapshots!Absent /\ Snapshots!Doc(m).metric = m
  /\ \A m \in Metrics : Snapshots!Doc(m) \in Docs
BY DEF Snapshots!Absent, Snapshots!Doc, Docs

LEMMA FreeDiffers ==
  /\ \A m \in Moving : m = Snapshots!Free \/ m.pc = "open"
  /\ Snapshots!Free.pc = "free"
BY DEF Moving, Snapshots!Free

LEMMA FilledFits ==
  ASSUME SnapshotsTyped, NEW s \in Ids, NEW r, RowFits(s, r)
  PROVE  /\ RowFits(s, [r EXCEPT !.metric = Snapshots!Filled(@)])
         /\ DocFits(s, Snapshots!Doc(Snapshots!Filled(r.metric)))
         /\ Snapshots!Filled(r.metric) \in Metrics
<1>1. Snapshots!Filled(r.metric) \in Metrics /\ Agrees(s, Snapshots!Filled(r.metric))
  BY DEF RowFits, SnapshotRows, Metrics, Agrees, Snapshots!Filled
<1>2. [r EXCEPT !.metric = Snapshots!Filled(@)] \in SnapshotRows
      /\ [r EXCEPT !.metric = Snapshots!Filled(@)].metric = Snapshots!Filled(r.metric)
  BY <1>1 DEF RowFits, SnapshotRows
<1> QED BY <1>1, <1>2, DocsDiffer DEF RowFits, DocFits

LEMMA PriceFieldsTyped ==
  /\ Snapshots!Plans \subseteq PriceFields /\ <<"ten">> \in PriceFields /\ <<>> \notin PriceFields
  /\ \A p \in PriceFields : /\ Head(p) \in {"at", "ten"}
                            /\ Tail(p) = <<>> \/ Tail(p) \in PriceFields
BY DEF Snapshots!Plans, PriceFields

(* The seal, and those that add prices.                                    *)
LEMMA SealKeeps ==
  ASSUME SnapshotsInv, NEW s \in Ids, Snapshots!Insert(s) \/ Snapshots!Persist(s)
  PROVE  SnapshotsInv'
<1> USE DEF SnapshotsInv
<1>1. SealsMove /\ UNCHANGED <<zip, adding, mover, script, clash>>
  BY DEF Snapshots!Insert, Snapshots!Persist, SnapshotsTyped, Seals, SealsMove
<1>2. CASE Snapshots!Insert(s)
  <2>1. PICK m \in {None, "captured"} :
          /\ sealed' = [sealed EXCEPT ![s] = [pc |-> "stored", metric |-> m]]
          /\ fields' = [fields EXCEPT ![s] = [metric |-> m, at |-> FALSE, ten |-> FALSE]]
          /\ UNCHANGED jsonFile
    BY <1>2 DEF Snapshots!Insert
  <2>2. SnapshotsTyped'
    BY <1>1, <2>1 DEF SnapshotsTyped, Seals, SnapshotRows, Metrics
  <2>3. RowFits(s, fields[s])'
    BY <2>1 DEF SnapshotsTyped, RowFits, SnapshotRows, Metrics, Agrees
  <2>4. CopiesFit'
    <3>1. \A t \in Ids : fields'[t] # None => RowFits(t, fields[t])'
      BY <1>1, <2>1, <2>3, FitsStay DEF SnapshotsTyped, CopiesFit
    <3>2. \A t \in Ids : t # s => fields'[t] = fields[t]
      BY <2>1 DEF SnapshotsTyped
    <3>3. \A c \in Collectors : adding[c].pc \in {"read", "write"} =>
             adding[c].id \in Ids /\ adding[c].id # s
      BY <1>2 DEF Snapshots!Insert, CopiesFit, RowFits, SnapshotsTyped, Adding, Snapshots!Free
    <3>4. script.pc = "rows" => script.todo \subseteq Ids /\ DOMAIN script.zip \subseteq Ids
      BY DEF SnapshotsTyped, Rewriting, Replacing, Snapshots!Free
    <3>5. \A c \in Collectors :
            /\ adding[c].pc \in {"read", "write"} => RowFits(adding[c].id, fields[adding[c].id])'
            /\ adding[c].pc = "write" => RowFits(adding[c].id, adding[c].copy)'
      BY <1>1, <3>2, <3>3, FitsStay DEF CopiesFit, SealsMove
    <3> QED BY <1>1, <2>1, <3>1, <3>4, <3>5, FitsStay DEF CopiesFit
  <2>5. FilesKept'
    BY <1>1, <2>1 DEF FilesKept, SnapshotsTyped
  <2> QED BY <2>2, <2>4, <2>5
<1>3. CASE Snapshots!Persist(s)
  <2>1. /\ sealed[s].pc = "stored" /\ sealed' = [sealed EXCEPT ![s].pc = "done"]
        /\ jsonFile' = [jsonFile EXCEPT ![s] = Snapshots!Doc(sealed[s].metric)]
        /\ UNCHANGED fields
    BY <1>3 DEF Snapshots!Persist
  <2>2. sealed[s].metric \in Metrics /\ sealed'[s].metric = sealed[s].metric
        /\ sealed'[s].pc = "done" /\ sealed' \in [Ids -> Seals]
    BY <2>1 DEF SnapshotsTyped, Seals
  <2>3. SnapshotsTyped'
    BY <1>1, <2>1, <2>2, DocsDiffer DEF SnapshotsTyped
  <2>4. DocFits(s, jsonFile[s])'
    BY <2>1, <2>2, DocsDiffer DEF SnapshotsTyped, DocFits, Agrees
  <2>5. CopiesFit'
    <3>1. \A t \in Ids : DocFits(t, jsonFile[t])'
      BY <1>1, <2>1, <2>4, FitsStay DEF SnapshotsTyped, CopiesFit
    <3>2. script.pc = "rows" => script.todo \subseteq Ids /\ DOMAIN script.zip \subseteq Ids
      BY DEF SnapshotsTyped, Rewriting, Replacing, Snapshots!Free
    <3>3. \A c \in Collectors : adding[c].pc \in {"read", "write"} => adding[c].id \in Ids
      BY DEF SnapshotsTyped, Adding, Snapshots!Free
    <3>4. \A c \in Collectors :
            /\ adding[c].pc \in {"read", "write"} => RowFits(adding[c].id, fields[adding[c].id])'
            /\ adding[c].pc = "write" => RowFits(adding[c].id, adding[c].copy)'
      BY <1>1, <2>1, <3>3, FitsStay DEF CopiesFit
    <3> QED BY <1>1, <2>1, <3>1, <3>2, <3>4, FitsStay DEF CopiesFit
  <2>6. FilesKept'
    BY <1>1, <2>1, DocsDiffer DEF FilesKept, SnapshotsTyped
  <2> QED BY <2>3, <2>5, <2>6
<1> QED BY <1>2, <1>3

LEMMA AddingKeeps ==
  ASSUME SnapshotsInv, NEW c \in Collectors,
         \/ \E s \in Ids : Snapshots!Begin(c, s) \/ Snapshots!Backfill(c, s)
         \/ Snapshots!ReadRow(c)
  PROVE  SnapshotsInv'
<1> USE DEF SnapshotsInv
<1>1. UNCHANGED <<sealed, fields, jsonFile, zip, mover, script, clash>>
  BY DEF Snapshots!Begin, Snapshots!Backfill, Snapshots!Adds, Snapshots!ReadRow
<1>2. PICK a \in Adding :
        /\ adding' = [adding EXCEPT ![c] = a]
        /\ a.pc \in {"read", "write"} => RowFits(a.id, fields[a.id])
        /\ a.pc = "write" => RowFits(a.id, a.copy)
  <2>1. ASSUME NEW s \in Ids, Snapshots!Begin(c, s) \/ Snapshots!Backfill(c, s)
        PROVE  \E p \in PriceFields :
                 /\ adding' = [adding EXCEPT ![c] = [pc |-> "read", id |-> s, plan |-> p]]
                 /\ fields[s] # None
    BY <2>1, PriceFieldsTyped DEF Snapshots!Begin, Snapshots!Backfill, Snapshots!Adds
  <2>2. ASSUME NEW s \in Ids, NEW p \in PriceFields, fields[s] # None
        PROVE  /\ [pc |-> "read", id |-> s, plan |-> p] \in Adding
               /\ RowFits(s, fields[s])
    BY <2>2 DEF Adding, CopiesFit
  <2>3. CASE \E s \in Ids : Snapshots!Begin(c, s) \/ Snapshots!Backfill(c, s)
    BY <2>1, <2>2, <2>3
  <2>4. CASE Snapshots!ReadRow(c)
    <3>1. adding[c] \in [pc : {"read"}, id : Ids, plan : PriceFields]
      BY <2>4 DEF Snapshots!ReadRow, SnapshotsTyped, Adding, Snapshots!Free
    <3> DEFINE a == [pc |-> "write", id |-> adding[c].id, plan |-> adding[c].plan,
                     copy |-> fields[adding[c].id]]
    <3>2. RowFits(a.id, a.copy) /\ a.copy = fields[a.id]
      BY <3>1 DEF CopiesFit
    <3>3. a \in Adding
      BY <3>1, <3>2 DEF Adding, RowFits
    <3>4. adding' = [adding EXCEPT ![c] = a]
      BY <2>4 DEF Snapshots!ReadRow, SnapshotsTyped
    <3> QED BY <3>2, <3>3, <3>4
  <2> QED BY <2>3, <2>4
<1>3. SnapshotsTyped'
  BY <1>1, <1>2 DEF SnapshotsTyped
<1>4. CopiesFit'
  BY <1>1, <1>2 DEF SnapshotsTyped, CopiesFit, DocFits, RowFits, Agrees
<1>5. FilesKept'
  BY <1>1 DEF FilesKept
<1> QED BY <1>3, <1>4, <1>5

LEMMA WriteFieldKeeps ==
  ASSUME SnapshotsInv, NEW c \in Collectors, Snapshots!WriteField(c)
  PROVE  SnapshotsInv'
<1> USE DEF SnapshotsInv
<1>0. PICK s \in Ids : s = adding[c].id
  BY DEF Snapshots!WriteField, SnapshotsTyped, Adding, Snapshots!Free
<1> DEFINE r == [adding[c].copy EXCEPT ![Head(adding[c].plan)] = TRUE]
<1>1. /\ UNCHANGED <<sealed, jsonFile, zip, mover, script, clash>>
      /\ fields' = [fields EXCEPT ![s] = r]
  BY <1>0 DEF Snapshots!WriteField
<1>2. adding[c] \in [pc : {"write"}, id : Ids, plan : PriceFields, copy : SnapshotRows]
  BY DEF Snapshots!WriteField, SnapshotsTyped, Adding, Snapshots!Free
<1>3. r \in SnapshotRows /\ r.metric = adding[c].copy.metric
  BY <1>2, PriceFieldsTyped DEF SnapshotRows
<1>4. RowFits(s, r)
  BY <1>0, <1>2, <1>3 DEF CopiesFit, RowFits
<1>5. PICK a \in Adding : /\ adding' = [adding EXCEPT ![c] = a]
                          /\ a.pc = "free" \/ (a.pc = "read" /\ a.id = s)
  <2>1. CASE Tail(adding[c].plan) = <<>>
    <3>1. adding' = [adding EXCEPT ![c] = Snapshots!Free]
      BY <2>1 DEF Snapshots!WriteField, SnapshotsTyped
    <3>2. Snapshots!Free \in Adding /\ Snapshots!Free.pc = "free"
      BY DEF Adding, Snapshots!Free
    <3> QED BY <3>1, <3>2
  <2>2. CASE Tail(adding[c].plan) \in PriceFields
    <3>1. Tail(adding[c].plan) # <<>>
      BY <2>2, PriceFieldsTyped
    <3>2. adding' = [adding EXCEPT ![c] = [pc |-> "read", id |-> s,
                                           plan |-> Tail(adding[c].plan)]]
      BY <1>0, <3>1 DEF Snapshots!WriteField, SnapshotsTyped
    <3>3. [pc |-> "read", id |-> s, plan |-> Tail(adding[c].plan)] \in Adding
      BY <1>2, <2>2 DEF Adding
    <3> QED BY <3>2, <3>3
  <2> QED BY <1>2, <2>1, <2>2, PriceFieldsTyped
<1> HIDE DEF r
<1>6. SnapshotsTyped'
  BY <1>1, <1>3, <1>5 DEF SnapshotsTyped
<1>7. CopiesFit'
  <2>1. \A t \in Ids : fields'[t] = IF t = s THEN r ELSE fields[t]
    BY <1>1 DEF SnapshotsTyped
  <2>2. \A t \in Ids : fields'[t] = fields[t] \/ RowFits(t, fields[t])'
    BY <1>1, <1>4, <2>1 DEF RowFits, Agrees
  <2>3. \A d \in Collectors : adding'[d] = adding[d] \/ adding'[d].pc = "free"
                               \/ (adding'[d].pc = "read" /\ adding'[d].id = s)
    BY <1>5 DEF SnapshotsTyped
  <2>4. \A d \in Collectors : adding'[d].pc = "write" => RowFits(adding[d].id, adding[d].copy)'
    BY <1>1, <2>3 DEF CopiesFit, RowFits, Agrees
  <2>5. \A t \in Ids : RowFits(t, fields[t]) => RowFits(t, fields[t])'
    BY <1>1, <2>2 DEF RowFits, Agrees
  <2>6. RowFits(s, fields[s])'
    BY <1>1, <1>4, <2>1 DEF RowFits, Agrees
  <2>7. \A d \in Collectors : adding[d].pc \in {"read", "write"} => adding[d].id \in Ids
    BY DEF SnapshotsTyped, Adding, Snapshots!Free
  <2>8. \A d \in Collectors : adding'[d].pc \in {"read", "write"} =>
           RowFits(adding[d].id, fields[adding[d].id])'
    <3> SUFFICES ASSUME NEW d \in Collectors, adding'[d].pc \in {"read", "write"}
                 PROVE  RowFits(adding[d].id, fields[adding[d].id])'
      OBVIOUS
    <3>1. CASE adding'[d] = adding[d]
      <4>1. adding[d].id \in Ids /\ RowFits(adding[d].id, fields[adding[d].id])
        BY <2>7, <3>1 DEF CopiesFit
      <4> QED BY <2>5, <3>1, <4>1
    <3>2. CASE adding'[d].id = s
      BY <2>6, <3>2
    <3> QED BY <2>3, <3>1, <3>2
  <2>9. \A t \in Ids : fields'[t] # None => RowFits(t, fields[t])'
    BY <2>2, <2>5 DEF CopiesFit
  <2> QED BY <1>1, <2>4, <2>8, <2>9 DEF CopiesFit, DocFits, RowFits, Agrees
<1>8. FilesKept'
  BY <1>1 DEF FilesKept
<1> QED BY <1>6, <1>7, <1>8

(* The archiver.                                                           *)
LEMMA ArchiverKeeps ==
  ASSUME SnapshotsInv,
         \/ Snapshots!OpenArchive \/ Snapshots!Unlink \/ Snapshots!Close
         \/ \E s \in Ids : Snapshots!Add(s)
  PROVE  SnapshotsInv'
<1> USE DEF SnapshotsInv
<1>0. UNCHANGED <<sealed, fields, adding, script>>
  BY DEF Snapshots!OpenArchive, Snapshots!Unlink, Snapshots!Close, Snapshots!Add
<1>f. \A s \in Ids : /\ \A d : DocFits(s, d)' <=> DocFits(s, d)
                     /\ \A r : RowFits(s, r)' <=> RowFits(s, r)
  BY <1>0 DEF DocFits, RowFits, Agrees
<1>g. ASSUME \A s \in Ids : DocFits(s, jsonFile[s])' /\ DocFits(s, zip[s])',
             mover' # Snapshots!Free => \A s \in Ids : DocFits(s, mover.zip[s])'
      PROVE  CopiesFit'
  <2>1. script.pc = "rows" => script.todo \subseteq Ids /\ DOMAIN script.zip \subseteq Ids
    BY DEF SnapshotsTyped, Rewriting, Replacing, Snapshots!Free
  <2>2. \A c \in Collectors : adding[c].pc \in {"read", "write"} => adding[c].id \in Ids
    BY DEF SnapshotsTyped, Adding, Snapshots!Free
  <2> QED BY <1>0, <1>f, <1>g, <2>1, <2>2 DEF CopiesFit
<1>1. CASE Snapshots!OpenArchive
  <2>1. /\ mover' = [pc |-> "open", zip |-> zip, file |-> None, replaced |-> FALSE]
        /\ UNCHANGED <<jsonFile, zip, clash>> /\ mover = Snapshots!Free
    BY <1>1 DEF Snapshots!OpenArchive
  <2>2. mover' \in Moving
    BY <2>1 DEF Moving, SnapshotsTyped
  <2>3. SnapshotsTyped'
    BY <1>0, <2>1, <2>2 DEF SnapshotsTyped
  <2>4. CopiesFit'
    BY <1>f, <1>g, <2>1 DEF CopiesFit
  <2>5. FilesKept'
    BY <1>0, <2>1 DEF FilesKept
  <2> QED BY <2>3, <2>4, <2>5
<1>2. ASSUME NEW s \in Ids, Snapshots!Add(s) PROVE SnapshotsInv'
  <2>0. mover \in [pc : {"open"}, zip : [Ids -> Docs], file : Ids \cup {None},
                   replaced : BOOLEAN]
    <3>1. mover.pc = "open"
      BY <1>2, Zenon DEF Snapshots!Add
    <3> QED BY <3>1 DEF SnapshotsTyped, Moving, Snapshots!Free
  <2>1. /\ UNCHANGED <<jsonFile, zip, clash>> /\ jsonFile[s] # Snapshots!Absent
        /\ mover' = [mover EXCEPT !.file = s,
                                  !.zip[s] = IF @ = Snapshots!Absent THEN jsonFile[s] ELSE @]
    BY <1>2, Zenon DEF Snapshots!Add
  <2>2. /\ mover' \in Moving /\ mover'.file = s /\ mover'.replaced = mover.replaced
        /\ \A t \in Ids : mover'.zip[t] = IF t = s /\ mover.zip[t] = Snapshots!Absent
                                          THEN jsonFile[s] ELSE mover.zip[t]
        /\ mover.pc = "open" /\ mover'.pc = "open"
    BY <2>0, <2>1 DEF Moving, SnapshotsTyped
  <2>3. mover # Snapshots!Free /\ mover' # Snapshots!Free
    BY <2>2, FreeDiffers
  <2>4. SnapshotsTyped'
    BY <1>0, <2>1, <2>2 DEF SnapshotsTyped
  <2>5. CopiesFit'
    BY <1>f, <1>g, <2>1, <2>2, <2>3 DEF CopiesFit
  <2>6. FilesKept'
    BY <1>0, <2>1, <2>2, <2>3 DEF FilesKept
  <2> QED BY <2>4, <2>5, <2>6
<1>3. CASE Snapshots!Unlink
  <2>1. /\ UNCHANGED <<zip, clash>> /\ mover.file # None
        /\ jsonFile' = [jsonFile EXCEPT ![mover.file] = Snapshots!Absent]
        /\ mover \in [pc : {"open"}, zip : [Ids -> Docs], file : Ids \cup {None},
                      replaced : BOOLEAN]
        /\ mover' = [mover EXCEPT !.file = None]
    BY <1>3 DEF Snapshots!Unlink, SnapshotsTyped, Moving, Snapshots!Free
  <2>2. /\ mover' \in Moving /\ mover'.file = None /\ mover'.replaced = mover.replaced
        /\ mover'.zip = mover.zip /\ mover.pc = "open" /\ mover'.pc = "open"
    BY <2>1 DEF Moving
  <2>3. mover # Snapshots!Free /\ mover' # Snapshots!Free
    BY <2>2, FreeDiffers
  <2>4. \A s \in Ids : \/ jsonFile'[s] = jsonFile[s]
                       \/ s = mover.file /\ jsonFile'[s] = Snapshots!Absent
    BY <2>1 DEF SnapshotsTyped
  <2>5. SnapshotsTyped'
    BY <1>0, <2>1, <2>2, DocsDiffer DEF SnapshotsTyped
  <2>6. \A s \in Ids : DocFits(s, Snapshots!Absent)
    BY DocsDiffer DEF DocFits
  <2>7. CopiesFit'
    BY <1>f, <1>g, <2>1, <2>2, <2>3, <2>4, <2>6 DEF CopiesFit
  <2>8. FilesKept'
    BY <1>0, <2>1, <2>2, <2>3, <2>4 DEF FilesKept
  <2> QED BY <2>5, <2>7, <2>8
<1>4. CASE Snapshots!Close
  <2>1. /\ UNCHANGED jsonFile /\ mover' = Snapshots!Free
        /\ mover \in [pc : {"open"}, zip : [Ids -> Docs], file : Ids \cup {None},
                      replaced : BOOLEAN]
        /\ zip' = IF mover.replaced THEN zip ELSE mover.zip
        /\ clash' = (clash \/ mover.replaced \/ script.pc = "replace")
    BY <1>4 DEF Snapshots!Close, SnapshotsTyped, Moving, Snapshots!Free
  <2>2. mover # Snapshots!Free
    BY <2>1 DEF Snapshots!Free
  <2>3. SnapshotsTyped'
    BY <1>0, <2>1 DEF SnapshotsTyped, Moving
  <2>4. CopiesFit'
    BY <1>f, <1>g, <2>1, <2>2 DEF CopiesFit
  <2>5. FilesKept'
    BY <1>0, <2>1, <2>2 DEF FilesKept
  <2> QED BY <2>3, <2>4, <2>5
<1> QED BY <1>1, <1>2, <1>3, <1>4

(* The decision script.                                                    *)
LEMMA ScriptKeeps ==
  ASSUME SnapshotsInv,
         \/ Snapshots!ReadAll \/ Snapshots!CopyArchive \/ Snapshots!ReplaceArchive
         \/ \E s \in Ids : Snapshots!RewriteRow(s) \/ Snapshots!SkipRow(s)
  PROVE  SnapshotsInv'
<1> USE DEF SnapshotsInv
<1>0. UNCHANGED <<sealed, adding, clash>>
  BY DEF Snapshots!ReadAll, Snapshots!CopyArchive, Snapshots!ReplaceArchive,
         Snapshots!RewriteRow, Snapshots!SkipRow
<1>f. \A s \in Ids : /\ \A d : DocFits(s, d)' <=> DocFits(s, d)
                     /\ \A r : RowFits(s, r)' <=> RowFits(s, r)
  BY <1>0 DEF DocFits, RowFits, Agrees
<1>g. ASSUME NEW s \in Ids, SnapshotsTyped, script.pc = "rows"
      PROVE  script \in Rewriting
  BY <1>g DEF SnapshotsTyped, Replacing, Snapshots!Free
<1>h. \A c \in Collectors : adding[c].pc \in {"read", "write"} => adding[c].id \in Ids
  BY DEF SnapshotsTyped, Adding, Snapshots!Free
<1>1. CASE Snapshots!ReadAll
  <2>1. /\ script' = [pc |-> "rows", copy |-> fields, place |-> [s \in Ids |-> Snapshots!Place(s)],
                      todo |-> {s \in Ids : fields[s] # None},
                      zip |-> [s \in {} |-> Snapshots!Absent]]
        /\ UNCHANGED <<fields, jsonFile, zip, mover>>
    BY <1>1 DEF Snapshots!ReadAll
  <2>2. script' \in Rewriting
    <3>1. [s \in Ids |-> Snapshots!Place(s)] \in [Ids -> {"live", "zip", "none"}]
      BY DEF Snapshots!Place
    <3>2. [s \in {} |-> Snapshots!Absent] \in [{} -> Docs]
      OBVIOUS
    <3> QED BY <2>1, <3>1, <3>2 DEF Rewriting, SnapshotsTyped
  <2>3. SnapshotsTyped'
    BY <1>0, <2>1, <2>2 DEF SnapshotsTyped
  <2>4. CopiesFit'
    BY <1>0, <1>f, <1>h, <2>1 DEF CopiesFit
  <2>5. FilesKept'
    BY <1>0, <2>1 DEF FilesKept
  <2> QED BY <2>3, <2>4, <2>5
<1>2. ASSUME NEW s \in Ids, Snapshots!RewriteRow(s) PROVE SnapshotsInv'
  <2> DEFINE r == [script.copy[s] EXCEPT !.metric = Snapshots!Filled(@)]
             new == IF script.place[s] # "zip" THEN script.zip
                    ELSE [t \in DOMAIN script.zip \cup {s} |->
                            IF t = s THEN Snapshots!Updated(s) ELSE script.zip[t]]
  <2>1. /\ script.pc = "rows" /\ s \in script.todo /\ UNCHANGED <<zip, mover>>
        /\ fields' = [fields EXCEPT ![s] = r]
        /\ jsonFile' = IF script.place[s] = "live"
                       THEN [jsonFile EXCEPT ![s] = Snapshots!Updated(s)] ELSE jsonFile
        /\ script' = [script EXCEPT !.todo = @ \ {s}, !.zip = new]
    BY <1>2 DEF Snapshots!RewriteRow
  <2>2. script \in Rewriting /\ RowFits(s, script.copy[s])
    BY <1>g, <2>1 DEF CopiesFit
  <2>3. /\ RowFits(s, r) /\ DocFits(s, Snapshots!Updated(s))
        /\ Snapshots!Updated(s) # Snapshots!Absent /\ Snapshots!Updated(s) \in Docs
    BY <2>2, FilledFits, DocsDiffer DEF Snapshots!Updated
  <2>4. /\ script'.pc = "rows" /\ script'.todo \subseteq script.todo /\ script'.copy = script.copy
        /\ script' \in Rewriting
        /\ \A t \in DOMAIN script'.zip : \/ t \in DOMAIN script.zip /\ script'.zip[t] = script.zip[t]
                                         \/ t = s /\ script'.zip[t] = Snapshots!Updated(s)
    <3>1. PICK D \in SUBSET Ids : script.zip \in [D -> Docs]
      BY <2>2 DEF Rewriting
    <3>2. \E E \in SUBSET Ids : new \in [E -> Docs]
      <4>1. CASE script.place[s] # "zip"
        BY <3>1, <4>1
      <4>2. CASE script.place[s] = "zip"
        <5>1. new \in [D \cup {s} -> Docs]
          BY <2>3, <3>1, <4>2
        <5> QED BY <5>1
      <4> QED BY <4>1, <4>2
    <3>3. \A t \in DOMAIN new : \/ t \in DOMAIN script.zip /\ new[t] = script.zip[t]
                                \/ t = s /\ new[t] = Snapshots!Updated(s)
      OBVIOUS
    <3> HIDE DEF new
    <3> DEFINE Zips == UNION {[E -> Docs] : E \in SUBSET Ids}
    <3>4. new \in Zips
      BY <3>2
    <3>5. Rewriting = [pc : {"rows"}, copy : [Ids -> {None} \cup SnapshotRows],
                       place : [Ids -> {"live", "zip", "none"}], todo : SUBSET Ids, zip : Zips]
      BY DEF Rewriting
    <3> HIDE DEF Zips
    <3>6. script'.zip = new /\ script'.pc = "rows" /\ script'.copy = script.copy
          /\ script'.todo = script.todo \ {s} /\ script' \in Rewriting
      BY <2>1, <2>2, <3>4, <3>5
    <3> QED BY <3>3, <3>6
  <2> HIDE DEF r, new
  <2>5. SnapshotsTyped'
    BY <1>0, <2>1, <2>3, <2>4 DEF SnapshotsTyped, RowFits
  <2>6. /\ \A t \in Ids : fields'[t] = fields[t] \/ (t = s /\ fields'[t] = r)
        /\ \A t \in Ids : jsonFile'[t] = jsonFile[t] \/ (t = s /\ jsonFile'[t] = Snapshots!Updated(s))
    BY <2>1 DEF SnapshotsTyped
  <2>7. CopiesFit'
    <3>1. \A t \in Ids : RowFits(t, fields[t]) => RowFits(t, fields[t])'
      BY <1>f, <2>3, <2>6
    <3>2. \A t \in Ids : fields'[t] # None => RowFits(t, fields[t])'
      BY <1>f, <2>3, <2>6, <3>1 DEF CopiesFit
    <3>3. \A t \in Ids : DocFits(t, jsonFile[t])'
      BY <1>f, <2>3, <2>6 DEF CopiesFit
    <3>4. script'.todo \subseteq Ids /\ DOMAIN script'.zip \subseteq Ids
      BY <2>4 DEF Rewriting
    <3>5. \A t \in script'.todo : RowFits(t, script.copy[t])'
      BY <1>f, <2>1, <2>4, <3>4 DEF CopiesFit
    <3>6. \A t \in DOMAIN script'.zip : DocFits(t, script.zip[t])'
      BY <1>f, <2>1, <2>3, <2>4, <3>4 DEF CopiesFit
    <3>7. \A c \in Collectors :
            /\ adding[c].pc \in {"read", "write"} => RowFits(adding[c].id, fields[adding[c].id])'
            /\ adding[c].pc = "write" => RowFits(adding[c].id, adding[c].copy)'
      BY <1>0, <1>f, <1>h, <3>1 DEF CopiesFit
    <3> QED BY <1>0, <1>f, <2>1, <2>4, <3>2, <3>3, <3>5, <3>6, <3>7 DEF CopiesFit
  <2>8. FilesKept'
    BY <1>0, <2>1, <2>3, <2>4, <2>6 DEF FilesKept
  <2> QED BY <2>5, <2>7, <2>8
<1>3. ASSUME NEW s \in Ids, Snapshots!SkipRow(s) PROVE SnapshotsInv'
  <2>1. /\ script.pc = "rows" /\ UNCHANGED <<fields, jsonFile, zip, mover>>
        /\ script' = [script EXCEPT !.todo = @ \ {s}] /\ script \in Rewriting
    BY <1>3, <1>g DEF Snapshots!SkipRow
  <2>2. /\ script' \in Rewriting /\ script'.pc = "rows" /\ script'.todo \subseteq script.todo
        /\ script'.copy = script.copy /\ script'.zip = script.zip
    BY <2>1 DEF Rewriting
  <2>3. SnapshotsTyped'
    BY <1>0, <2>1, <2>2 DEF SnapshotsTyped
  <2>4. CopiesFit'
    <3>1. script.todo \subseteq Ids /\ DOMAIN script.zip \subseteq Ids
      BY <2>1 DEF Rewriting
    <3> QED BY <1>0, <1>f, <1>h, <2>1, <2>2, <3>1 DEF CopiesFit
  <2>5. FilesKept'
    BY <1>0, <2>1, <2>2 DEF FilesKept
  <2> QED BY <2>3, <2>4, <2>5
<1>4. CASE Snapshots!CopyArchive
  <2>1. script.pc = "rows" /\ UNCHANGED <<fields, jsonFile, zip, mover>>
    BY <1>4 DEF Snapshots!CopyArchive
  <2>2. /\ \A t \in DOMAIN script.zip : /\ t \in Ids /\ DocFits(t, script.zip[t])
                                        /\ script.zip[t] # Snapshots!Absent
        /\ Snapshots!Free.pc = "free"
    BY <2>1 DEF SnapshotsTyped, Rewriting, Replacing, Snapshots!Free, CopiesFit, FilesKept
  <2> DEFINE copy == [t \in Ids |-> IF t \in DOMAIN script.zip THEN script.zip[t] ELSE zip[t]]
  <2>3. CASE script' = Snapshots!Free
    <3>1. SnapshotsTyped'
      BY <1>0, <2>1, <2>3 DEF SnapshotsTyped
    <3>2. CopiesFit'
      BY <1>0, <1>f, <1>h, <2>1, <2>2, <2>3 DEF CopiesFit
    <3>3. FilesKept'
      BY <1>0, <2>1, <2>2, <2>3 DEF FilesKept
    <3> QED BY <3>1, <3>2, <3>3
  <2>4. CASE script' = [pc |-> "replace", zip |-> copy]
    <3>1. \A t \in Ids : /\ copy[t] \in Docs /\ DocFits(t, copy[t])
                         /\ zip[t] # Snapshots!Absent => copy[t] # Snapshots!Absent
      BY <2>2 DEF CopiesFit, DocFits
    <3>2. copy \in [Ids -> Docs]
      BY <3>1
    <3> HIDE DEF copy
    <3>3. script' \in Replacing /\ script'.pc = "replace" /\ script'.zip = copy
      BY <2>4, <3>2 DEF Replacing
    <3>4. SnapshotsTyped'
      BY <1>0, <2>1, <3>3 DEF SnapshotsTyped
    <3>5. CopiesFit'
      BY <1>0, <1>f, <1>h, <2>1, <3>1, <3>3 DEF CopiesFit
    <3>6. FilesKept'
      BY <1>0, <2>1, <3>1, <3>3 DEF FilesKept
    <3> QED BY <3>4, <3>5, <3>6
  <2> QED BY <1>4, <2>3, <2>4 DEF Snapshots!CopyArchive
<1>5. CASE Snapshots!ReplaceArchive
  <2>1. /\ script.pc = "replace" /\ script' = Snapshots!Free /\ zip' = script.zip
        /\ mover' = IF mover = Snapshots!Free THEN Snapshots!Free
                    ELSE [mover EXCEPT !.replaced = TRUE]
        /\ UNCHANGED <<fields, jsonFile>>
    BY <1>5 DEF Snapshots!ReplaceArchive
  <2>2. script.zip \in [Ids -> Docs] /\ Snapshots!Free.pc = "free"
    BY <2>1 DEF SnapshotsTyped, Rewriting, Replacing, Snapshots!Free
  <2>3. /\ mover' \in Moving /\ (mover = Snapshots!Free <=> mover' = Snapshots!Free)
        /\ mover # Snapshots!Free =>
             mover'.replaced /\ mover'.zip = mover.zip /\ mover'.file = mover.file
    <3>1. CASE mover = Snapshots!Free
      BY <2>1, <3>1 DEF Moving
    <3>2. CASE mover # Snapshots!Free
      <4>1. mover \in [pc : {"open"}, zip : [Ids -> Docs], file : Ids \cup {None},
                       replaced : BOOLEAN]
        BY <3>2 DEF SnapshotsTyped, Moving
      <4>2. mover' \in [pc : {"open"}, zip : [Ids -> Docs], file : Ids \cup {None},
                        replaced : BOOLEAN]
            /\ mover'.replaced /\ mover'.zip = mover.zip /\ mover'.file = mover.file
        BY <2>1, <3>2, <4>1
      <4> QED BY <2>2, <3>2, <4>2 DEF Moving
    <3> QED BY <3>1, <3>2
  <2>4. SnapshotsTyped'
    BY <1>0, <2>1, <2>2, <2>3 DEF SnapshotsTyped
  <2>5. CopiesFit'
    BY <1>0, <1>f, <1>h, <2>1, <2>2, <2>3 DEF CopiesFit
  <2>6. FilesKept'
    BY <1>0, <2>1, <2>2, <2>3 DEF FilesKept
  <2> QED BY <2>4, <2>5, <2>6
<1> QED BY <1>1, <1>2, <1>3, <1>4, <1>5

LEMMA SnapshotsNext ==
  ASSUME SnapshotsInv, Snapshots!Next \/ UNCHANGED fieldVars
  PROVE  SnapshotsInv'
<1>1. CASE UNCHANGED fieldVars
  <2>1. UNCHANGED <<sealed, fields, jsonFile, zip, adding, mover, script, clash>>
    BY <1>1 DEF fieldVars
  <2> QED BY <2>1 DEF SnapshotsInv, SnapshotsTyped, CopiesFit, FilesKept, DocFits, RowFits, Agrees
<1> QED BY <1>1, SealKeeps, AddingKeeps, WriteFieldKeeps, ArchiverKeeps, ScriptKeeps
        DEF Snapshots!Next

LEMMA SnapshotsStand == SnapshotsInv => Snapshots!SealedStands
BY DEF SnapshotsInv, CopiesFit, FilesKept, RowFits, DocFits, Agrees, Snapshots!SealedStands

-----------------------------------------------------------------------------
(* The watches that scripts repair.                                        *)

LEMMA RepairsStep ==
  ASSUME [Next]_vars, part = "repairs"
  PROVE  part' = "repairs" /\ (Repairs!Next \/ UNCHANGED repairVars)
BY DEF Next, NextBacktest, NextDelta, NextPrice, NextRecord, vars, recordVars

ClosedStatuses == {"exited", "cooling_off", "sealed"}

ExitRecords == [at : Nat, price : Int, reason : {"strategy", "replaced"}]

JsonRecords == [status : ClosedStatuses \cup {"holding"}, entry : Prices, from : Nat,
                exit : ExitRecords \cup {None}, peak : Int \cup {None}, trough : Int \cup {None},
                whole : BOOLEAN]

(* A watch has an exit when it is no longer held, and its extremes, once   *)
(* measured after it, enclose the price of the exit.                       *)
Shaped(j) ==
  /\ j.status = "holding" <=> j.exit = None
  /\ j.whole => j.exit # None /\ j.trough <= j.exit.price /\ j.exit.price <= j.peak

(* An exit in a row, or in a copy of it, is the one that was recorded.     *)
Matches(w, j) ==
  j.exit # None =>
    /\ exited[w] # None /\ j.exit.at = exited[w].at /\ j.exit.reason = exited[w].reason
    /\ j.exit.price \in {exited[w].price} \cup {feed[t].close : t \in 0..j.exit.at}

JsonStands(w, j) ==
  /\ j \in JsonRecords /\ Shaped(j)
  /\ j.exit # None => j.exit.at <= repairNow
  /\ w \notin torn => Matches(w, j)

RowStands(w, r) ==
  /\ r \in [col : ClosedStatuses \cup {"holding"}, json : JsonRecords]
  /\ JsonStands(w, r.json)
  /\ w \notin torn => r.col = r.json.status

RepairsInv ==
  /\ repairNow \in Nat /\ feed \in [0..repairNow -> Repairs!MarketData]
  /\ watchRows \in [Mendable -> [col : ClosedStatuses \cup {"holding"}, json : JsonRecords]]
  /\ exited \in [Mendable -> ExitRecords \cup {None}]
  /\ \A w \in Mendable : /\ RowStands(w, watchRows[w])
                         /\ w \notin torn /\ exited[w] # None => watchRows[w].json.exit # None
  /\ DOMAIN cycle \subseteq Mendable /\ \A w \in DOMAIN cycle : JsonStands(w, cycle[w])
  /\ pricer # None => /\ DOMAIN pricer \subseteq Mendable
                      /\ \A w \in DOMAIN pricer : /\ RowStands(w, pricer[w])
                                                  /\ pricer[w].json.exit # None
                                                  /\ pricer[w].col \in ClosedStatuses
  /\ meter # None => /\ DOMAIN meter.rows \subseteq Mendable
                     /\ \A w \in DOMAIN meter.rows : JsonStands(w, meter.rows[w])

LEMMA HoldingStands ==
  ASSUME NEW w, NEW p \in Prices, NEW at \in Nat
  PROVE  /\ Repairs!Holding(p, at) \in JsonRecords
         /\ JsonStands(w, Repairs!Holding(p, at))
BY DEF Repairs!Holding, JsonRecords, JsonStands, Shaped, Matches

LEMMA RepairsInitially == Repairs!Init => RepairsInv
<1> SUFFICES ASSUME Repairs!Init PROVE RepairsInv
  OBVIOUS
<1>1. /\ repairNow = 0 /\ feed \in [0..0 -> Repairs!MarketData]
      /\ watchRows = [w \in Mendable |-> Repairs!Row(Repairs!Holding(feed[0].close, 0))]
      /\ cycle = [w \in {} |-> None] /\ pricer = None /\ meter = None
      /\ exited = [w \in Mendable |-> None]
  BY DEF Repairs!Init, Repairs!NoRows
<1>2. feed[0].close \in Prices
  BY <1>1 DEF Repairs!MarketData
<1> DEFINE json == Repairs!Holding(feed[0].close, 0)
<1>3. json \in JsonRecords /\ \A w : JsonStands(w, json)
  BY <1>2, HoldingStands
<1>4. Repairs!Row(json) = [col |-> "holding", json |-> json] /\ json.status = "holding"
  BY DEF Repairs!Row, Repairs!Holding
<1> HIDE DEF json
<1>5. \A w \in Mendable : RowStands(w, Repairs!Row(json))
  BY <1>3, <1>4 DEF RowStands
<1> QED BY <1>1, <1>3, <1>4, <1>5 DEF RepairsInv, json

(* What stands goes on to do so, unless an exit is recorded beside it.     *)
Grows == /\ repairNow \in Nat /\ repairNow' \in Nat /\ repairNow <= repairNow'
         /\ \A t \in 0..repairNow : feed'[t] = feed[t]
         /\ torn \subseteq torn'

LEMMA JsonGoesOn ==
  ASSUME Grows, NEW w \in Mendable, NEW j, JsonStands(w, j),
         w \notin torn' => exited'[w] = exited[w] \/ j.exit = None
  PROVE  JsonStands(w, j)'
<1>1. j.exit # None => j.exit.at \in Nat
  BY DEF JsonStands, JsonRecords, ExitRecords
<1>2. j.exit # None => {feed'[t].close : t \in 0..j.exit.at} = {feed[t].close : t \in 0..j.exit.at}
  BY <1>1 DEF Grows, JsonStands
<1>3. w \notin torn' => Matches(w, j)'
  BY <1>2 DEF Matches, JsonStands, Grows
<1> QED BY <1>1, <1>3 DEF JsonStands, Shaped, Grows

LEMMA RowGoesOn ==
  ASSUME Grows, NEW w \in Mendable, NEW r, RowStands(w, r),
         w \notin torn' => exited'[w] = exited[w] \/ r.json.exit = None
  PROVE  RowStands(w, r)'
BY JsonGoesOn DEF RowStands, Grows

(* What the monitor, and a worker that replaces a watch, make of a copy.   *)
LEMMA CloseTyped == RepairsInv => Repairs!Close \in Prices /\ Prices \subseteq Int
<1> SUFFICES ASSUME RepairsInv PROVE Repairs!Close \in Prices /\ Prices \subseteq Int
  OBVIOUS
<1>1. feed[repairNow] \in Repairs!MarketData
  BY DEF RepairsInv
<1> QED BY <1>1, RepairAssumption DEF Repairs!Close, Repairs!MarketData

LEMMA MarkedStands ==
  ASSUME RepairsInv, NEW w \in Mendable, NEW j, JsonStands(w, j), j.status = "holding"
  PROVE  JsonStands(w, Repairs!Marked(j)) /\ Repairs!Marked(j).status = "holding"
<1>1. Repairs!Close \in Int
  BY CloseTyped
<1>2. /\ Repairs!Marked(j) \in JsonRecords /\ Repairs!Marked(j).exit = j.exit
      /\ Repairs!Marked(j).status = "holding" /\ Repairs!Marked(j).whole = FALSE
  BY <1>1 DEF JsonStands, JsonRecords, Repairs!Marked
<1> QED BY <1>2 DEF JsonStands, Shaped, Matches

LEMMA ExitStands ==
  ASSUME RepairsInv, NEW w \in Mendable, NEW j, JsonStands(w, j), j.status = "holding",
         NEW p \in Prices, NEW why \in {"strategy", "replaced"},
         repairNow' = repairNow, exited'[w] = Repairs!Exit(j, p, why).exit
  PROVE  JsonStands(w, Repairs!Exit(j, p, why))' /\ Repairs!Exit(j, p, why).exit # None
<1> DEFINE x == Repairs!Exit(j, p, why)
           e == [at |-> repairNow, price |-> p, reason |-> why]
<1>1. e \in ExitRecords /\ e # None
  BY RepairAssumption DEF RepairsInv, ExitRecords
<1>2. /\ x \in JsonRecords /\ x.status = "exited" /\ x.exit = e /\ ~x.whole
  <2>1. j \in JsonRecords /\ ~j.whole
    BY DEF JsonStands, JsonRecords, Shaped
  <2>2. x = [j EXCEPT !.status = "exited", !.exit = e]
    BY DEF Repairs!Exit
  <2> HIDE DEF x, e
  <2>3. x \in JsonRecords
    BY <1>1, <2>1, <2>2 DEF JsonRecords, ClosedStatuses
  <2>4. x.status = "exited" /\ x.exit = e /\ x.whole = j.whole
    BY <2>1, <2>2 DEF JsonRecords
  <2> QED BY <2>1, <2>3, <2>4
<1>3. Repairs!Exit(j, p, why)' = x
  BY DEF Repairs!Exit
<1> HIDE DEF x
<1> SUFFICES JsonStands(w, Repairs!Exit(j, p, why))' /\ x.exit # None
  BY DEF x
<1>4. Shaped(x) /\ x.exit.at <= repairNow'
  BY <1>1, <1>2 DEF Shaped, RepairsInv
<1>5. Matches(w, Repairs!Exit(j, p, why))'
  BY <1>1, <1>2, <1>3 DEF Matches, x
<1> QED BY <1>1, <1>2, <1>3, <1>4, <1>5 DEF JsonStands, Shaped

LEMMA ClosedStands ==
  ASSUME NEW w \in Mendable, NEW j, JsonStands(w, j), j.status \in ClosedStatuses,
         NEW status \in ClosedStatuses
  PROVE  JsonStands(w, [j EXCEPT !.status = status]) /\ j.exit # None
<1>1. /\ [j EXCEPT !.status = status] \in JsonRecords /\ j.exit # None
      /\ [j EXCEPT !.status = status].status = status
      /\ \A f \in {"exit", "whole", "peak", "trough"} : [j EXCEPT !.status = status][f] = j[f]
  BY DEF JsonStands, JsonRecords, Shaped, ClosedStatuses
<1> QED BY <1>1 DEF JsonStands, Shaped, Matches, ClosedStatuses

LEMMA WriteKeeps ==
  ASSUME RepairsInv, NEW w \in Mendable, NEW j,
         UNCHANGED <<repairNow, feed, pricer, meter, torn>>,
         \A v \in DOMAIN cycle' : v \in DOMAIN cycle /\ cycle'[v] = cycle[v],
         \/ UNCHANGED <<watchRows, exited>>
         \/ /\ watchRows' = [watchRows EXCEPT ![w] = Repairs!Row(j)]
            /\ JsonStands(w, j)'
            /\ \/ /\ exited' = exited
                  /\ w \notin torn /\ exited[w] # None => j.exit # None
               \/ /\ exited' = [exited EXCEPT ![w] = j.exit] /\ j.exit # None
                  /\ watchRows[w].col = "holding"
  PROVE  RepairsInv'
<1> USE DEF RepairsInv
<1>1. Grows
  BY DEF Grows
<1>2. w \notin torn /\ watchRows[w].col = "holding" => exited[w] = None
  BY DEF RowStands, JsonStands, Shaped
<1>3. ASSUME NEW v \in Mendable, NEW k, JsonStands(v, k) PROVE JsonStands(v, k)'
  <2>1. v \notin torn' => exited'[v] = exited[v] \/ k.exit = None
    BY <1>2, <1>3 DEF JsonStands, Matches
  <2> QED BY <1>1, <1>3, <2>1, JsonGoesOn
<1>4. ASSUME NEW v \in Mendable, NEW r, RowStands(v, r) PROVE RowStands(v, r)'
  BY <1>3, <1>4 DEF RowStands
<1>5. exited' \in [Mendable -> ExitRecords \cup {None}]
  <2>1. JsonStands(w, j)' => j.exit \in ExitRecords \cup {None}
    BY DEF JsonStands, JsonRecords
  <2> QED BY <2>1
<1>6. /\ watchRows' \in [Mendable -> [col : ClosedStatuses \cup {"holding"}, json : JsonRecords]]
      /\ \A v \in Mendable : /\ RowStands(v, watchRows[v])'
                             /\ v \notin torn' /\ exited'[v] # None => watchRows'[v].json.exit # None
  <2>1. CASE UNCHANGED <<watchRows, exited>>
    BY <1>4, <2>1
  <2>2. CASE /\ watchRows' = [watchRows EXCEPT ![w] = Repairs!Row(j)] /\ JsonStands(w, j)'
             /\ \/ /\ exited' = exited
                   /\ w \notin torn /\ exited[w] # None => j.exit # None
                \/ exited' = [exited EXCEPT ![w] = j.exit] /\ j.exit # None
    <3>1. /\ Repairs!Row(j) \in [col : ClosedStatuses \cup {"holding"}, json : JsonRecords]
          /\ Repairs!Row(j).json = j /\ Repairs!Row(j).col = j.status
      BY <2>2 DEF JsonStands, JsonRecords, Repairs!Row
    <3>2. watchRows' \in [Mendable -> [col : ClosedStatuses \cup {"holding"}, json : JsonRecords]]
      BY <2>2, <3>1
    <3>3. RowStands(w, watchRows[w])'
      BY <2>2, <3>1 DEF RowStands
    <3>4. \A v \in Mendable : v # w => watchRows'[v] = watchRows[v] /\ exited'[v] = exited[v]
      BY <2>2
    <3>5. \A v \in Mendable : v # w => RowStands(v, watchRows[v])'
      BY <1>4, <3>4
    <3>6. w \notin torn' /\ exited'[w] # None => watchRows'[w].json.exit # None
      BY <2>2, <3>1
    <3> QED BY <3>2, <3>3, <3>4, <3>5, <3>6
  <2> QED BY <2>1, <2>2
<1>7. DOMAIN cycle' \subseteq Mendable /\ \A v \in DOMAIN cycle' : JsonStands(v, cycle[v])'
  BY <1>3
<1>8. pricer' # None => \A v \in DOMAIN pricer : RowStands(v, pricer[v])'
  BY <1>4
<1>9. meter' # None => \A v \in DOMAIN meter.rows : JsonStands(v, meter.rows[v])'
  BY <1>3
<1> QED BY <1>5, <1>6, <1>7, <1>8, <1>9

(* The monitor and a replacement.                                          *)
LEMMA MonitorKeeps ==
  ASSUME RepairsInv, NEW w \in Mendable, Repairs!Handle(w) \/ Repairs!ExitVictim(w)
  PROVE  RepairsInv'
<1>0. UNCHANGED <<repairNow, feed, pricer, meter, torn>>
  BY DEF Repairs!Handle, Repairs!ExitVictim
<1>1. \A v \in DOMAIN cycle' : v \in DOMAIN cycle /\ cycle'[v] = cycle[v]
  BY DEF Repairs!Handle, Repairs!ExitVictim, Repairs!Unread
<1>2. ASSUME UNCHANGED <<watchRows, exited>> PROVE RepairsInv'
  BY <1>0, <1>1, <1>2, WriteKeeps
<1>3. watchRows[w].col = "holding" /\ w \notin torn => exited[w] = None
  BY DEF RepairsInv, RowStands, JsonStands, Shaped
<1>4. ASSUME NEW j, JsonStands(w, j), NEW s \in ClosedStatuses \cup {"holding"},
             Repairs!UpdateIf(w, j, s), exited' = exited, j.exit # None \/ s = "holding"
      PROVE  RepairsInv'
  <2>1. CASE watchRows[w].col # s
    BY <1>2, <1>4, <2>1 DEF Repairs!UpdateIf
  <2>2. CASE watchRows[w].col = s
    <3>1. watchRows' = [watchRows EXCEPT ![w] = Repairs!Row(j)]
      BY <1>4, <2>2 DEF Repairs!UpdateIf
    <3>2. JsonStands(w, j)'
      BY <1>0, <1>4 DEF JsonStands, Shaped, Matches
    <3>3. w \notin torn /\ exited[w] # None => j.exit # None
      BY <1>3, <1>4, <2>2
    <3> QED BY <1>0, <1>1, <1>4, <3>1, <3>2, <3>3, WriteKeeps
  <2> QED BY <2>1, <2>2
<1>5. ASSUME NEW j, JsonStands(w, j), j.status = "holding", NEW p \in Prices,
             NEW why \in {"strategy", "replaced"},
             Repairs!Exits(w, Repairs!Exit(j, p, why), "holding")
      PROVE  RepairsInv'
  <2>1. PICK x : x = Repairs!Exit(j, p, why)
    OBVIOUS
  <2>2. Repairs!UpdateIf(w, x, "holding")
        /\ exited' = IF watchRows[w].col = "holding" THEN [exited EXCEPT ![w] = x.exit] ELSE exited
    BY <1>5, <2>1 DEF Repairs!Exits
  <2>3. CASE watchRows[w].col # "holding"
    BY <1>2, <2>2, <2>3 DEF Repairs!UpdateIf
  <2>4. CASE watchRows[w].col = "holding"
    <3>1. watchRows' = [watchRows EXCEPT ![w] = Repairs!Row(x)]
          /\ exited' = [exited EXCEPT ![w] = x.exit]
      BY <2>2, <2>4 DEF Repairs!UpdateIf
    <3>2. exited'[w] = Repairs!Exit(j, p, why).exit
      BY <2>1, <3>1 DEF RepairsInv
    <3>3. JsonStands(w, Repairs!Exit(j, p, why))' /\ x.exit # None
      BY <1>0, <1>5, <2>1, <3>2, ExitStands
    <3>4. x = Repairs!Exit(j, p, why)'
      BY <1>0, <2>1 DEF Repairs!Exit
    <3>5. JsonStands(w, x)'
      BY <3>3, <3>4 DEF JsonStands, Shaped, Matches
    <3> QED BY <1>0, <1>1, <2>4, <3>1, <3>3, <3>5, WriteKeeps
  <2> QED BY <2>3, <2>4
<1>6. CASE Repairs!ExitVictim(w)
  <2>1. PICK j : j = watchRows[w].json
    OBVIOUS
  <2>2. JsonStands(w, j) /\ j.status = "holding" /\ j.entry \in Prices
    BY <1>6, <2>1 DEF Repairs!ExitVictim, RepairsInv, RowStands, JsonStands, JsonRecords
  <2>3. PICK p \in Prices : Repairs!Exits(w, Repairs!Exit(j, p, "replaced"), "holding")
    BY <1>6, <2>1, <2>2, CloseTyped DEF Repairs!ExitVictim
  <2> QED BY <1>5, <2>2, <2>3
<1>7. CASE Repairs!Handle(w)
  <2>0. PICK j : j = cycle[w]
    OBVIOUS
  <2>1. JsonStands(w, j)
    BY <1>7, <2>0 DEF Repairs!Handle, RepairsInv
  <2>2. CASE Repairs!CheckHolding(w)
    <3>1. j.status = "holding"
      BY <2>0, <2>2 DEF Repairs!CheckHolding
    <3>2. PICK m : m = Repairs!Marked(j)
      OBVIOUS
    <3>3. JsonStands(w, m) /\ m.status = "holding"
      BY <2>1, <3>1, <3>2, MarkedStands
    <3>4. CASE Repairs!UpdateIf(w, m, "holding") /\ UNCHANGED exited
      BY <1>4, <3>3, <3>4
    <3>5. ASSUME NEW p \in Prices, Repairs!Exits(w, Repairs!Exit(m, p, "strategy"), "holding")
          PROVE  RepairsInv'
      BY <1>5, <3>3, <3>5
    <3> QED BY <2>0, <2>2, <3>2, <3>4, <3>5 DEF Repairs!CheckHolding
  <2>3. CASE Repairs!SkipTracked(w) \/ Repairs!IgnoreSealed(w)
    BY <1>2, <2>3 DEF Repairs!SkipTracked, Repairs!IgnoreSealed
  <2>4. ASSUME NEW s \in {"exited", "cooling_off"}, NEW t \in ClosedStatuses, j.status = s,
               Repairs!UpdateIf(w, [j EXCEPT !.status = t], s), UNCHANGED exited
        PROVE  RepairsInv'
    <3>1. PICK k : k = [j EXCEPT !.status = t]
      OBVIOUS
    <3>2. JsonStands(w, k) /\ k.exit # None
      <4>1. j.status \in ClosedStatuses /\ j.exit # None /\ k.exit = j.exit
        BY <2>1, <2>4, <3>1, ClosedStands DEF ClosedStatuses, JsonStands, JsonRecords
      <4> QED BY <2>1, <2>4, <3>1, <4>1, ClosedStands
    <3> QED BY <1>4, <2>4, <3>1, <3>2 DEF ClosedStatuses
  <2>5. CASE Repairs!StartCoolingOff(w)
    BY <2>0, <2>4, <2>5 DEF Repairs!StartCoolingOff, ClosedStatuses
  <2>6. CASE Repairs!CheckCoolingOff(w)
    BY <1>2, <2>0, <2>4, <2>6 DEF Repairs!CheckCoolingOff, ClosedStatuses
  <2> QED BY <1>7, <2>2, <2>3, <2>5, <2>6 DEF Repairs!Handle
<1> QED BY <1>6, <1>7

(* A step that records no exit and writes only rows that stand keeps what  *)
(* stands, whatever it has read.                                           *)
LEMMA StepKeeps ==
  ASSUME RepairsInv, Grows, exited' = exited, feed' \in [0..repairNow' -> Repairs!MarketData],
         watchRows' \in [Mendable -> [col : ClosedStatuses \cup {"holding"}, json : JsonRecords]],
         \A w \in Mendable :
           \/ watchRows'[w] = watchRows[w]
           \/ /\ RowStands(w, watchRows[w])'
              /\ w \notin torn' /\ exited[w] # None => watchRows'[w].json.exit # None,
         \/ cycle' = cycle
         \/ DOMAIN cycle' \subseteq Mendable /\ \A w \in DOMAIN cycle' : cycle'[w] = watchRows[w].json,
         \/ pricer' \in {None, pricer}
         \/ /\ DOMAIN pricer' \subseteq Mendable
            /\ \A w \in DOMAIN pricer' : /\ pricer'[w] = watchRows[w] /\ pricer'[w].json.exit # None
                                         /\ pricer'[w].col \in ClosedStatuses,
         \/ meter' \in {None, meter}
         \/ /\ DOMAIN meter'.rows \subseteq Mendable
            /\ \A w \in DOMAIN meter'.rows : meter'.rows[w] = watchRows[w].json
  PROVE  RepairsInv'
<1>1. ASSUME NEW w \in Mendable, NEW j, JsonStands(w, j) PROVE JsonStands(w, j)'
  BY <1>1, JsonGoesOn
<1>2. ASSUME NEW w \in Mendable, NEW r, RowStands(w, r) PROVE RowStands(w, r)'
  BY <1>2, RowGoesOn
<1>3. \A w \in Mendable : RowStands(w, watchRows[w]) /\ JsonStands(w, watchRows[w].json)
  BY DEF RepairsInv, RowStands
<1>4. \A w \in Mendable : /\ RowStands(w, watchRows[w])'
                          /\ w \notin torn' /\ exited'[w] # None => watchRows'[w].json.exit # None
  <2> TAKE w \in Mendable
  <2>1. CASE watchRows'[w] = watchRows[w]
    BY <1>2, <1>3, <2>1 DEF RepairsInv, Grows
  <2> QED BY <2>1
<1>5. DOMAIN cycle' \subseteq Mendable /\ \A w \in DOMAIN cycle' : JsonStands(w, cycle[w])'
  BY <1>1, <1>3 DEF RepairsInv
<1>6. pricer' # None => /\ DOMAIN pricer' \subseteq Mendable
                        /\ \A w \in DOMAIN pricer' : /\ RowStands(w, pricer[w])'
                                                     /\ pricer'[w].json.exit # None
                                                     /\ pricer'[w].col \in ClosedStatuses
  BY <1>2, <1>3 DEF RepairsInv
<1>7. meter' # None => /\ DOMAIN meter'.rows \subseteq Mendable
                       /\ \A w \in DOMAIN meter'.rows : JsonStands(w, meter.rows[w])'
  BY <1>1, <1>3 DEF RepairsInv
<1>8. exited' \in [Mendable -> ExitRecords \cup {None}] /\ repairNow' \in Nat
  BY DEF RepairsInv, Grows
<1> QED BY <1>4, <1>5, <1>6, <1>7, <1>8 DEF RepairsInv

LEMMA TimePassesKeeps == RepairsInv /\ Repairs!TimePasses => RepairsInv'
<1> SUFFICES ASSUME RepairsInv, Repairs!TimePasses PROVE RepairsInv'
  OBVIOUS
<1>1. /\ repairNow \in Nat /\ repairNow' = repairNow + 1
      /\ UNCHANGED <<watchRows, cycle, pricer, meter, exited, torn>>
  BY DEF RepairsInv, Repairs!TimePasses
<1>2. PICK m \in Repairs!MarketData :
        feed' = [t \in 0..repairNow + 1 |-> IF t = repairNow + 1 THEN m ELSE feed[t]]
  BY DEF Repairs!TimePasses
<1>3. feed' \in [0..repairNow' -> Repairs!MarketData]
  BY <1>1, <1>2 DEF RepairsInv
<1>4. Grows
  BY <1>1, <1>2 DEF Grows
<1> QED BY <1>1, <1>3, <1>4, StepKeeps DEF RepairsInv

LEMMA ReadersKeep ==
  RepairsInv /\ (Repairs!ReadCycle \/ Repairs!LoadCandidates \/ Repairs!LoadWatches \/ Repairs!Kill)
    => RepairsInv'
<1> SUFFICES ASSUME RepairsInv,
                    Repairs!ReadCycle \/ Repairs!LoadCandidates \/ Repairs!LoadWatches \/ Repairs!Kill
             PROVE RepairsInv'
  OBVIOUS
<1>1. UNCHANGED <<repairNow, feed, watchRows, exited, torn>>
  BY DEF Repairs!ReadCycle, Repairs!LoadCandidates, Repairs!LoadWatches, Repairs!Kill
<1>2. Grows
  BY <1>1 DEF Grows, RepairsInv
<1>3. Repairs!Stored \subseteq Mendable
  BY DEF RepairsInv, Repairs!Stored
<1>4. CASE Repairs!ReadCycle
  <2>1. /\ UNCHANGED <<pricer, meter>> /\ DOMAIN cycle' \subseteq Mendable
        /\ \A w \in DOMAIN cycle' : cycle'[w] = watchRows[w].json
    BY <1>3, <1>4 DEF Repairs!ReadCycle
  <2> QED BY <1>1, <1>2, <2>1, StepKeeps DEF RepairsInv
<1>5. CASE Repairs!LoadCandidates
  <2>1. PICK all \in BOOLEAN : pricer' = [w \in Repairs!Candidates(all) |-> watchRows[w]]
    BY <1>5 DEF Repairs!LoadCandidates
  <2>2. \A w \in Repairs!Candidates(all) : /\ w \in Mendable /\ watchRows[w].json.exit # None
                                           /\ watchRows[w].col \in ClosedStatuses
    BY DEF Repairs!Candidates, Repairs!Closed, ClosedStatuses
  <2>3. /\ DOMAIN pricer' \subseteq Mendable
        /\ \A w \in DOMAIN pricer' : /\ pricer'[w] = watchRows[w] /\ pricer'[w].json.exit # None
                                     /\ pricer'[w].col \in ClosedStatuses
    BY <2>1, <2>2
  <2>4. UNCHANGED <<cycle, meter>>
    BY <1>5 DEF Repairs!LoadCandidates
  <2> QED BY <1>1, <1>2, <2>3, <2>4, StepKeeps DEF RepairsInv
<1>6. CASE Repairs!LoadWatches
  <2>1. PICK force \in BOOLEAN :
          meter' = [at |-> repairNow,
                    rows |-> [w \in {v \in Repairs!Stored : force \/ watchRows[v].json.peak = None}
                                |-> watchRows[w].json]]
    BY <1>6 DEF Repairs!LoadWatches
  <2>2. /\ DOMAIN meter'.rows \subseteq Mendable
        /\ \A w \in DOMAIN meter'.rows : meter'.rows[w] = watchRows[w].json
    BY <1>3, <2>1
  <2>3. UNCHANGED <<cycle, pricer>>
    BY <1>6 DEF Repairs!LoadWatches
  <2> QED BY <1>1, <1>2, <2>2, <2>3, StepKeeps DEF RepairsInv
<1>7. CASE Repairs!Kill
  <2>1. cycle' = cycle /\ pricer' \in {None, pricer} /\ meter' \in {None, meter}
    BY <1>7 DEF Repairs!Kill
  <2> QED BY <1>1, <1>2, <2>1, StepKeeps DEF RepairsInv
<1> QED BY <1>4, <1>5, <1>6, <1>7

(* The lookup of a price finds a minute at or before the exit.             *)
LEMMA AtOrBeforeIsBefore ==
  ASSUME NEW n \in Nat, NEW times, times \subseteq 0..n, NEW at \in Nat
  PROVE  Repairs!AtOrBefore(times, at) = None \/ Repairs!AtOrBefore(times, at) \in (0..at) \cap (0..n)
<1> DEFINE earlier == {t \in times : t <= at}
<1>1. IsFiniteSet(earlier) /\ earlier \subseteq Int
  <2>1. 0 \in Int /\ n \in Int /\ 0..n \subseteq Int
    OBVIOUS
  <2>2. IsFiniteSet(0..n)
    BY <2>1, FS_Interval
  <2>3. earlier \in SUBSET (0..n)
    OBVIOUS
  <2> HIDE DEF earlier
  <2>4. IsFiniteSet(earlier)
    BY <2>2, <2>3, FS_Subset
  <2> QED BY <2>1, <2>3, <2>4
<1>2. ASSUME earlier # {} PROVE Repairs!Max(earlier) \in earlier
  <2> HIDE DEF earlier
  <2>1. \E x \in earlier : \A y \in earlier : x >= y
    BY <1>1, <1>2, FiniteMax
  <2> QED BY <2>1 DEF Repairs!Max
<1>3. earlier \subseteq (0..at) \cap (0..n)
  OBVIOUS
<1>4. Repairs!AtOrBefore(times, at) = IF earlier = {} THEN None ELSE Repairs!Max(earlier)
  BY Zenon DEF Repairs!AtOrBefore
<1> HIDE DEF earlier
<1> QED BY <1>2, <1>3, <1>4

LEMMA PricedAtIsBefore ==
  ASSUME RepairsInv, pricer # None, NEW w \in DOMAIN pricer, Repairs!PricedAt(w) # None
  PROVE  Repairs!PricedAt(w) \in 0..pricer[w].json.exit.at /\ Repairs!PricedAt(w) \in 0..repairNow
<1> DEFINE at == pricer[w].json.exit.at
<1>1. repairNow \in Nat /\ DOMAIN feed = 0..repairNow /\ at \in Nat
  BY DEF RepairsInv, RowStands, JsonStands, JsonRecords, ExitRecords
<1>2. Repairs!LastTick(at) = None \/ Repairs!LastTick(at) \in (0..at) \cap (0..repairNow)
  <2> PICK times : times = {u \in DOMAIN feed : "tick" \in feed[u].known}
    OBVIOUS
  <2>1. Repairs!AtOrBefore(times, at) = None
        \/ Repairs!AtOrBefore(times, at) \in (0..at) \cap (0..repairNow)
    <3> HIDE DEF at
    <3> QED BY <1>1, AtOrBeforeIsBefore
  <2> QED BY <2>1 DEF Repairs!LastTick
<1>3. Repairs!AtOrBefore(Repairs!Series, at) = None
      \/ Repairs!AtOrBefore(Repairs!Series, at) \in (0..at) \cap (0..repairNow)
  <2>1. Repairs!Series \subseteq 0..repairNow
    BY <1>1 DEF Repairs!Series
  <2> HIDE DEF at
  <2> QED BY <1>1, <2>1, AtOrBeforeIsBefore
<1> QED BY <1>2, <1>3 DEF Repairs!PricedAt

(* A copy of a row with another price, one of before the exit.             *)
LEMMA PricedStands ==
  ASSUME NEW w \in Mendable, NEW r, RowStands(w, r), r.json.exit # None,
         NEW t \in 0..r.json.exit.at, NEW p \in Int, p = feed[t].close, NEW x,
         x = [r EXCEPT !.json.exit.price = p, !.json.whole = FALSE]
  PROVE  RowStands(w, x) /\ x.json.exit # None
<1> PICK e : e = [r.json.exit EXCEPT !.price = p]
  OBVIOUS
<1>1. r.json.exit \in ExitRecords
  BY DEF RowStands, JsonStands, JsonRecords
<1>2. e \in ExitRecords /\ e # None /\ e.at = r.json.exit.at /\ e.reason = r.json.exit.reason /\ e.price = p
  BY <1>1, RepairAssumption DEF ExitRecords
<1> PICK j : j = [r.json EXCEPT !.exit = e, !.whole = FALSE]
  OBVIOUS
<1>3. r.json \in JsonRecords /\ r \in [col : ClosedStatuses \cup {"holding"}, json : JsonRecords]
  BY DEF RowStands, JsonStands
<1>4. j \in JsonRecords /\ j.exit = e /\ ~j.whole /\ j.status = r.json.status
  BY <1>2, <1>3 DEF JsonRecords
<1>5. x = [r EXCEPT !.json = j]
  BY <1>3 DEF JsonRecords, ExitRecords
<1>6. x \in [col : ClosedStatuses \cup {"holding"}, json : JsonRecords] /\ x.json = j /\ x.col = r.col
  BY <1>3, <1>4, <1>5
<1>7. JsonStands(w, j)
  <2>1. JsonStands(w, r.json) /\ r.json.exit # None
    BY DEF RowStands
  <2>2. Shaped(j) /\ j.exit.at <= repairNow
    BY <1>2, <1>4, <2>1 DEF JsonStands, Shaped
  <2>3. ASSUME w \notin torn PROVE Matches(w, j)
    <3>1. /\ exited[w] # None /\ e.at = exited[w].at /\ e.reason = exited[w].reason
      BY <1>2, <2>1, <2>3 DEF JsonStands, Matches
    <3>2. t \in 0..e.at /\ e.price = feed[t].close
      BY <1>2
    <3>3. e.price \in {feed[u].close : u \in 0..e.at}
      BY <3>2
    <3> QED BY <1>4, <3>1, <3>3 DEF Matches
  <2> QED BY <1>4, <2>2, <2>3 DEF JsonStands
<1> QED BY <1>2, <1>4, <1>6, <1>7 DEF RowStands

LEMMA CommitPricesKeeps == RepairsInv /\ Repairs!CommitPrices => RepairsInv'
<1> SUFFICES ASSUME RepairsInv, Repairs!CommitPrices PROVE RepairsInv'
  OBVIOUS
<1>1. /\ pricer # None /\ pricer' = None /\ DOMAIN watchRows = Mendable
      /\ UNCHANGED <<repairNow, feed, cycle, meter, exited, torn>>
      /\ watchRows' = [w \in Mendable |-> IF w \in DOMAIN pricer /\ Repairs!PricedAt(w) # None
                                          THEN Repairs!Repaired(w) ELSE watchRows[w]]
  BY DEF Repairs!CommitPrices, RepairsInv
<1>2. Grows
  BY <1>1 DEF Grows, RepairsInv
<1>3. ASSUME NEW w \in DOMAIN pricer, Repairs!PricedAt(w) # None
      PROVE  RowStands(w, Repairs!Repaired(w)) /\ Repairs!Repaired(w).json.exit # None
  <2>1. PICK t : t = Repairs!PricedAt(w)
    OBVIOUS
  <2>2. t \in 0..pricer[w].json.exit.at /\ t \in 0..repairNow
    BY <1>1, <1>3, <2>1, PricedAtIsBefore
  <2>3. feed[t].close \in Int
    BY <2>2, RepairAssumption DEF RepairsInv, Repairs!MarketData
  <2>4. w \in Mendable /\ RowStands(w, pricer[w]) /\ pricer[w].json.exit # None
    BY <1>1 DEF RepairsInv
  <2>5. Repairs!Repaired(w) = [pricer[w] EXCEPT !.json.exit.price = feed[t].close, !.json.whole = FALSE]
    BY <2>1 DEF Repairs!Repaired
  <2>6. PICK x : x = Repairs!Repaired(w)
    OBVIOUS
  <2>7. PICK r : r = pricer[w]
    OBVIOUS
  <2>8. PICK p : p = feed[t].close
    OBVIOUS
  <2>9. /\ RowStands(w, r) /\ r.json.exit # None /\ t \in 0..r.json.exit.at /\ p \in Int
        /\ x = [r EXCEPT !.json.exit.price = p, !.json.whole = FALSE]
    BY <2>2, <2>3, <2>4, <2>5, <2>6, <2>7, <2>8
  <2>10. RowStands(w, x) /\ x.json.exit # None
    BY <2>4, <2>8, <2>9, PricedStands
  <2> QED BY <2>6, <2>10
<1>4. ASSUME NEW w \in Mendable
      PROVE  /\ RowStands(w, watchRows'[w])
             /\ w \notin torn /\ exited[w] # None => watchRows'[w].json.exit # None
  BY <1>1, <1>3 DEF RepairsInv
<1>5. \A w \in Mendable : RowStands(w, watchRows[w])'
  BY <1>1, <1>4 DEF RowStands, JsonStands, Shaped, Matches
<1>6. watchRows' \in [Mendable -> [col : ClosedStatuses \cup {"holding"}, json : JsonRecords]]
  BY <1>1, <1>4 DEF RowStands
<1>7. feed' \in [0..repairNow' -> Repairs!MarketData]
  BY <1>1 DEF RepairsInv
<1> QED BY <1>1, <1>2, <1>4, <1>5, <1>6, <1>7, StepKeeps

LEMMA FiniteMin ==
  ASSUME NEW S, IsFiniteSet(S), S # {}, S \subseteq Int
  PROVE  \E x \in S : \A y \in S : x <= y
<1> DEFINE Opposite == {-x : x \in S}
           f == [x \in S |-> -x]
<1>1. f \in Surjection(S, Opposite)
  BY DEF Surjection
<1>2. IsFiniteSet(Opposite)
  <2> HIDE DEF f, Opposite
  <2> QED BY <1>1, FS_Surjection
<1>3. Opposite # {} /\ Opposite \subseteq Int
  <2>1. \A x \in S : -x \in Int
    OBVIOUS
  <2> QED BY <2>1
<1>4. PICK z \in Opposite : \A y \in Opposite : z >= y
  <2> HIDE DEF Opposite
  <2> QED BY <1>2, <1>3, FiniteMax
<1>5. PICK x \in S : z = -x
  OBVIOUS
<1>6. ASSUME NEW y \in S PROVE x <= y
  <2>1. -x >= -y /\ x \in Int /\ y \in Int
    BY <1>4, <1>5
  <2> QED BY <2>1
<1> QED BY <1>6

(* What was measured encloses the exit.                                    *)
LEMMA MeasuredEncloses ==
  ASSUME RepairsInv, NEW w \in Mendable, NEW j, JsonStands(w, j)
  PROVE  JsonStands(w, Repairs!Measured(j)) /\ Repairs!Measured(j).status = j.status
<1> DEFINE S == Repairs!Passed(j)
<1>1. j \in JsonRecords
  BY DEF JsonStands
<1>2. S \subseteq Prices \cup (IF j.exit = None THEN {} ELSE {j.exit.price}) /\ S # {}
  BY <1>1 DEF Repairs!Passed, Repairs!Candles, RepairsInv, Repairs!MarketData, JsonRecords
<1>3. j.exit # None => j.exit.price \in S /\ j.exit.price \in Int
  BY <1>1 DEF Repairs!Passed, JsonRecords, ExitRecords
<1> HIDE DEF S
<1>4. S \subseteq Int /\ IsFiniteSet(S)
  <2>1. CASE j.exit = None
    BY <1>2, <2>1, RepairAssumption, FS_Subset
  <2>2. CASE j.exit # None
    <3>1. IsFiniteSet(Prices \cup {j.exit.price})
      BY RepairAssumption, FS_AddElement
    <3>2. S \in SUBSET (Prices \cup {j.exit.price})
      BY <1>2, <2>2
    <3>3. IsFiniteSet(S)
      BY <3>1, <3>2, FS_Subset
    <3> QED BY <1>3, <2>2, <3>2, <3>3, RepairAssumption
  <2> QED BY <2>1, <2>2
<1>5. Repairs!Max(S) \in S /\ \A y \in S : Repairs!Max(S) >= y
  <2>1. \E x \in S : \A y \in S : x >= y
    BY <1>2, <1>4, FiniteMax
  <2> QED BY <2>1 DEF Repairs!Max
<1>6. Repairs!Min(S) \in S /\ \A y \in S : Repairs!Min(S) <= y
  <2>1. \E x \in S : \A y \in S : x <= y
    BY <1>2, <1>4, FiniteMin
  <2> QED BY <2>1 DEF Repairs!Min
<1> PICK hi : hi = Repairs!Max(S)
  OBVIOUS
<1> PICK lo : lo = Repairs!Min(S)
  OBVIOUS
<1>7. Repairs!Measured(j) = [j EXCEPT !.peak = hi, !.trough = lo, !.whole = j.exit # None]
  BY DEF Repairs!Measured, S
<1> PICK m : m = Repairs!Measured(j)
  OBVIOUS
<1>8. /\ m \in JsonRecords /\ m.exit = j.exit /\ m.status = j.status
      /\ m.peak = hi /\ m.trough = lo /\ (m.whole <=> j.exit # None)
  BY <1>1, <1>4, <1>5, <1>6, <1>7 DEF JsonRecords
<1>9. Shaped(m)
  BY <1>3, <1>5, <1>6, <1>8 DEF JsonStands, Shaped
<1>10. JsonStands(w, m) /\ m.status = j.status
  BY <1>8, <1>9 DEF JsonStands, Matches
<1> QED BY <1>10

LEMMA CommitExtremesKeeps == RepairsInv /\ Repairs!CommitExtremes => RepairsInv'
<1> SUFFICES ASSUME RepairsInv, Repairs!CommitExtremes PROVE RepairsInv'
  OBVIOUS
<1>1. /\ meter # None /\ meter' = None /\ DOMAIN watchRows = Mendable
      /\ UNCHANGED <<repairNow, feed, cycle, pricer, exited>>
      /\ watchRows' = [w \in Mendable |->
                         IF w \in Repairs!Changed
                         THEN [watchRows[w] EXCEPT !.json = Repairs!Measured(meter.rows[w])]
                         ELSE watchRows[w]]
      /\ torn' = torn \cup {w \in Repairs!Changed : meter.rows[w].status # watchRows[w].json.status}
  BY DEF Repairs!CommitExtremes, RepairsInv
<1>2. Grows
  BY <1>1 DEF Grows, RepairsInv
<1>3. \A w \in Repairs!Changed : w \in DOMAIN meter.rows
  BY DEF Repairs!Changed
<1>4. ASSUME NEW w \in Repairs!Changed
      PROVE  /\ RowStands(w, watchRows[w])' /\ w \in Mendable
             /\ w \notin torn' /\ exited[w] # None => watchRows'[w].json.exit # None
  <2>1. w \in Mendable /\ JsonStands(w, meter.rows[w]) /\ RowStands(w, watchRows[w])
    BY <1>1, <1>3 DEF RepairsInv
  <2>2. PICK j : j = Repairs!Measured(meter.rows[w])
    OBVIOUS
  <2>3. JsonStands(w, j) /\ j.status = meter.rows[w].status
    BY <2>1, <2>2, MeasuredEncloses
  <2>4. JsonStands(w, j)'
    BY <1>1, <1>2, <2>1, <2>3, JsonGoesOn
  <2>5. watchRows'[w] = [watchRows[w] EXCEPT !.json = j]
    BY <1>1, <2>1, <2>2
  <2>6. /\ watchRows[w] \in [col : ClosedStatuses \cup {"holding"}, json : JsonRecords]
        /\ j \in JsonRecords
    BY <2>1, <2>3 DEF RowStands, JsonStands
  <2>7. /\ watchRows'[w] \in [col : ClosedStatuses \cup {"holding"}, json : JsonRecords]
        /\ watchRows'[w].json = j /\ watchRows'[w].col = watchRows[w].col
    BY <2>5, <2>6
  <2>8. w \notin torn' => w \notin torn /\ j.status = watchRows[w].json.status
    BY <1>1, <2>3
  <2>9. w \notin torn' => watchRows'[w].col = watchRows'[w].json.status
    BY <2>1, <2>7, <2>8 DEF RowStands
  <2>10. RowStands(w, watchRows[w])'
    BY <2>4, <2>7, <2>9 DEF RowStands
  <2>11. w \notin torn' /\ exited[w] # None => j.exit # None
    <3>1. w \notin torn /\ exited[w] # None => watchRows[w].json.exit # None
      BY <2>1 DEF RepairsInv
    <3>2. watchRows[w].json.exit # None <=> watchRows[w].json.status # "holding"
      BY <2>1 DEF RowStands, JsonStands, Shaped
    <3>3. j.exit # None <=> j.status # "holding"
      BY <2>3 DEF JsonStands, Shaped
    <3> QED BY <2>8, <3>1, <3>2, <3>3
  <2> QED BY <2>1, <2>7, <2>10, <2>11
<1>5. \A w \in Mendable :
        \/ watchRows'[w] = watchRows[w]
        \/ /\ RowStands(w, watchRows[w])'
           /\ w \notin torn' /\ exited[w] # None => watchRows'[w].json.exit # None
  BY <1>1, <1>4
<1>6. watchRows' \in [Mendable -> [col : ClosedStatuses \cup {"holding"}, json : JsonRecords]]
  <2>1. \A w \in Mendable : watchRows'[w] \in [col : ClosedStatuses \cup {"holding"}, json : JsonRecords]
    BY <1>1, <1>4 DEF RowStands, RepairsInv
  <2> QED BY <1>1, <2>1
<1>7. feed' \in [0..repairNow' -> Repairs!MarketData]
  BY <1>1 DEF RepairsInv
<1> QED BY <1>1, <1>2, <1>5, <1>6, <1>7, StepKeeps

LEMMA RepairsNext ==
  ASSUME RepairsInv, Repairs!Next \/ UNCHANGED repairVars
  PROVE  RepairsInv'
<1>1. ASSUME UNCHANGED <<repairNow, feed, watchRows, cycle, pricer, meter, exited, torn>>
      PROVE  RepairsInv'
  BY <1>1, StepKeeps DEF RepairsInv, Grows
<1>2. ASSUME NEW w \in Mendable, Repairs!Handle(w) \/ Repairs!ExitVictim(w) PROVE RepairsInv'
  BY <1>2, MonitorKeeps
<1>3. DOMAIN watchRows = Mendable
  BY DEF RepairsInv
<1>4. CASE UNCHANGED repairVars
  BY <1>1, <1>4 DEF repairVars
<1>5. CASE Repairs!EndImport
  BY <1>1, <1>5 DEF Repairs!EndImport
<1>6. ~Repairs!InsertConfig /\ ~Repairs!RefuseImport
  BY DEF Repairs!InsertConfig, Repairs!RefuseImport
<1> QED BY <1>2, <1>3, <1>4, <1>5, <1>6, TimePassesKeeps, ReadersKeep, CommitPricesKeeps,
           CommitExtremesKeeps
        DEF Repairs!Next

LEMMA RepairsStand ==
  RepairsInv => Repairs!RowsAgree /\ Repairs!ExitsStand /\ Repairs!ExtremesEnclose
<1> SUFFICES ASSUME RepairsInv
             PROVE  Repairs!RowsAgree /\ Repairs!ExitsStand /\ Repairs!ExtremesEnclose
  OBVIOUS
<1>1. Repairs!RowsAgree
  BY DEF RepairsInv, RowStands, Repairs!RowsAgree
<1>2. ASSUME NEW w \in Mendable, exited[w] # None, w \notin torn
      PROVE  /\ watchRows[w].col \in Repairs!Closed /\ Matches(w, watchRows[w].json)
             /\ watchRows[w].json.exit # None
  BY <1>2 DEF RepairsInv, RowStands, JsonStands, Shaped, Repairs!Closed, ClosedStatuses
<1>3. Repairs!ExitsStand
  BY <1>2 DEF Matches, Repairs!ExitsStand
<1>4. Repairs!ExtremesEnclose
  BY DEF RepairsInv, RowStands, JsonStands, Shaped, Repairs!ExtremesEnclose
<1> QED BY <1>1, <1>3, <1>4

-----------------------------------------------------------------------------
(* The portfolio that is imported.                                         *)

LEMMA ImportsStep ==
  ASSUME [Next]_vars, part = "imports"
  PROVE  part' = "imports" /\ (Imports!Next \/ UNCHANGED repairVars)
BY DEF Next, NextBacktest, NextDelta, NextPrice, NextRecord, vars, recordVars

TrackedJson == [status : {"holding"}, entry : Prices, from : Nat, exit : {None},
                peak : Prices \cup {None}, trough : Prices \cup {None}, whole : {FALSE}]

TrackedRows == [col : {"holding"}, json : TrackedJson]

(* Every copy of a holding is one that is held, and what a script has read *)
(* is stored.                                                              *)
ImportsInv ==
  /\ repairNow \in Nat /\ feed \in [0..repairNow -> Imports!MarketData]
  /\ watchRows \in [Imported -> TrackedRows \cup {None}]
  /\ DOMAIN cycle \subseteq Imported /\ \A w \in DOMAIN cycle : cycle[w] \in TrackedJson
  /\ pricer = None
  /\ meter # None =>
       /\ DOMAIN meter.rows \subseteq Imported
       /\ \A w \in DOMAIN meter.rows : meter.rows[w] \in TrackedJson /\ watchRows[w] # None
  /\ importer = "done" => \A w \in Imported : watchRows[w] # None

LEMMA SomeRow == None \notin TrackedRows
BY RepairAssumption DEF TrackedRows, TrackedJson

LEMMA HeldRow ==
  ASSUME NEW p \in Prices, NEW at \in Nat
  PROVE  Imports!Row(Imports!Holding(p, at)) \in TrackedRows
BY DEF Imports!Row, Imports!Holding, TrackedRows, TrackedJson

LEMMA ImportsInitially == Imports!Init => ImportsInv
BY DEF Imports!Init, Imports!NoRows, ImportsInv, Imports!MarketData

LEMMA ImportMeasured ==
  ASSUME ImportsInv, NEW j \in TrackedJson
  PROVE  Imports!Measured(j) \in TrackedJson
<1> DEFINE S == Imports!Passed(j)
<1>1. S \subseteq Prices /\ S # {}
  BY DEF Imports!Passed, Imports!Candles, ImportsInv, Imports!MarketData, TrackedJson
<1> HIDE DEF S
<1>2. S \subseteq Int /\ IsFiniteSet(S)
  BY <1>1, RepairAssumption, FS_Subset
<1>3. Imports!Max(S) \in Prices
  <2>1. \E x \in S : \A y \in S : x >= y
    BY <1>1, <1>2, FiniteMax
  <2> QED BY <1>1, <2>1 DEF Imports!Max
<1>4. Imports!Min(S) \in Prices
  <2>1. \E x \in S : \A y \in S : x <= y
    BY <1>1, <1>2, FiniteMin
  <2> QED BY <1>1, <2>1 DEF Imports!Min
<1>5. j.exit = None
  BY DEF TrackedJson
<1>6. Imports!Measured(j) = [j EXCEPT !.peak = Imports!Max(S), !.trough = Imports!Min(S),
                                      !.whole = FALSE]
  BY <1>5 DEF Imports!Measured, S
<1> QED BY <1>3, <1>4, <1>6 DEF TrackedJson

LEMMA ImportsCommit == ImportsInv /\ Imports!CommitExtremes => ImportsInv'
<1> SUFFICES ASSUME ImportsInv, Imports!CommitExtremes PROVE ImportsInv'
  OBVIOUS
<1>1. /\ meter # None /\ meter' = None /\ DOMAIN watchRows = Imported
      /\ UNCHANGED <<repairNow, feed, cycle, pricer, importer>>
      /\ watchRows' = [w \in Imported |->
                         IF w \in Imports!Changed
                         THEN [watchRows[w] EXCEPT !.json = Imports!Measured(meter.rows[w])]
                         ELSE watchRows[w]]
  BY DEF Imports!CommitExtremes, ImportsInv
<1>2. ASSUME NEW w \in Imports!Changed
      PROVE  watchRows'[w] \in TrackedRows
  <2>1. /\ w \in Imported /\ meter.rows[w] \in TrackedJson /\ watchRows[w] \in TrackedRows
    BY <1>1 DEF Imports!Changed, ImportsInv
  <2>2. PICK j \in TrackedJson : j = Imports!Measured(meter.rows[w])
    BY <2>1, ImportMeasured
  <2>3. watchRows'[w] = [watchRows[w] EXCEPT !.json = j]
    BY <1>1, <2>1, <2>2
  <2> QED BY <2>1, <2>3 DEF TrackedRows
<1>3. \A w \in Imported : /\ watchRows'[w] \in TrackedRows \cup {None}
                          /\ watchRows[w] # None => watchRows'[w] # None
  BY <1>1, <1>2, SomeRow DEF ImportsInv
<1> QED BY <1>1, <1>3 DEF ImportsInv

LEMMA ImportsNext ==
  ASSUME ImportsInv, Imports!Next \/ UNCHANGED repairVars
  PROVE  ImportsInv'
<1>1. CASE UNCHANGED repairVars
  BY <1>1 DEF repairVars, ImportsInv
<1>2. CASE Imports!TimePasses
  <2>1. /\ repairNow \in Nat /\ repairNow' = repairNow + 1
        /\ UNCHANGED <<watchRows, cycle, pricer, meter, importer>>
    BY <1>2 DEF ImportsInv, Imports!TimePasses
  <2>2. PICK m \in Imports!MarketData :
          feed' = [t \in 0..repairNow + 1 |-> IF t = repairNow + 1 THEN m ELSE feed[t]]
    BY <1>2 DEF Imports!TimePasses
  <2>3. feed' \in [0..repairNow' -> Imports!MarketData]
    BY <2>1, <2>2 DEF ImportsInv
  <2> QED BY <2>1, <2>3 DEF ImportsInv
<1>3. Imports!Stored \subseteq Imported /\ \A w \in Imports!Stored : watchRows[w] \in TrackedRows
  BY DEF ImportsInv, Imports!Stored
<1>4. CASE Imports!ReadCycle
  BY <1>3, <1>4 DEF ImportsInv, Imports!ReadCycle, TrackedRows
<1>5. ~Imports!LoadCandidates /\ ~Imports!CommitPrices
  BY DEF ImportsInv, Imports!LoadCandidates, Imports!Candidates, Imports!CommitPrices
<1>6. CASE Imports!LoadWatches
  <2>1. PICK force \in BOOLEAN :
          meter' = [at |-> repairNow,
                    rows |-> [w \in {v \in Imports!Stored : force \/ watchRows[v].json.peak = None}
                                |-> watchRows[w].json]]
    BY <1>6 DEF Imports!LoadWatches
  <2>2. /\ DOMAIN meter'.rows \subseteq Imports!Stored
        /\ \A w \in DOMAIN meter'.rows : meter'.rows[w] = watchRows[w].json
    BY <2>1
  <2>3. UNCHANGED <<repairNow, feed, watchRows, cycle, pricer, importer>>
    BY <1>6 DEF Imports!LoadWatches
  <2>4. \A w \in DOMAIN meter'.rows : meter'.rows[w] \in TrackedJson /\ watchRows'[w] # None
    BY <1>3, <2>2, <2>3 DEF TrackedRows, Imports!Stored
  <2> QED BY <1>3, <2>2, <2>3, <2>4 DEF ImportsInv
<1>7. CASE Imports!InsertConfig \/ Imports!RefuseImport \/ Imports!EndImport \/ Imports!Kill
  BY <1>7 DEF ImportsInv, Imports!InsertConfig, Imports!RefuseImport, Imports!EndImport, Imports!Kill
<1>8. ASSUME NEW h \in Imported, Imports!InsertHolding(h) PROVE ImportsInv'
  <2>1. Imports!Close \in Prices
    BY DEF ImportsInv, Imports!Close, Imports!MarketData
  <2>2. Imports!Row(Imports!Holding(Imports!Close, repairNow)) \in TrackedRows
    BY <2>1, HeldRow DEF ImportsInv
  <2> QED BY <1>8, <2>2, SomeRow DEF ImportsInv, Imports!InsertHolding
<1>9. ASSUME NEW w, Imports!Handle(w) PROVE ImportsInv'
  <2>1. /\ w \in DOMAIN cycle /\ cycle[w].status = "holding"
        /\ UNCHANGED <<repairNow, feed, pricer, meter, importer>>
    BY <1>9 DEF ImportsInv, Imports!Handle, TrackedJson
  <2>2. cycle' = [v \in DOMAIN cycle \ {w} |-> cycle[v]]
    BY <1>9 DEF Imports!Handle, Imports!Unread
  <2>3. watchRows' = watchRows
    BY <1>9, <2>1 DEF ImportsInv, Imports!Handle, Imports!CheckHolding, Imports!OfLiveConfig,
                      Imports!SkipTracked, Imports!StartCoolingOff, Imports!CheckCoolingOff,
                      Imports!IgnoreSealed
  <2> QED BY <2>1, <2>2, <2>3 DEF ImportsInv
<1> QED BY <1>1, <1>2, <1>4, <1>5, <1>6, <1>7, <1>8, <1>9, ImportsCommit DEF Imports!Next

LEMMA ImportsStand == ImportsInv => Imports!TrackedStand /\ Imports!RowsAgree
BY DEF ImportsInv, TrackedRows, TrackedJson, Imports!TrackedStand, Imports!RowsAgree

-----------------------------------------------------------------------------
(* The theorem of all three parts.                                         *)

DataInv ==
  /\ part = "snapshots" => SnapshotsInv
  /\ part = "repairs" => RepairsInv
  /\ part = "imports" => ImportsInv

(* What was captured at a decision stands, in the row, in the file and in  *)
(* the archive, whatever scripts and archivers do beside each other; an    *)
(* exit that was recorded keeps its time and its reason and the price of   *)
(* some minute before it, in rows whose columns agree, unless a script has *)
(* torn them; and what an import tracks is never exited.                   *)
THEOREM SealedDataStand == Spec => []SealedStands
<1>1. Init => DataInv
  BY SnapshotsInitially, RepairsInitially, ImportsInitially DEF Init, DataInv
<1>2. DataInv /\ [Next]_vars => DataInv'
  <2> SUFFICES ASSUME DataInv, [Next]_vars PROVE DataInv'
    OBVIOUS
  <2>0. part' = part
    BY DEF Next, vars
  <2>1. part = "snapshots" => SnapshotsInv'
    BY SnapshotsStep, SnapshotsNext DEF DataInv
  <2>2. part = "repairs" => RepairsInv'
    BY RepairsStep, RepairsNext DEF DataInv
  <2>3. part = "imports" => ImportsInv'
    BY ImportsStep, ImportsNext DEF DataInv
  <2> QED BY <2>0, <2>1, <2>2, <2>3 DEF DataInv
<1>3. DataInv => SealedStands
  BY SnapshotsStand, RepairsStand, ImportsStand DEF DataInv, SealedStands
<1> QED BY <1>1, <1>2, <1>3, PTL DEF Spec

-----------------------------------------------------------------------------
(* Market data.                                                            *)

LEMMA MarketStep ==
  ASSUME [Next]_vars, part = "market"
  PROVE  part' = "market" /\ (Market!Next \/ UNCHANGED marketVars)
BY DEF Next, NextBacktest, NextDelta, NextPrice, NextRecord, vars, priceVars

(* What the cache has was observed when its stamp was put or later, and    *)
(* what a request takes from it was then less than a day old.              *)
Observed(x) == x.at \in Int /\ x.seen \in Int /\ x.at <= x.seen

CacheFresh ==
  /\ asked \in Int
  /\ \A s \in Quoted : cache[s] # None => Observed(cache[s])
  /\ page # Market!NoCall =>
       /\ page.at \in Int /\ page.at <= asked
       /\ page.symbols \subseteq Quoted
       /\ \A s \in DOMAIN page.hits : Observed(page.hits[s]) /\ page.hits[s].seen > page.at - Ttl

MarketInv == CacheFresh /\ Market!MetricsServed

LEMMA MarketInitially == Market!Init => MarketInv
BY DEF Market!Init, MarketInv, CacheFresh, Market!MetricsServed, Market!NoCall

LEMMA AnswersObserved ==
  ASSUME CacheFresh, Market!Fetch
  PROVE  CacheFresh' /\ Market!MetricsServed'
<1> DEFINE missing == page.symbols \ DOMAIN page.hits
           got == [s \in missing |-> [at |-> page.at, seen |-> asked, known |-> Market!Known(s, FALSE)]]
<1>1. /\ page.at \in Int /\ page.at <= asked /\ asked \in Int /\ asked' = asked
      /\ page.symbols \subseteq Quoted /\ page' = Market!NoCall
  BY DEF CacheFresh, Market!Fetch
<1>2. \A s \in missing : Observed(got[s]) /\ got[s].seen > page.at - Ttl
  BY <1>1, MarketAssumption DEF Observed
<1>3. cache' = [s \in Quoted |-> IF s \in missing /\ Market!Kept(got[s].known) THEN got[s] ELSE cache[s]]
  BY DEF Market!Fetch
<1>4. call' = [kind |-> "page", at |-> page.at,
               answer |-> [s \in page.symbols |-> IF s \in missing THEN got[s] ELSE page.hits[s]]]
  BY DEF Market!Fetch
<1> HIDE DEF got
<1>5. CacheFresh'
  BY <1>1, <1>2, <1>3 DEF CacheFresh
<1>6. \A s \in page.symbols :
        IF s \in missing THEN got[s].seen > page.at - Ttl ELSE page.hits[s].seen > page.at - Ttl
  BY <1>2 DEF CacheFresh, Market!Fetch
<1>7. /\ call'.kind = "page" /\ call'.at = page.at /\ DOMAIN call'.answer = page.symbols
      /\ \A s \in page.symbols : call'.answer[s] = IF s \in missing THEN got[s] ELSE page.hits[s]
  BY <1>4
<1>8. \A s \in DOMAIN call'.answer : call'.answer[s].seen > call'.at - Ttl
  BY <1>6, <1>7
<1> QED BY <1>5, <1>7, <1>8 DEF Market!MetricsServed

LEMMA QuotesServed == Market!AskQuotes => Market!MetricsServed'
<1> SUFFICES ASSUME Market!AskQuotes PROVE Market!MetricsServed'
  OBVIOUS
<1>1. /\ call' = [kind |-> "quotes", batch |-> Market!Quotes,
                  single |-> [s \in Quoted |-> Market!Quote(s)]]
      /\ ans' = ans
  BY DEF Market!AskQuotes
<1>2. /\ call'.kind = "quotes" /\ call'.batch = Market!Quotes
      /\ \A s \in Quoted : call'.single[s] = Market!Quote(s)
  BY <1>1
<1>3. ASSUME NEW s \in Quoted,
             \/ ans.up /\ Market!Has(ans.of[s].schwab, "price")
             \/ Market!Has(ans.of[s].yahoo, "price") \/ ans.of[s].finnhub
      PROVE  /\ Market!Quote(s) # None
             /\ Market!Quotes[s] = None => Market!SchwabKnows \ {s} # {} \/ s \in ClassShares
  <2>1. \/ s \in Market!SchwabKnows /\ ans.up
        \/ Market!Fallback(s) # None
    BY <1>3, MarketAssumption DEF Market!SchwabKnows, Market!Fallback, Market!Has
  <2>2. Market!Quote(s) # None
    BY <2>1, MarketAssumption DEF Market!Quote
  <2>3. Market!Quotes[s] = IF Market!SchwabKnows = {} THEN Market!Fallback(s)
                           ELSE IF s \in Market!SchwabKnows \ ClassShares THEN "schwab" ELSE None
    BY DEF Market!Quotes
  <2> QED BY <2>1, <2>2, <2>3, MarketAssumption
<1>4. Market!SchwabKnows' = Market!SchwabKnows
  BY <1>1 DEF Market!SchwabKnows
<1> QED BY <1>1, <1>2, <1>3, <1>4 DEF Market!MetricsServed, Market!Has

LEMMA MetricsSealed ==
  ASSUME NEW s \in Quoted, Market!Seal(s)
  PROVE  Market!MetricsServed'
<1>1. /\ call' = [kind |-> "seal", symbol |-> s, known |-> Market!Known(s, TRUE)] /\ ans' = ans
  BY DEF Market!Seal
<1>2. call'.kind = "seal" /\ call'.symbol = s /\ call'.known = Market!Known(s, TRUE)
  BY <1>1
<1>3. ASSUME NEW m \in Market!Cached,
             (m # "cap" /\ Market!Has(Market!Listed(s), m)) \/ Market!Has(ans.of[s].yahoo, m)
      PROVE  m \in Market!Known(s, TRUE)
  BY <1>3 DEF Market!Cached, Market!Metrics, Market!Known, Market!FirstKnown
<1>4. Market!Listed(s)' = Market!Listed(s)
  BY <1>1 DEF Market!Listed
<1> QED BY <1>1, <1>2, <1>3, <1>4 DEF Market!MetricsServed, Market!Has

LEMMA MarketStepKeeps == MarketInv /\ (Market!Next \/ UNCHANGED marketVars) => MarketInv'
<1> SUFFICES ASSUME MarketInv, Market!Next \/ UNCHANGED marketVars PROVE MarketInv'
  OBVIOUS
<1>0. CacheFresh
  BY DEF MarketInv
<1>1. ASSUME call'.kind \notin {"seal", "page", "quotes"} PROVE Market!MetricsServed'
  BY <1>1 DEF Market!MetricsServed
<1>2. Market!NoCall.kind = "none"
  BY DEF Market!NoCall
<1>3. CASE Market!Vendors
  BY <1>0, <1>1, <1>2, <1>3 DEF Market!Vendors, MarketInv, CacheFresh
<1>4. CASE Market!AskQuotes
  <2>1. CacheFresh'
    BY <1>0, <1>4 DEF Market!AskQuotes, CacheFresh
  <2> QED BY <1>4, <2>1, QuotesServed DEF MarketInv
<1>5. CASE Market!Fetch
  BY <1>0, <1>5, AnswersObserved DEF MarketInv
<1>6. CASE Market!Tick
  <2>1. asked' = asked + 1 /\ call' = Market!NoCall /\ UNCHANGED <<cache, page>>
    BY <1>6 DEF Market!Tick
  <2>2. CacheFresh'
    BY <1>0, <2>1 DEF CacheFresh
  <2> QED BY <1>1, <1>2, <2>1, <2>2 DEF MarketInv
<1>7. ASSUME NEW s \in Quoted, Market!Seal(s) PROVE MarketInv'
  <2>1. CacheFresh'
    BY <1>0, <1>7 DEF Market!Seal, CacheFresh
  <2> QED BY <1>7, <2>1, MetricsSealed DEF MarketInv
<1>8. ASSUME NEW s \in Quoted, Market!Evaluate(s) PROVE MarketInv'
  <2>1. CacheFresh'
    BY <1>0, <1>8 DEF Market!Evaluate, CacheFresh
  <2>2. call'.kind = "live"
    BY <1>8 DEF Market!Evaluate
  <2> QED BY <1>1, <2>1, <2>2 DEF MarketInv
<1>9. ASSUME NEW kind, NEW S \in Requests, Market!Lookup(kind, S) PROVE MarketInv'
  <2>1. /\ page' = [kind |-> kind, at |-> asked, symbols |-> S,
                    hits |-> [s \in {t \in S : Market!Fresh(t)} |-> cache[s]]]
        /\ call' = Market!NoCall /\ UNCHANGED <<asked, cache>>
    BY <1>9 DEF Market!Lookup
  <2>2. S \subseteq Quoted
    BY MarketAssumption
  <2>3. /\ page'.at = asked /\ page'.symbols = S
        /\ DOMAIN page'.hits = {t \in S : Market!Fresh(t)}
        /\ \A s \in DOMAIN page'.hits : page'.hits[s] = cache[s]
    BY <2>1
  <2>4. \A s \in DOMAIN page'.hits : Observed(cache[s]) /\ cache[s].seen > asked - Ttl
    BY <1>0, <2>2, <2>3, MarketAssumption DEF CacheFresh, Market!Fresh, Observed
  <2>5. CacheFresh'
    BY <1>0, <2>1, <2>2, <2>3, <2>4 DEF CacheFresh
  <2> QED BY <1>1, <1>2, <2>1, <2>5 DEF MarketInv
<1>10. CASE UNCHANGED marketVars
  <2>1. UNCHANGED <<asked, ans, cache, page, call>>
    BY <1>10 DEF marketVars
  <2> QED BY <1>0, <2>1 DEF MarketInv, CacheFresh, Market!MetricsServed, Market!Has, Market!Listed,
                            Market!SchwabKnows
<1> QED BY <1>3, <1>4, <1>5, <1>6, <1>7, <1>8, <1>9, <1>10 DEF Market!Next

(* Whatever a vendor leaves out, a metric that it or another tells is      *)
(* sealed, what is shown was observed less than Ttl before, and a priced   *)
(* symbol has a quote, unless Schwab knew only a part of its batch         *)
(* (get_quotes_with_fundamentals, get_quotes).                             *)
THEOREM MetricsAreServed == Spec => []MetricsServed
<1> DEFINE Inv == part = "market" => MarketInv
<1>1. Init => Inv
  BY MarketInitially DEF Init
<1>2. Inv /\ [Next]_vars => Inv'
  <2> SUFFICES ASSUME Inv, [Next]_vars, part' = "market" PROVE MarketInv'
    OBVIOUS
  <2>1. part = "market"
    BY DEF Next, vars
  <2> QED BY <2>1, MarketStep, MarketStepKeeps
<1>3. Inv => MetricsServed
  BY DEF MarketInv, MetricsServed
<1> QED BY <1>1, <1>2, <1>3, PTL DEF Spec

-----------------------------------------------------------------------------
(* When a strategy exits.                                                  *)

(* What a step of the composition is for the strategies.                   *)
LEMMA ExitsStep ==
  ASSUME [Next]_vars, part = "exits"
  PROVE  part' = "exits" /\ (Exits!Next \/ UNCHANGED exitVars)
BY DEF Next, NextBacktest, NextDelta, NextPrice, NextRecord, vars, backtestVars

(* The bars b with signals f are, up to the n-th, the bars c with g.       *)
Agree(b, f, c, g, n) ==
  /\ Len(f) = Len(b) /\ Len(g) = Len(c) /\ n <= Len(b) /\ n <= Len(c)
  /\ \A i \in 1 .. n : b[i] = c[i] /\ f[i] = g[i]

(* What is asked of a bar that both have is answered alike.                *)
LEMMA SameAnswers ==
  ASSUME NEW b \in Seq(ExitBars), NEW c \in Seq(ExitBars), NEW f, NEW g,
         NEW n \in Int, Agree(b, f, c, g, n), NEW s \in Nat \ {0}, NEW i \in s .. n
  PROVE  /\ Exits!GuardHit(b, i) <=> Exits!GuardHit(c, i)
         /\ Exits!StrategyHit(b, f, s, i) <=> Exits!StrategyHit(c, g, s, i)
         /\ Exits!TrailHit(b, s, i) <=> Exits!TrailHit(c, s, i)
         /\ Exits!GuardReason(b, i) = Exits!GuardReason(c, i)
         /\ Exits!StrategyReason(b, i) = Exits!StrategyReason(c, i)
<1>1. /\ Len(b) \in Nat /\ Len(c) \in Nat /\ Len(f) \in Nat /\ Len(g) \in Nat
      /\ i \in 1 .. n /\ i <= Len(f) /\ i <= Len(g)
  BY LenProperties DEF Agree
<1>2. b[i] = c[i] /\ f[i] = g[i]
  BY <1>1 DEF Agree
<1>3. Exits!Peak(b, s, i) = Exits!Peak(c, s, i)
  <2>1. ASSUME NEW j \in s .. i
        PROVE  b[j].high = c[j].high
    <3>1. j \in 1 .. n
      BY <1>1
    <3> QED BY <3>1 DEF Agree
  <2>2. {b[j].high : j \in s .. i} = {c[j].high : j \in s .. i}
    BY <2>1
  <2> QED BY <2>2 DEF Exits!Peak
<1>4. Exits!TrailHit(b, s, i) <=> Exits!TrailHit(c, s, i)
  BY <1>2, <1>3 DEF Exits!TrailHit
<1>5. Exits!GuardHit(b, i) <=> Exits!GuardHit(c, i)
  BY <1>2 DEF Exits!GuardHit
<1>6. Exits!SignalHit(f, i) <=> Exits!SignalHit(g, i)
  BY <1>1, <1>2 DEF Exits!SignalHit
<1>7. Exits!LevelHit(b, i) <=> Exits!LevelHit(c, i)
  BY <1>2 DEF Exits!LevelHit
<1>8. Exits!StrategyHit(b, f, s, i) <=> Exits!StrategyHit(c, g, s, i)
  BY <1>4, <1>6, <1>7 DEF Exits!StrategyHit, Exits!DivergenceHit
<1>9. /\ Exits!GuardReason(b, i) = Exits!GuardReason(c, i)
      /\ Exits!StrategyReason(b, i) = Exits!StrategyReason(c, i)
  BY <1>2 DEF Exits!GuardReason, Exits!StrategyReason
<1> QED BY <1>4, <1>5, <1>8, <1>9

(* Where a runner is hit, and where the trailing guard is.                 *)
HitsOf(b, f) == {i \in Exits!RunFrom(b) .. Len(b) :
                   Exits!GuardHit(b, i) \/ Exits!StrategyHit(b, f, Exits!RunFrom(b), i)}

(* The bars of the trailing guard.                                         *)
TrailsOf(b) == {i \in Exits!RunFrom(b) .. Len(b) : plan.trail /\ Exits!TrailHit(b, Exits!RunFrom(b), i)}

(* The reason of an exit at bar i.                                         *)
ReasonOf(b, i) == IF Exits!GuardHit(b, i) THEN Exits!GuardReason(b, i) ELSE Exits!StrategyReason(b, i)

(* What a runner says: the first bar that is hit, or none.                 *)
RunnerOf(b, f) == IF HitsOf(b, f) = {} THEN Exits!StillOpen(b)
                  ELSE [at |-> Exits!Min(HitsOf(b, f)), why |-> ReasonOf(b, Exits!Min(HitsOf(b, f)))]

(* An evaluation in these words.                                           *)
LEMMA EvaluationIs ==
  ASSUME NEW b, NEW f
  PROVE  Exits!EvaluateExit(b, f)
           = IF TrailsOf(b) # {} /\ Exits!TrailFirst(RunnerOf(b, f), Exits!Min(TrailsOf(b)))
             THEN [at |-> Exits!Min(TrailsOf(b)), why |-> "guard_trail"]
             ELSE RunnerOf(b, f)
<1>1. Exits!Runner(b, f) = RunnerOf(b, f)
  BY DEF Exits!Runner, RunnerOf, HitsOf, ReasonOf
<1> QED BY <1>1 DEF Exits!EvaluateExit, TrailsOf

(* Reasons of an exit.                                                     *)
LEMMA ExitsHaveReasons ==
  ASSUME NEW b, NEW i
  PROVE  ReasonOf(b, i) \in {"stop", "target", "time", "signal", "guard_stop", "guard_target"}
BY DEF ReasonOf, Exits!GuardReason, Exits!StrategyReason

(* The least of a set of numbers.                                          *)
LEMMA LeastIs ==
  ASSUME NEW T, T \subseteq Nat, T # {}
  PROVE  /\ Exits!Min(T) \in T /\ Exits!Min(T) \in Nat
         /\ \A n \in T : Exits!Min(T) <= n
<1>1. \E m \in T : \A n \in T : m <= n
  BY LeastNat
<1>2. Exits!Min(T) = CHOOSE x \in T : \A y \in T : x <= y
  BY DEF Exits!Min
<1> QED BY <1>1, <1>2

(* A lower bound that is in the set is it.                                 *)
LEMMA LeastIsOne ==
  ASSUME NEW T, T \subseteq Nat, NEW m \in T, \A n \in T : m <= n
  PROVE  Exits!Min(T) = m
<1>1. Exits!Min(T) \in T /\ Exits!Min(T) \in Nat /\ Exits!Min(T) <= m /\ m \in Nat
  BY LeastIs
<1> QED BY <1>1

(* With min_hold over, the strategy runs from the bar after it.            *)
LEMMA RunsFrom ==
  ASSUME NEW b \in Seq(ExitBars), Len(b) >= 1 + MinHold
  PROVE  Exits!RunFrom(b) = 1 + MinHold
<1>1. Len(b) \in Nat /\ MinHold \in Nat
  BY LenProperties, ExitAssumption
<1>2. Exits!Min({1 + MinHold, Len(b)}) = 1 + MinHold
  <2> DEFINE T == {1 + MinHold, Len(b)}
  <2>1. T \subseteq Nat /\ 1 + MinHold \in T /\ \A k \in T : 1 + MinHold <= k
    BY <1>1
  <2> HIDE DEF T
  <2>2. Exits!Min(T) = 1 + MinHold
    BY <2>1, LeastIsOne
  <2> QED BY <2>2 DEF T
<1> QED BY <1>2 DEF Exits!RunFrom

(* Up to the n-th bar both have the same hits, for the same reasons.       *)
LEMMA SameHits ==
  ASSUME NEW b \in Seq(ExitBars), NEW c \in Seq(ExitBars), NEW f, NEW g,
         NEW n \in Int, Agree(b, f, c, g, n), Len(b) >= 1 + MinHold, Len(c) >= 1 + MinHold
  PROVE  /\ \A i \in Int : i <= n => /\ i \in HitsOf(b, f) <=> i \in HitsOf(c, g)
                                     /\ i \in TrailsOf(b) <=> i \in TrailsOf(c)
         /\ \A i \in HitsOf(b, f) : i <= n => ReasonOf(b, i) = ReasonOf(c, i)
         /\ HitsOf(b, f) \subseteq 1 .. Len(b) /\ TrailsOf(b) \subseteq 1 .. Len(b)
         /\ HitsOf(c, g) \subseteq 1 .. Len(c) /\ TrailsOf(c) \subseteq 1 .. Len(c)
<1>1. /\ MinHold \in Nat /\ Len(b) \in Nat /\ Len(c) \in Nat
      /\ Exits!RunFrom(b) = 1 + MinHold /\ Exits!RunFrom(c) = 1 + MinHold
  BY RunsFrom, ExitAssumption, LenProperties
<1>2. PICK s \in Nat \ {0} : s = 1 + MinHold
  BY <1>1
<1>3. /\ HitsOf(b, f) = {i \in s .. Len(b) : Exits!GuardHit(b, i) \/ Exits!StrategyHit(b, f, s, i)}
      /\ HitsOf(c, g) = {i \in s .. Len(c) : Exits!GuardHit(c, i) \/ Exits!StrategyHit(c, g, s, i)}
      /\ TrailsOf(b) = {i \in s .. Len(b) : plan.trail /\ Exits!TrailHit(b, s, i)}
      /\ TrailsOf(c) = {i \in s .. Len(c) : plan.trail /\ Exits!TrailHit(c, s, i)}
  BY <1>1, <1>2 DEF HitsOf, TrailsOf
<1>4. n <= Len(b) /\ n <= Len(c)
  BY DEF Agree
<1>5. ASSUME NEW i \in Int, i <= n
      PROVE  /\ i \in HitsOf(b, f) <=> i \in HitsOf(c, g)
             /\ i \in TrailsOf(b) <=> i \in TrailsOf(c)
             /\ i \in HitsOf(b, f) => ReasonOf(b, i) = ReasonOf(c, i)
  <2>1. CASE i \in s .. n
    BY <2>1, <1>1, <1>3, <1>4, SameAnswers DEF ReasonOf
  <2>2. CASE i \notin s .. n
    BY <2>2, <1>3, <1>5
  <2> QED BY <2>1, <2>2
<1> QED BY <1>1, <1>2, <1>3, <1>5

(* The bars so far decide as all do: what is decided before the last of    *)
(* them stands.                                                            *)
LEMMA PrefixDecides ==
  ASSUME NEW b \in Seq(ExitBars), NEW c \in Seq(ExitBars), NEW f, NEW g,
         Agree(b, f, c, g, Len(b) - 1), 1 + MinHold <= Len(b), Len(b) <= Len(c),
         Exits!EvaluateExit(b, f).at < Len(b)
  PROVE  Exits!EvaluateExit(c, g) = Exits!EvaluateExit(b, f)
<1> DEFINE H == HitsOf(b, f)
           K == HitsOf(c, g)
           T == TrailsOf(b)
           U == TrailsOf(c)
           n == Len(b)
           r == RunnerOf(b, f)
           q == RunnerOf(c, g)
<1>1. n \in Nat /\ Len(c) \in Nat /\ MinHold \in Nat /\ Len(c) >= 1 + MinHold
  BY LenProperties, ExitAssumption
<1>2. /\ \A i \in Int : i < n => (i \in H <=> i \in K) /\ (i \in T <=> i \in U)
      /\ \A i \in H : i < n => ReasonOf(b, i) = ReasonOf(c, i)
      /\ H \subseteq 1 .. n /\ T \subseteq 1 .. n /\ K \subseteq 1 .. Len(c) /\ U \subseteq 1 .. Len(c)
  BY <1>1, SameHits
<1>3. /\ H # {} => r = [at |-> Exits!Min(H), why |-> ReasonOf(b, Exits!Min(H))]
      /\ H = {} => r = [at |-> n, why |-> "still_open"]
      /\ K # {} => q = [at |-> Exits!Min(K), why |-> ReasonOf(c, Exits!Min(K))]
      /\ K = {} => q = [at |-> Len(c), why |-> "still_open"]
  BY DEF RunnerOf, Exits!StillOpen
<1>4. \A S \in SUBSET Nat : \A m \in S : (\A k \in S : m <= k) => Exits!Min(S) = m
  BY LeastIsOne
<1>5. \A S \in SUBSET Nat : S # {} => /\ Exits!Min(S) \in S /\ Exits!Min(S) \in Nat
                                      /\ \A k \in S : Exits!Min(S) <= k
  BY LeastIs
<1>6. H \in SUBSET Nat /\ K \in SUBSET Nat /\ T \in SUBSET Nat /\ U \in SUBSET Nat
  BY <1>1, <1>2
<1>7. /\ Exits!EvaluateExit(b, f)
           = IF T # {} /\ Exits!TrailFirst(r, Exits!Min(T))
             THEN [at |-> Exits!Min(T), why |-> "guard_trail"] ELSE r
      /\ Exits!EvaluateExit(c, g)
           = IF U # {} /\ Exits!TrailFirst(q, Exits!Min(U))
             THEN [at |-> Exits!Min(U), why |-> "guard_trail"] ELSE q
  BY EvaluationIs
<1> HIDE DEF H, K, T, U, r, q
<1>8. ASSUME NEW m \in T, m < n, \A k \in T : m <= k
      PROVE  m \in U /\ (\A k \in U : m <= k) /\ Exits!Min(T) = m /\ Exits!Min(U) = m
  <2>1. m \in Nat /\ m \in U
    BY <1>1, <1>2, <1>6, <1>8
  <2>2. ASSUME NEW k \in U
        PROVE  m <= k
    BY <2>1, <1>1, <1>2, <1>6, <1>8
  <2> QED BY <2>1, <2>2, <1>4, <1>6, <1>8
<1>9. CASE \E i \in H : i < n
  <2>1. PICK i \in H : i < n
    BY <1>9
  <2>2. PICK m \in Nat : m = Exits!Min(H)
    BY <2>1, <1>5, <1>6
  <2>3. m \in H /\ m < n /\ \A k \in H : m <= k
    <3>1. m \in H /\ \A k \in H : m <= k
      BY <2>1, <2>2, <1>5, <1>6
    <3>2. i \in Nat /\ m <= i
      BY <3>1, <2>1, <1>6
    <3> QED BY <3>1, <3>2, <2>1, <2>2, <1>1
  <2>4. m \in K /\ \A k \in K : m <= k
    <3>1. m \in K
      BY <2>2, <2>3, <1>2
    <3>2. ASSUME NEW k \in K
          PROVE  m <= k
      <4>1. k \in Nat
        BY <1>6
      <4> QED BY <4>1, <2>2, <2>3, <1>1, <1>2
    <3> QED BY <3>1, <3>2
  <2>5. Exits!Min(K) = m
    BY <2>4, <1>4, <1>6
  <2>6. q = r /\ r = [at |-> m, why |-> ReasonOf(b, m)]
    BY <2>2, <2>3, <2>4, <2>5, <1>2, <1>3
  <2>7. ReasonOf(b, m) # "still_open" /\ r.why = ReasonOf(b, m) /\ r.at = m
    BY <2>6, ExitsHaveReasons
  <2>8. PICK e \in Int : e = Exits!RunnerBar(r) /\ e < n
    BY <2>2, <2>3, <2>7, <1>1 DEF Exits!RunnerBar
  <2>9. \A t : Exits!TrailFirst(r, t) <=> t <= e
    BY <2>7, <2>8 DEF Exits!TrailFirst
  <2>10. CASE T # {} /\ Exits!Min(T) <= e
    <3>1. PICK t \in Nat : t = Exits!Min(T)
      BY <2>10, <1>5, <1>6
    <3>2. t \in T /\ t < n /\ t <= e /\ \A k \in T : t <= k
      BY <3>1, <2>10, <2>8, <1>1, <1>5, <1>6
    <3>3. Exits!Min(U) = t /\ U # {}
      BY <3>2, <1>8
    <3> QED BY <3>1, <3>2, <3>3, <2>6, <2>9, <1>7
  <2>11. CASE ~(T # {} /\ Exits!Min(T) <= e)
    <3>1. ~(U # {} /\ Exits!Min(U) <= e)
      <4> SUFFICES ASSUME U # {}, Exits!Min(U) <= e PROVE FALSE
        OBVIOUS
      <4>1. PICK t \in Nat : t = Exits!Min(U)
        BY <1>5, <1>6
      <4>2. t \in U /\ t <= e /\ t < n
        BY <4>1, <2>8, <1>1, <1>5, <1>6
      <4>3. t \in T
        BY <4>1, <4>2, <1>2
      <4>4. T # {} /\ Exits!Min(T) \in Nat /\ Exits!Min(T) <= t
        BY <4>3, <1>5, <1>6
      <4> QED BY <4>2, <4>4, <2>8, <2>11
    <3> QED BY <3>1, <2>6, <2>9, <2>11, <1>7
  <2> QED BY <2>10, <2>11
<1>10. CASE \A i \in H : i >= n
  <2>1. r.at = n
    <3>1. CASE H = {}
      BY <3>1, <1>3
    <3>2. CASE H # {}
      <4>1. PICK m \in Nat : m = Exits!Min(H)
        BY <3>2, <1>5, <1>6
      <4>2. m \in H /\ m >= n /\ m <= n
        BY <4>1, <3>2, <1>1, <1>2, <1>5, <1>6, <1>10
      <4> QED BY <4>1, <4>2, <3>2, <1>1, <1>3
    <3> QED BY <3>1, <3>2
  <2>2. T # {} /\ Exits!EvaluateExit(b, f) = [at |-> Exits!Min(T), why |-> "guard_trail"]
    BY <2>1, <1>1, <1>7
  <2>3. PICK t \in Nat : t = Exits!Min(T)
    BY <2>2, <1>5, <1>6
  <2>4. t \in T /\ t < n /\ \A k \in T : t <= k
    BY <2>2, <2>3, <1>5, <1>6
  <2>5. Exits!Min(U) = t /\ U # {}
    BY <2>4, <1>8
  <2>6. Exits!TrailFirst(q, t)
    <3>1. CASE K = {}
      BY <3>1, <1>3 DEF Exits!TrailFirst
    <3>2. CASE K # {}
      <4>1. PICK m \in Nat : m = Exits!Min(K)
        BY <3>2, <1>5, <1>6
      <4>2. m \in K
        BY <4>1, <3>2, <1>5, <1>6
      <4>3. m >= n
        BY <4>1, <4>2, <1>1, <1>2, <1>10
      <4>4. q.at = m
        BY <4>1, <3>2, <1>3
      <4> QED BY <4>1, <4>3, <4>4, <2>3, <2>4, <1>1 DEF Exits!TrailFirst, Exits!RunnerBar
    <3> QED BY <3>1, <3>2
  <2> QED BY <2>2, <2>3, <2>5, <2>6, <1>7
<1>11. H \subseteq Int /\ n \in Int
  BY <1>1, <1>6
<1> QED BY <1>9, <1>10, <1>11

(* Bars on which the strategy is still open, have no exit in what they     *)
(* begin with.                                                             *)
LEMMA OpenHadNoExit ==
  ASSUME NEW b \in Seq(ExitBars), NEW c \in Seq(ExitBars), NEW f, NEW g,
         Agree(b, f, c, g, Len(b)), 1 + MinHold <= Len(b), Len(b) <= Len(c),
         Exits!EvaluateExit(c, g).why = "still_open"
  PROVE  Exits!EvaluateExit(b, f).why = "still_open"
<1>1. Len(b) \in Nat /\ Len(c) \in Nat /\ MinHold \in Nat /\ Len(c) >= 1 + MinHold
  BY LenProperties, ExitAssumption
<1>2. /\ \A i \in Int : i <= Len(b) => /\ i \in HitsOf(b, f) <=> i \in HitsOf(c, g)
                                       /\ i \in TrailsOf(b) <=> i \in TrailsOf(c)
      /\ HitsOf(b, f) \subseteq 1 .. Len(b) /\ TrailsOf(b) \subseteq 1 .. Len(b)
  BY <1>1, SameHits
<1>3. HitsOf(c, g) = {} /\ TrailsOf(c) = {}
  <2>1. RunnerOf(c, g).why = "still_open"
    BY EvaluationIs
  <2>2. HitsOf(c, g) = {}
    BY <2>1, ExitsHaveReasons DEF RunnerOf
  <2>3. \A t : Exits!TrailFirst(RunnerOf(c, g), t)
    BY <2>1 DEF Exits!TrailFirst
  <2>4. TrailsOf(c) = {}
    BY <2>3, EvaluationIs
  <2> QED BY <2>2, <2>4
<1>4. HitsOf(b, f) = {} /\ TrailsOf(b) = {}
  BY <1>1, <1>2, <1>3
<1> QED BY <1>4, EvaluationIs DEF RunnerOf, Exits!StillOpen

(* The signals that are kept are those of the bars, but for the last one.  *)
CacheOf(b) ==
  /\ cached.len \in 0 .. Len(b) /\ Len(cached.signals) = cached.len
  /\ \A i \in 1 .. cached.len - 1 : cached.signals[i] = b[i].signal

(* With it, decisions stand and no exit is missed.                         *)
ExitInv ==
  /\ bars \in Seq(ExitBars) /\ 1 <= Len(bars) /\ CacheOf(bars)
  /\ live # Exits!NoResult => live.len \in 1 .. Len(bars)
  /\ stored # Exits!NoResult => stored.len \in 1 .. Len(bars)
  /\ Exits!DecisionsStand /\ Exits!NoMissedExit

(* The signals of bars are as many.                                        *)
LEMMA SignalsAre ==
  ASSUME NEW b \in Seq(ExitBars)
  PROVE  /\ Len(b) \in Nat /\ Len(Exits!Signals(b)) = Len(b)
         /\ \A i \in 1 .. Len(b) : Exits!Signals(b)[i] = b[i].signal
BY LenProperties DEF Exits!Signals

(* Initially nothing is decided.                                           *)
LEMMA ExitsInitially == Exits!Init => ExitInv
<1> SUFFICES ASSUME Exits!Init PROVE ExitInv
  OBVIOUS
<1>1. PICK b \in ExitBars : bars = <<b>>
  BY DEF Exits!Init
<1>2. bars \in Seq(ExitBars) /\ Len(bars) = 1
  BY <1>1
<1>3. cached.len = 0 /\ cached.signals = <<>> /\ live = Exits!NoResult /\ stored = Exits!NoResult
  BY DEF Exits!Init, Exits!NoCache
<1>4. live.result.why = "none"
  BY <1>3 DEF Exits!NoResult
<1> QED BY <1>2, <1>3, <1>4
        DEF ExitInv, CacheOf, Exits!DecisionsStand, Exits!Settled, Exits!NoMissedExit

(* An evaluation looks at the plan and nothing else that changes.          *)
LEMMA EvaluationStands ==
  ASSUME NEW b, NEW f, plan' = plan
  PROVE  Exits!EvaluateExit(b, f)' = Exits!EvaluateExit(b, f)
BY DEF Exits!EvaluateExit, Exits!Runner, Exits!TrailFirst, Exits!RunnerBar, Exits!RunFrom,
       Exits!StillOpen, Exits!GuardHit, Exits!StrategyHit, Exits!TrailHit, Exits!Peak,
       Exits!LevelHit, Exits!SignalHit, Exits!DivergenceHit, Exits!TimeHit, Exits!GuardReason,
       Exits!StrategyReason

(* What a whole evaluation will say.                                       *)
LEMMA FreshIs ==
  ASSUME NEW C, bars' = C, plan' = plan
  PROVE  Exits!Fresh' = Exits!EvaluateExit(C, Exits!Signals(C))
<1>1. Exits!Fresh' = Exits!EvaluateExit(C, Exits!Signals(C))'
  BY SMTT(30) DEF Exits!Fresh, Exits!Signals, Exits!EvaluateExit, Exits!Runner, Exits!TrailFirst,
         Exits!RunnerBar, Exits!RunFrom,
         Exits!StillOpen, Exits!GuardHit, Exits!StrategyHit, Exits!TrailHit, Exits!Peak,
         Exits!LevelHit, Exits!SignalHit, Exits!DivergenceHit, Exits!TimeHit,
         Exits!GuardReason, Exits!StrategyReason
<1>2. PICK f : f = Exits!Signals(C)
  OBVIOUS
<1>3. Exits!EvaluateExit(C, Exits!Signals(C))' = Exits!EvaluateExit(C, f)'
  BY <1>2 DEF Exits!Signals, Exits!EvaluateExit
<1> QED BY <1>1, <1>2, <1>3, EvaluationStands

(* What a missed exit of the bars to come is.                              *)
LEMMA MissedIs ==
  ASSUME NEW C, NEW l, bars' = C, live' = l, plan' = plan
  PROVE  Exits!NoMissedExit' <=>
           (l.result.why = "still_open" /\ l.len > 1 + MinHold
              => Exits!EvaluateExit(SubSeq(C, 1, l.len - 1),
                                    Exits!Signals(SubSeq(C, 1, l.len - 1))).why = "still_open")
<1> DEFINE complete == SubSeq(C, 1, l.len - 1)
<1>1. PICK c : c = complete
  OBVIOUS
<1>2. PICK f : f = Exits!Signals(c)
  OBVIOUS
<1>3. Exits!NoMissedExit' <=>
        (l.result.why = "still_open" /\ l.len > 1 + MinHold
           => Exits!EvaluateExit(c, f)'.why = "still_open")
  BY SMTT(30), <1>1, <1>2
     DEF Exits!NoMissedExit, Exits!Signals, Exits!EvaluateExit, Exits!Runner, Exits!TrailFirst,
         Exits!RunnerBar, Exits!RunFrom,
         Exits!StillOpen, Exits!GuardHit, Exits!StrategyHit, Exits!TrailHit, Exits!Peak,
         Exits!LevelHit, Exits!SignalHit, Exits!DivergenceHit, Exits!TimeHit,
         Exits!GuardReason, Exits!StrategyReason
<1> QED BY <1>1, <1>2, <1>3, EvaluationStands

(* When it exits is a number.                                              *)
LEMMA FreshAt ==
  ASSUME NEW b \in Seq(ExitBars), 1 <= Len(b), NEW f
  PROVE  Exits!EvaluateExit(b, f).at \in Nat
<1>1. MinHold \in Nat /\ Len(b) \in Nat
  BY LenProperties, ExitAssumption
<1>2. Exits!RunFrom(b) \in Nat
  <2>1. {1 + MinHold, Len(b)} \subseteq Nat
    BY <1>1
  <2> QED BY <2>1, LeastIs DEF Exits!RunFrom
<1>3. HitsOf(b, f) \subseteq Nat /\ TrailsOf(b) \subseteq Nat
  BY <1>1, <1>2 DEF HitsOf, TrailsOf
<1>4. RunnerOf(b, f).at \in Nat
  <2>1. CASE HitsOf(b, f) = {}
    BY <2>1, <1>1 DEF RunnerOf, Exits!StillOpen
  <2>2. CASE HitsOf(b, f) # {}
    BY <2>2, <1>3, LeastIs DEF RunnerOf
  <2> QED BY <2>1, <2>2
<1>5. TrailsOf(b) # {} => Exits!Min(TrailsOf(b)) \in Nat
  BY <1>3, LeastIs
<1> QED BY <1>4, <1>5, EvaluationIs

(* The bars grow: decisions on complete ones stand.                        *)
LEMMA BarsChange ==
  ASSUME ExitInv, NEW B, NEW C \in Seq(ExitBars), bars = B, bars' = C, Len(B) <= Len(C),
         \A i \in 1 .. Len(B) - 1 : C[i] = B[i], UNCHANGED <<plan, cached, live, stored>>
  PROVE  ExitInv'
<1>1. /\ B \in Seq(ExitBars) /\ Len(B) \in Nat /\ Len(C) \in Nat /\ 1 <= Len(B)
      /\ MinHold \in Nat
  BY LenProperties, ExitAssumption DEF ExitInv
<1>2. /\ Len(Exits!Signals(B)) = Len(B) /\ Len(Exits!Signals(C)) = Len(C)
      /\ \A i \in 1 .. Len(B) : Exits!Signals(B)[i] = B[i].signal
      /\ \A i \in 1 .. Len(C) : Exits!Signals(C)[i] = C[i].signal
  BY <1>1, SignalsAre
<1>3. Agree(B, Exits!Signals(B), C, Exits!Signals(C), Len(B) - 1)
  <2>1. ASSUME NEW i \in 1 .. Len(B) - 1
        PROVE  B[i] = C[i] /\ Exits!Signals(B)[i] = Exits!Signals(C)[i]
    <3>1. i \in 1 .. Len(B) /\ i \in 1 .. Len(C)
      BY <1>1
    <3> QED BY <3>1, <1>2
  <2> QED BY <1>1, <1>2, <2>1 DEF Agree
<1>4. CacheOf(C)'
  <2>1. cached.len \in 0 .. Len(C)
    BY <1>1 DEF ExitInv, CacheOf
  <2>2. ASSUME NEW i \in 1 .. cached.len - 1
        PROVE  cached.signals[i] = C[i].signal
    <3>1. i \in 1 .. Len(B) - 1
      BY <1>1 DEF ExitInv, CacheOf
    <3> QED BY <3>1 DEF ExitInv, CacheOf
  <2> QED BY <2>1, <2>2 DEF ExitInv, CacheOf
<1>5. Exits!DecisionsStand'
  <2>1. PICK fresh : fresh = Exits!EvaluateExit(B, Exits!Signals(B))
    OBVIOUS
  <2>2. Exits!Fresh = fresh /\ Exits!Fresh' = Exits!EvaluateExit(C, Exits!Signals(C))
    BY <2>1, FreshIs DEF Exits!Fresh
  <2>3. ASSUME NEW d \in {live, stored}, Exits!Settled(d)
        PROVE  d.result = Exits!Fresh'
    <3>1. d.len \in 1 .. Len(B) /\ d.result.at < d.len /\ d.len >= 1 + MinHold
      BY <2>3, <1>1 DEF ExitInv, Exits!Settled
    <3>2. d.result = fresh
      BY <2>2, <2>3 DEF ExitInv, Exits!DecisionsStand
    <3>3. fresh.at < Len(B)
      <4>1. fresh.at \in Nat
        BY <2>1, <1>1, FreshAt
      <4> QED BY <4>1, <3>1, <3>2, <1>1
    <3>4. Exits!EvaluateExit(C, Exits!Signals(C)) = fresh
      BY <3>1, <3>3, <2>1, <1>1, <1>3, PrefixDecides
    <3> QED BY <3>2, <3>4, <2>2
  <2> QED BY <2>3 DEF Exits!DecisionsStand, Exits!Settled, Exits!NoResult
<1>6. Exits!NoMissedExit'
  <2>1. PICK l : l = live
    OBVIOUS
  <2>2. SUFFICES ASSUME l.result.why = "still_open", l.len > 1 + MinHold
                 PROVE  Exits!EvaluateExit(SubSeq(C, 1, l.len - 1),
                          Exits!Signals(SubSeq(C, 1, l.len - 1))).why = "still_open"
    BY <2>1, MissedIs
  <2>3. l # Exits!NoResult
    BY <2>2 DEF Exits!NoResult
  <2>4. l.len \in 1 .. Len(B)
    BY <2>1, <2>3 DEF ExitInv
  <2>5. SubSeq(C, 1, l.len - 1) = SubSeq(B, 1, l.len - 1)
    <3>1. PICK m \in Nat : m = l.len - 1 /\ m <= Len(B) - 1
      BY <2>4, <1>1
    <3>2. SubSeq(B, 1, m) \in Seq(ExitBars) /\ SubSeq(C, 1, m) \in Seq(ExitBars)
      BY <1>1, <3>1, SubSeqProperties
    <3>3. Len(SubSeq(B, 1, m)) = m /\ Len(SubSeq(C, 1, m)) = m
      BY <1>1, <3>1, SubSeqProperties
    <3>4. \A i \in 1 .. m : SubSeq(B, 1, m)[i] = SubSeq(C, 1, m)[i]
      BY <1>1, <3>1, SubSeqProperties
    <3> QED BY <3>1, <3>2, <3>3, <3>4, SeqEqual
  <2>6. Exits!EvaluateExit(SubSeq(B, 1, l.len - 1),
                           Exits!Signals(SubSeq(B, 1, l.len - 1))).why = "still_open"
    BY <2>1, <2>2 DEF ExitInv, Exits!NoMissedExit
  <2> QED BY <2>5, <2>6
<1> QED BY <1>1, <1>4, <1>5, <1>6 DEF ExitInv

(* A decision on the bars there are, with signals that are theirs but for  *)
(* the last one.                                                           *)
LEMMA DecidesNow ==
  ASSUME NEW B \in Seq(ExitBars), 1 <= Len(B), NEW f, Len(f) = Len(B),
         \A i \in 1 .. Len(B) - 1 : f[i] = B[i].signal
  PROVE  /\ Len(B) >= 1 + MinHold /\ Exits!EvaluateExit(B, f).at < Len(B)
              => Exits!EvaluateExit(B, f) = Exits!EvaluateExit(B, Exits!Signals(B))
         /\ Len(B) > 1 + MinHold /\ Exits!EvaluateExit(B, f).why = "still_open"
              => Exits!EvaluateExit(SubSeq(B, 1, Len(B) - 1),
                          Exits!Signals(SubSeq(B, 1, Len(B) - 1))).why = "still_open"
<1>1. /\ Len(B) \in Nat /\ MinHold \in Nat /\ Len(Exits!Signals(B)) = Len(B)
      /\ \A i \in 1 .. Len(B) : Exits!Signals(B)[i] = B[i].signal
  BY SignalsAre, ExitAssumption
<1>2. Agree(B, f, B, Exits!Signals(B), Len(B) - 1)
  BY <1>1 DEF Agree
<1>3. Len(B) >= 1 + MinHold /\ Exits!EvaluateExit(B, f).at < Len(B)
        => Exits!EvaluateExit(B, f) = Exits!EvaluateExit(B, Exits!Signals(B))
  BY <1>1, <1>2, PrefixDecides
<1>4. ASSUME Len(B) > 1 + MinHold, Exits!EvaluateExit(B, f).why = "still_open"
      PROVE  Exits!EvaluateExit(SubSeq(B, 1, Len(B) - 1),
                          Exits!Signals(SubSeq(B, 1, Len(B) - 1))).why = "still_open"
  <2>1. PICK m \in Nat : m = Len(B) - 1 /\ m <= Len(B) /\ 1 + MinHold <= m
    <3>1. Len(B) \in Nat /\ MinHold \in Nat /\ Len(B) > 1 + MinHold
      BY <1>1, <1>4
    <3>2. Len(B) - 1 \in Nat /\ Len(B) - 1 <= Len(B) /\ 1 + MinHold <= Len(B) - 1
      BY <3>1
    <3> QED BY <3>2
  <2>2. PICK c : c = SubSeq(B, 1, m)
    OBVIOUS
  <2>3. c \in Seq(ExitBars) /\ Len(c) = m /\ \A i \in 1 .. m : c[i] = B[i]
    <3>1. \A i \in 1 .. m : B[i] \in ExitBars
      BY <2>1, <1>1, ElementOfSeq
    <3>2. c \in Seq(ExitBars) /\ Len(c) = IF 1 <= m THEN m - 1 + 1 ELSE 0
      BY <3>1, <2>2, SubSeqProperties
    <3>3. \A i \in 1 .. m - 1 + 1 : c[i] = B[1 + i - 1]
      BY <3>1, <2>2, SubSeqProperties
    <3>4. m - 1 + 1 = m /\ \A i \in 1 .. m : 1 + i - 1 = i
      BY <2>1
    <3> QED BY <2>1, <3>2, <3>3, <3>4, <1>1
  <2>4. Len(Exits!Signals(c)) = m /\ \A i \in 1 .. m : Exits!Signals(c)[i] = c[i].signal
    BY <2>3, SignalsAre
  <2>5. Agree(c, Exits!Signals(c), B, f, Len(c))
    <3>1. ASSUME NEW i \in 1 .. m
          PROVE  c[i] = B[i] /\ Exits!Signals(c)[i] = f[i]
      <4>1. i \in 1 .. Len(B) - 1
        BY <2>1, <1>1
      <4>2. f[i] = B[i].signal
        BY <4>1
      <4> QED BY <4>2, <2>3, <2>4
    <3> QED BY <3>1, <2>1, <2>3, <2>4 DEF Agree
  <2>6. Exits!EvaluateExit(c, Exits!Signals(c)).why = "still_open"
    BY <2>1, <2>3, <2>5, <1>1, <1>4, OpenHadNoExit
  <2> QED BY <2>1, <2>2, <2>6
<1> QED BY <1>3, <1>4

(* Every step of the monitor, of a backtest and of the bars keeps it.      *)
LEMMA ExitsInductive == ExitInv /\ Exits!Next => ExitInv'
<1> SUFFICES ASSUME ExitInv, Exits!Next PROVE ExitInv'
  OBVIOUS
<1>1. PICK B \in Seq(ExitBars) : B = bars
  BY DEF ExitInv
<1>2. Len(B) \in Nat /\ 1 <= Len(B) /\ CacheOf(B)
  BY <1>1, LenProperties DEF ExitInv
<1>3. /\ Len(Exits!Signals(B)) = Len(B)
      /\ \A i \in 1 .. Len(B) : Exits!Signals(B)[i] = B[i].signal
  BY SignalsAre
<1>4. CASE Exits!NewBar
  <2>1. PICK b \in ExitBars : bars' = Append(B, b) /\ UNCHANGED <<plan, cached, live, stored>>
    BY <1>1, <1>4 DEF Exits!NewBar
  <2>2. /\ Append(B, b) \in Seq(ExitBars) /\ Len(Append(B, b)) = Len(B) + 1
        /\ \A i \in 1 .. Len(B) : Append(B, b)[i] = B[i]
    BY AppendProperties
  <2>3. PICK C \in Seq(ExitBars) : bars' = C /\ Len(C) = Len(B) + 1 /\ \A i \in 1 .. Len(B) : C[i] = B[i]
    BY <2>1, <2>2
  <2>4. Len(B) <= Len(C) /\ \A i \in 1 .. Len(B) - 1 : C[i] = B[i]
    BY <1>2, <2>3
  <2> QED BY <1>1, <2>1, <2>3, <2>4, BarsChange
<1>5. CASE Exits!BarGrows
  <2>1. PICK b \in ExitBars : /\ bars' = [B EXCEPT ![Len(B)] = b]
                              /\ UNCHANGED <<plan, cached, live, stored>>
    BY <1>1, <1>5 DEF Exits!BarGrows
  <2>2. PICK C : C = [B EXCEPT ![Len(B)] = b]
    OBVIOUS
  <2>3. C \in Seq(ExitBars) /\ Len(C) = Len(B)
    BY <1>2, <2>2
  <2>4. \A i \in 1 .. Len(B) - 1 : C[i] = B[i]
    BY <1>2, <2>2
  <2>5. Len(B) <= Len(C) /\ bars' = C
    BY <1>2, <2>1, <2>2, <2>3
  <2> QED BY <1>1, <2>1, <2>3, <2>4, <2>5, BarsChange
<1>6. CASE Exits!LiveCycle
  <2>1. PICK f : f = Exits!Indicators.signals
    OBVIOUS
  <2>2. PICK r : r = Exits!EvaluateExit(B, f)
    OBVIOUS
  <2>3. /\ bars' = B /\ plan' = plan /\ stored' = stored
        /\ live' = [result |-> r, len |-> Len(B)]
        /\ cached' = Exits!Indicators \/ cached' = Exits!NoCache
    BY <1>1, <1>6, <2>1, <2>2 DEF Exits!LiveCycle
  <2>4. /\ Exits!Indicators.len = Len(B) /\ Len(f) = Len(B)
        /\ \A i \in 1 .. Len(B) - 1 : f[i] = B[i].signal
    <3>1. CASE cached.len = Len(B)
      BY <3>1, <2>1, <1>1, <1>2 DEF CacheOf, Exits!Indicators
    <3>2. CASE cached.len # Len(B)
      BY <3>2, <2>1, <1>1, <1>2, <1>3 DEF Exits!Indicators
    <3> QED BY <3>1, <3>2
  <2>5. CacheOf(B)'
    <3>1. PICK k : k = cached'
      OBVIOUS
    <3>2. CASE k = Exits!Indicators
      <4>1. k.len = Len(B) /\ k.signals = f
        BY <3>2, <2>1, <2>4
      <4> QED BY <4>1, <3>1, <2>4, <1>2 DEF CacheOf
    <3>3. CASE k = Exits!NoCache
      <4>1. k.len = 0 /\ k.signals = <<>>
        BY <3>3 DEF Exits!NoCache
      <4> QED BY <4>1, <3>1, <1>2 DEF CacheOf
    <3> QED BY <3>1, <3>2, <3>3, <2>3
  <2>6. PICK l : l = live' /\ l.result = r /\ l.len = Len(B)
    BY <2>3
  <2>7. Exits!DecisionsStand'
    <3>1. PICK fresh : fresh = Exits!EvaluateExit(B, Exits!Signals(B))
      OBVIOUS
    <3>2. Exits!Fresh = fresh /\ Exits!Fresh' = fresh
      BY <3>1, <1>1, <2>3, FreshIs DEF Exits!Fresh
    <3>3. Exits!Settled(stored) => stored.result = fresh
      BY <3>2 DEF ExitInv, Exits!DecisionsStand
    <3>4. Exits!Settled(l) => l.result = fresh
      BY <3>1, <2>2, <2>4, <2>6, <1>2, DecidesNow DEF Exits!Settled
    <3> QED BY <3>2, <3>3, <3>4, <2>3, <2>6
            DEF Exits!DecisionsStand, Exits!Settled, Exits!NoResult
  <2>8. Exits!NoMissedExit'
    BY <2>2, <2>3, <2>4, <2>6, <1>2, DecidesNow, MissedIs
  <2>9. live'.len \in 1 .. Len(B)
    BY <2>6, <1>2
  <2> QED BY <1>1, <1>2, <2>3, <2>5, <2>7, <2>8, <2>9 DEF ExitInv, Exits!NoResult
<1>7. CASE Exits!Backtest
  <2>1. PICK fresh : fresh = Exits!EvaluateExit(B, Exits!Signals(B))
    OBVIOUS
  <2>2. PICK l : l = live
    OBVIOUS
  <2>3. /\ bars' = B /\ plan' = plan /\ live' = l /\ cached' = cached
        /\ stored' = [result |-> fresh, len |-> Len(B)]
    BY <1>1, <1>7, <2>1, <2>2 DEF Exits!Backtest
  <2>4. Exits!Fresh = fresh /\ Exits!Fresh' = fresh
    BY <2>1, <1>1, <2>3, FreshIs DEF Exits!Fresh
  <2>5. Exits!DecisionsStand'
    <3>1. stored'.result = fresh
      BY <2>3
    <3>2. Exits!Settled(l) => l.result = fresh
      BY <2>2, <2>4 DEF ExitInv, Exits!DecisionsStand
    <3> QED BY <3>1, <3>2, <2>3, <2>4 DEF Exits!DecisionsStand, Exits!Settled, Exits!NoResult
  <2>6. Exits!NoMissedExit'
    BY <1>1, <2>2, <2>3, MissedIs DEF ExitInv, Exits!NoMissedExit
  <2>7. CacheOf(B)' /\ stored'.len \in 1 .. Len(B)
    BY <2>3, <1>2 DEF CacheOf
  <2> QED BY <1>1, <1>2, <2>2, <2>3, <2>5, <2>6, <2>7 DEF ExitInv, Exits!NoResult
<1> QED BY <1>4, <1>5, <1>6, <1>7 DEF Exits!Next

-----------------------------------------------------------------------------
(* A divergence on a window and on the whole history.                      *)

(* What a step of the composition is for the divergence.                   *)
LEMMA DivergenceStep ==
  ASSUME [Next]_vars, part = "vdd"
  PROVE  part' = "vdd" /\ (Divergence!Next \/ UNCHANGED vddVars)
BY DEF Next, NextBacktest, NextDelta, NextPrice, NextRecord, vars, deltaVars

(* Division rounds down.                                                   *)
LEMMA DivIs ==
  ASSUME NEW w \in Nat \ {0}, NEW x \in Int
  PROVE  x \div w \in Int /\ w * (x \div w) <= x /\ x < w * (x \div w) + w
OBVIOUS

(* A quotient that is one more, is a width more.                           *)
LEMMA OneMore ==
  ASSUME NEW w \in Nat \ {0}, NEW p \in Int, NEW q \in Int, p >= q + 1
  PROVE  w * p >= w * q + w
<1>1. PICK d \in Nat : p = q + 1 + d
  <2>1. p - q - 1 \in Nat
    OBVIOUS
  <2> QED BY <2>1
<1>2. w * p = w * q + w + w * d
  BY <1>1
<1>3. w * d >= 0 /\ w * d \in Int
  OBVIOUS
<1>4. w * q \in Int
  OBVIOUS
<1> QED BY <1>2, <1>3, <1>4

(* Division keeps the order.                                               *)
LEMMA DivMonotone ==
  ASSUME NEW w \in Nat \ {0}, NEW x \in Int, NEW y \in Int, x <= y
  PROVE  x \div w <= y \div w
<1>1. PICK p \in Int : p = x \div w /\ w * p <= x
  BY DivIs
<1>2. PICK q \in Int : q = y \div w /\ y < w * q + w
  BY DivIs
<1>3. ASSUME p >= q + 1 PROVE FALSE
  <2>1. w * p >= w * q + w
    BY <1>3, OneMore
  <2>2. w * p \in Int /\ w * q \in Int
    OBVIOUS
  <2> QED BY <2>1, <2>2, <1>1, <1>2
<1> QED BY <1>1, <1>2, <1>3

(* The greatest of finitely many numbers.                                  *)
LEMMA GreatestIs ==
  ASSUME NEW S, IsFiniteSet(S), S \subseteq Int, S # {}
  PROVE  Divergence!Max(S) \in S /\ \A x \in S : x <= Divergence!Max(S)
<1>1. \E m \in S : \A x \in S : m >= x
  BY FiniteMax
<1>2. Divergence!Max(S) = CHOOSE m \in S : \A x \in S : m >= x
  BY DEF Divergence!Max
<1> QED BY <1>1, <1>2

(* An upper bound that is in the set is it.                                *)
LEMMA GreatestIsOne ==
  ASSUME NEW S, IsFiniteSet(S), S \subseteq Int, NEW m \in S, \A x \in S : x <= m
  PROVE  Divergence!Max(S) = m
<1>1. PICK k : k = Divergence!Max(S)
  OBVIOUS
<1>2. k \in S /\ \A x \in S : x <= k
  BY <1>1, GreatestIs
<1>3. k \in Int /\ m \in Int /\ k <= m /\ m <= k
  BY <1>2
<1> QED BY <1>1, <1>3

(* The operators of TickVdd on any table of trades, up to bar_binary.      *)
BucketIn(ta, i) == ta[i].at \div Width

(* The rows of a bucket.                                                   *)
Own(ta, I, b) == {i \in I : BucketIn(ta, i) = b}

(* The bars that are not thin.                                             *)
BarsIn(ta, I) == {b \in {BucketIn(ta, i) : i \in I} : Cardinality(Own(ta, I, b)) >= MinTrades}

(* The price of the last trade of a bucket.                                *)
CloseIn(ta, I, b) == ta[Divergence!Max(Own(ta, I, b))].price

(* The sizes of rows, and of those in one direction.                       *)
VolumeIn(ta, S) == SumOver([i \in S |-> ta[i].size], S)

SizedIn(ta, S, dir) == VolumeIn(ta, {i \in S : ta[i].dir = dir})

(* The delta of a bar of some volume, in sixths.                           *)
ShareIn(volume, up, down) == IF up + down > 0 THEN (6 * volume * (up - down)) \div (up + down) ELSE 0

(* The delta of the rows of a bar.                                         *)
DeltaIn(mo, ta, S) ==
  IF mo = "visible_only" THEN SizedIn(ta, S, 1) - SizedIn(ta, S, -1)
  ELSE ShareIn(VolumeIn(ta, S), SizedIn(ta, S, 1), SizedIn(ta, S, -1))

(* The sum of the deltas of bars.                                          *)
DeltaOver(mo, ta, I, B) == SumOver([c \in B |-> DeltaIn(mo, ta, Own(ta, I, c))], B)

(* The bars up to one, and after it.                                       *)
UpTo(B, b) == {c \in B : c <= b}

Later(B, b) == {c \in B : c > b}

(* The signal on the rows I.                                               *)
Diverges(mo, ta, I) ==
  \E lag \in BarsIn(ta, I) :
    /\ Cardinality(Later(BarsIn(ta, I), lag)) = BucketsBack
    /\ \A b \in BarsIn(ta, I) : b >= lag =>
          CloseIn(ta, I, Divergence!Max(BarsIn(ta, I))) >= CloseIn(ta, I, b)
    /\ DeltaOver(mo, ta, I, UpTo(BarsIn(ta, I), Divergence!Max(BarsIn(ta, I))))
         < DeltaOver(mo, ta, I, UpTo(BarsIn(ta, I), lag))

(* The rows that a window at ti has.                                       *)
WindowIn(ti, ta) == {i \in DOMAIN ta : ta[i].at >= ti - (BucketsBack * Width + Slack)}

(* A table of trades: later rows are later trades.                         *)
Table(ta) ==
  /\ ta \in Seq([at : Int, price : TickPrices, size : Sizes, dir : Sides \cup {-1, 0, 1}])
  /\ \A i, j \in 1 .. Len(ta) : i < j => ta[i].at < ta[j].at

(* What a row of it is.                                                    *)
LEMMA TableTyped ==
  ASSUME NEW ta, Table(ta)
  PROVE  /\ Len(ta) \in Nat /\ DOMAIN ta = 1 .. Len(ta) /\ IsFiniteSet(DOMAIN ta)
         /\ \A i \in DOMAIN ta : ta[i].at \in Int /\ ta[i].size \in Int /\ BucketIn(ta, i) \in Int
<1>1. Len(ta) \in Nat /\ DOMAIN ta = 1 .. Len(ta)
  BY LenProperties DEF Table
<1>2. \A i \in 1 .. Len(ta) : ta[i] \in [at : Int, price : TickPrices, size : Sizes, dir : Sides \cup {-1, 0, 1}]
  BY ElementOfSeq DEF Table
<1>3. \A i \in 1 .. Len(ta) : ta[i].at \in Int /\ ta[i].size \in Int
  BY <1>2, DivergenceAssumption
<1>4. \A i \in 1 .. Len(ta) : BucketIn(ta, i) \in Int
  BY <1>3, DivergenceAssumption, DivIs DEF BucketIn
<1>5. IsFiniteSet(1 .. Len(ta))
  BY <1>1, FS_Interval
<1> QED BY <1>1, <1>3, <1>4, <1>5

(* Bars of rows are finitely many numbers.                                 *)
LEMMA BarsTyped ==
  ASSUME NEW ta, Table(ta), NEW I \in SUBSET DOMAIN ta
  PROVE  /\ IsFiniteSet(I) /\ I \subseteq Int
         /\ IsFiniteSet(BarsIn(ta, I)) /\ BarsIn(ta, I) \subseteq Int
         /\ \A b : Own(ta, I, b) \subseteq I /\ IsFiniteSet(Own(ta, I, b))
         /\ \A b \in BarsIn(ta, I) : Own(ta, I, b) # {}
<1>1. IsFiniteSet(I) /\ I \subseteq Int /\ \A i \in I : BucketIn(ta, i) \in Int
  BY TableTyped, FS_Subset
<1>2. IsFiniteSet({BucketIn(ta, i) : i \in I})
  <2> DEFINE f == [i \in I |-> BucketIn(ta, i)]
  <2>1. f \in Surjection(I, {BucketIn(ta, i) : i \in I})
    BY DEF Surjection
  <2> QED BY <1>1, <2>1, FS_Surjection
<1>3. IsFiniteSet(BarsIn(ta, I)) /\ BarsIn(ta, I) \subseteq Int
  BY <1>1, <1>2, FS_Subset DEF BarsIn
<1>4. \A b : Own(ta, I, b) \subseteq I
  BY DEF Own
<1>5. \A b : IsFiniteSet(Own(ta, I, b))
  BY <1>1, <1>4, FS_Subset
<1>6. \A b \in BarsIn(ta, I) : Own(ta, I, b) # {}
  BY DEF BarsIn, Own
<1> QED BY <1>1, <1>3, <1>4, <1>5, <1>6

(* The volumes of rows are numbers.                                        *)
LEMMA DeltaIsInt ==
  ASSUME NEW ta, Table(ta), NEW S \in SUBSET DOMAIN ta, NEW mo
  PROVE  DeltaIn(mo, ta, S) \in Int
<1>1. ASSUME NEW R \in SUBSET DOMAIN ta
      PROVE  VolumeIn(ta, R) \in Int
  <2> DEFINE f == [i \in R |-> ta[i].size]
  <2>1. IsFiniteSet(R) /\ \A i \in R : f[i] \in Int
    BY TableTyped, FS_Subset
  <2> HIDE DEF f
  <2>2. SumOver(f, R) \in Int
    BY <2>1, SumFacts
  <2> QED BY <2>2 DEF VolumeIn, f
<1>2. \A dir : SizedIn(ta, S, dir) \in Int
  <2> SUFFICES ASSUME NEW dir PROVE SizedIn(ta, S, dir) \in Int
    OBVIOUS
  <2>1. {i \in S : ta[i].dir = dir} \in SUBSET DOMAIN ta
    OBVIOUS
  <2> QED BY <2>1, <1>1 DEF SizedIn
<1>3. ASSUME NEW v \in Int, NEW u \in Int, NEW d \in Int
      PROVE  ShareIn(v, u, d) \in Int
  <2>1. CASE u + d > 0
    <3>1. u + d \in Nat \ {0} /\ 6 * v * (u - d) \in Int
      BY <2>1
    <3>2. \A x \in Int : \A w \in Nat \ {0} : x \div w \in Int
      BY DivIs
    <3> QED BY <2>1, <3>1, <3>2 DEF ShareIn
  <2>2. CASE ~(u + d > 0)
    BY <2>2 DEF ShareIn
  <2> QED BY <2>1, <2>2
<1>4. VolumeIn(ta, S) \in Int
  BY <1>1
<1>5. SizedIn(ta, S, 1) \in Int /\ SizedIn(ta, S, -1) \in Int
  BY <1>2
<1>6. ShareIn(VolumeIn(ta, S), SizedIn(ta, S, 1), SizedIn(ta, S, -1)) \in Int
  BY <1>3, <1>4, <1>5
<1>7. SizedIn(ta, S, 1) - SizedIn(ta, S, -1) \in Int
  BY <1>5
<1> QED BY <1>6, <1>7 DEF DeltaIn

(* A window is upward closed, so that it cuts its first bucket at most.    *)
LEMMA WindowCuts ==
  ASSUME NEW ta, Table(ta), NEW ti \in Int, NEW W, W = WindowIn(ti, ta), NEW A, A = DOMAIN ta
  PROVE  /\ W \in SUBSET A /\ A \in SUBSET DOMAIN ta /\ W \in SUBSET DOMAIN ta
         /\ \A i \in W : Own(ta, W, BucketIn(ta, i)) \subseteq Own(ta, A, BucketIn(ta, i))
         /\ \A i \in W : CloseIn(ta, W, BucketIn(ta, i)) = CloseIn(ta, A, BucketIn(ta, i))
         /\ \A i \in W, j \in A : BucketIn(ta, i) < BucketIn(ta, j) =>
              j \in W /\ Own(ta, W, BucketIn(ta, j)) = Own(ta, A, BucketIn(ta, j))
<1>1. W \in SUBSET A /\ A \in SUBSET DOMAIN ta /\ W \in SUBSET DOMAIN ta
  BY DEF WindowIn
<1>2. PICK start \in Int : \A i : i \in W <=> i \in A /\ ta[i].at >= start
  <2>1. ti - (BucketsBack * Width + Slack) \in Int
    <3>1. BucketsBack \in Int /\ Width \in Int /\ Slack \in Int
      BY DivergenceAssumption
    <3>2. BucketsBack * Width \in Int
      BY <3>1
    <3> QED BY <3>1, <3>2
  <2> QED BY <2>1 DEF WindowIn
<1>3. \A i \in A : ta[i].at \in Int /\ BucketIn(ta, i) \in Int /\ i \in 1 .. Len(ta) /\ Len(ta) \in Nat
  BY TableTyped
<1>4. ASSUME NEW i \in W, NEW j \in A, ta[i].at <= ta[j].at
      PROVE  j \in W
  BY <1>1, <1>2, <1>3, <1>4
<1>5. ASSUME NEW i \in W
      PROVE  Own(ta, W, BucketIn(ta, i)) \subseteq Own(ta, A, BucketIn(ta, i))
  BY <1>1 DEF Own
<1>6. ASSUME NEW i \in W
      PROVE  CloseIn(ta, W, BucketIn(ta, i)) = CloseIn(ta, A, BucketIn(ta, i))
  <2> DEFINE O == Own(ta, W, BucketIn(ta, i))
             P == Own(ta, A, BucketIn(ta, i))
  <2>1. i \in O /\ O \subseteq P /\ P \subseteq A /\ O \subseteq W
    BY <1>1 DEF Own
  <2>2. IsFiniteSet(P) /\ P \subseteq Int /\ IsFiniteSet(O) /\ O \subseteq Int
    BY <1>1, <1>3, <2>1, BarsTyped
  <2>3. PICK m : m = Divergence!Max(P) /\ m \in P /\ \A x \in P : x <= m
    BY <2>1, <2>2, GreatestIs
  <2>4. m \in W
    <3>1. CASE m = i
      BY <3>1
    <3>2. CASE m # i
      <4>1. i \in 1 .. Len(ta) /\ m \in 1 .. Len(ta) /\ i < m
        BY <3>2, <2>1, <2>3, <1>1, <1>3
      <4>2. ta[i].at < ta[m].at
        BY <4>1 DEF Table
      <4> QED BY <4>2, <2>1, <2>3, <1>1, <1>3, <1>4
    <3> QED BY <3>1, <3>2
  <2>5. m \in O /\ \A x \in O : x <= m
    BY <2>1, <2>3, <2>4 DEF Own
  <2>6. Divergence!Max(O) = m
    BY <2>2, <2>5, GreatestIsOne
  <2> QED BY <2>3, <2>6 DEF CloseIn
<1>7. ASSUME NEW i \in W, NEW j \in A, BucketIn(ta, i) < BucketIn(ta, j)
      PROVE  j \in W /\ Own(ta, W, BucketIn(ta, j)) = Own(ta, A, BucketIn(ta, j))
  <2>1. ASSUME NEW k \in A, BucketIn(ta, k) = BucketIn(ta, j)
        PROVE  k \in W
    <3>1. PICK x \in Int : x = ta[i].at
      BY <1>1, <1>3
    <3>2. PICK y \in Int : y = ta[k].at
      BY <2>1, <1>3
    <3>3. y <= x => y \div Width <= x \div Width
      BY DivMonotone, DivergenceAssumption
    <3>4. x \div Width \in Int /\ y \div Width \in Int /\ x \div Width < y \div Width
      BY <2>1, <3>1, <3>2, <1>1, <1>3, <1>7 DEF BucketIn
    <3> QED BY <3>1, <3>2, <3>3, <3>4, <2>1, <1>4
  <2>2. j \in W
    BY <2>1
  <2>3. Own(ta, W, BucketIn(ta, j)) = Own(ta, A, BucketIn(ta, j))
    BY <1>1, <2>1 DEF Own
  <2> QED BY <2>2, <2>3
<1> QED BY <1>1, <1>5, <1>6, <1>7

(* The bars of a window are bars of the whole, and all after its first.    *)
LEMMA WindowBars ==
  ASSUME NEW ta, Table(ta), NEW ti \in Int, NEW W, W = WindowIn(ti, ta), NEW A, A = DOMAIN ta
  PROVE  /\ BarsIn(ta, W) \subseteq BarsIn(ta, A)
         /\ \A b \in BarsIn(ta, W) : CloseIn(ta, W, b) = CloseIn(ta, A, b)
         /\ \A c \in BarsIn(ta, W), b \in BarsIn(ta, A) : b > c =>
              b \in BarsIn(ta, W) /\ Own(ta, W, b) = Own(ta, A, b)
<1>1. /\ W \in SUBSET A /\ A \in SUBSET DOMAIN ta /\ W \in SUBSET DOMAIN ta
      /\ \A i \in W : Own(ta, W, BucketIn(ta, i)) \subseteq Own(ta, A, BucketIn(ta, i))
      /\ \A i \in W : CloseIn(ta, W, BucketIn(ta, i)) = CloseIn(ta, A, BucketIn(ta, i))
      /\ \A i \in W, j \in A : BucketIn(ta, i) < BucketIn(ta, j) =>
           j \in W /\ Own(ta, W, BucketIn(ta, j)) = Own(ta, A, BucketIn(ta, j))
  BY WindowCuts
<1>2. ASSUME NEW b \in BarsIn(ta, W)
      PROVE  b \in BarsIn(ta, A) /\ CloseIn(ta, W, b) = CloseIn(ta, A, b)
  <2>1. PICK i \in W : b = BucketIn(ta, i)
    BY DEF BarsIn
  <2>2. /\ IsFiniteSet(Own(ta, A, b)) /\ IsFiniteSet(Own(ta, W, b))
        /\ Own(ta, W, b) \subseteq Own(ta, A, b)
    BY <1>1, <2>1, BarsTyped
  <2>3. PICK m \in Nat, n \in Nat : m = Cardinality(Own(ta, W, b)) /\ n = Cardinality(Own(ta, A, b)) /\ m <= n
    BY <2>2, FS_Subset, FS_CardinalityType
  <2>4. m >= MinTrades /\ MinTrades \in Nat
    BY <2>3, DivergenceAssumption DEF BarsIn
  <2>5. n >= MinTrades
    BY <2>3, <2>4
  <2>6. i \in A
    BY <1>1
  <2> QED BY <1>1, <2>1, <2>3, <2>5, <2>6 DEF BarsIn
<1>3. ASSUME NEW c \in BarsIn(ta, W), NEW b \in BarsIn(ta, A), b > c
      PROVE  b \in BarsIn(ta, W) /\ Own(ta, W, b) = Own(ta, A, b)
  <2>1. PICK i \in W : c = BucketIn(ta, i)
    BY DEF BarsIn
  <2>2. PICK j \in A : b = BucketIn(ta, j)
    BY DEF BarsIn
  <2>3. c < b
    BY <1>3, <1>1, BarsTyped
  <2>4. j \in W /\ Own(ta, W, b) = Own(ta, A, b)
    BY <1>1, <2>1, <2>2, <2>3
  <2>5. Cardinality(Own(ta, W, b)) >= MinTrades
    BY <2>4 DEF BarsIn
  <2> QED BY <2>2, <2>4, <2>5 DEF BarsIn
<1> QED BY <1>2, <1>3

(* The sum has gone down since a bar if the later deltas are below zero.   *)
LEMMA DownSince ==
  ASSUME NEW ta, Table(ta), NEW I \in SUBSET DOMAIN ta, NEW lag \in BarsIn(ta, I), NEW mo
  PROVE  DeltaOver(mo, ta, I, UpTo(BarsIn(ta, I), Divergence!Max(BarsIn(ta, I))))
           < DeltaOver(mo, ta, I, UpTo(BarsIn(ta, I), lag))
         <=> DeltaOver(mo, ta, I, Later(BarsIn(ta, I), lag)) < 0
<1> DEFINE D == [c \in BarsIn(ta, I) |-> DeltaIn(mo, ta, Own(ta, I, c))]
<1>1. PICK P : P = BarsIn(ta, I)
  OBVIOUS
<1>2. IsFiniteSet(P) /\ P \subseteq Int /\ lag \in P /\ \A c \in P : D[c] \in Int
  <2>1. IsFiniteSet(P) /\ P \subseteq Int /\ lag \in P
    BY <1>1, BarsTyped
  <2>2. ASSUME NEW c \in P
        PROVE  D[c] \in Int
    <3>1. Own(ta, I, c) \in SUBSET DOMAIN ta
      BY DEF Own
    <3> QED BY <1>1, <3>1, DeltaIsInt
  <2> QED BY <2>1, <2>2
<1>3. ASSUME NEW B, B \subseteq P
      PROVE  DeltaOver(mo, ta, I, B) = SumOver(D, B)
  <2> DEFINE E == [c \in B |-> DeltaIn(mo, ta, Own(ta, I, c))]
  <2>1. \A c \in B : E[c] = D[c]
    BY <1>1, <1>3
  <2> HIDE DEF E, D
  <2>2. SumOver(E, B) = SumOver(D, B)
    BY <2>1, SumOfEquals
  <2> QED BY <2>2 DEF DeltaOver, E
<1> HIDE DEF D
<1>4. Divergence!Max(P) \in P /\ \A c \in P : c <= Divergence!Max(P)
  BY <1>2, GreatestIs
<1>5. UpTo(P, Divergence!Max(P)) = P
  BY <1>4 DEF UpTo
<1>6. PICK S, T : S = UpTo(P, lag) /\ T = Later(P, lag)
  OBVIOUS
<1>7. S \cup T = P /\ S \cap T = {} /\ S \subseteq P /\ T \subseteq P
  <2>1. ASSUME NEW c \in P PROVE (c \in S \/ c \in T) /\ ~(c \in S /\ c \in T)
    <3>1. c \in Int /\ lag \in Int
      BY <1>2
    <3>2. c <= lag \/ c > lag
      BY <3>1
    <3>3. ~(c <= lag /\ c > lag)
      BY <3>1
    <3> QED BY <3>2, <3>3, <1>6 DEF UpTo, Later
  <2>2. S \subseteq P /\ T \subseteq P
    BY <1>6 DEF UpTo, Later
  <2> QED BY <2>1, <2>2
<1>8. IsFiniteSet(S) /\ IsFiniteSet(T) /\ \A c \in S \cup T : D[c] \in Int
  BY <1>2, <1>7, FS_Subset
<1>9. /\ SumOver(D, S \cup T) = SumOver(D, S) + SumOver(D, T)
      /\ SumOver(D, S) \in Int /\ SumOver(D, T) \in Int
  BY <1>7, <1>8, SumUnion
<1>10. /\ DeltaOver(mo, ta, I, P) = SumOver(D, S \cup T)
       /\ DeltaOver(mo, ta, I, S) = SumOver(D, S) /\ DeltaOver(mo, ta, I, T) = SumOver(D, T)
  BY <1>3, <1>7
<1> QED BY <1>1, <1>5, <1>6, <1>9, <1>10

(* The window decides as the whole does, if it has bars enough.            *)
LEMMA WindowDiverges ==
  ASSUME NEW ta, Table(ta), NEW ti \in Int, NEW mo
  PROVE  Diverges(mo, ta, WindowIn(ti, ta))
           <=> Cardinality(BarsIn(ta, WindowIn(ti, ta))) > BucketsBack /\ Diverges(mo, ta, DOMAIN ta)
<1>1. PICK W : W = WindowIn(ti, ta)
  OBVIOUS
<1>2. PICK A : A = DOMAIN ta
  OBVIOUS
<1>3. W \in SUBSET DOMAIN ta /\ A \in SUBSET DOMAIN ta
  BY <1>1, <1>2, WindowCuts
<1>4. PICK P, Q : P = BarsIn(ta, W) /\ Q = BarsIn(ta, A)
  OBVIOUS
<1>5. /\ P \subseteq Q /\ \A b \in P : CloseIn(ta, W, b) = CloseIn(ta, A, b)
      /\ \A c \in P, b \in Q : b > c => b \in P /\ Own(ta, W, b) = Own(ta, A, b)
  BY <1>1, <1>2, <1>4, WindowBars
<1>6. IsFiniteSet(P) /\ IsFiniteSet(Q) /\ P \subseteq Int /\ Q \subseteq Int
  BY <1>3, <1>4, BarsTyped
<1>7. ASSUME NEW lag \in P
      PROVE  /\ Later(P, lag) = Later(Q, lag) /\ Divergence!Max(P) = Divergence!Max(Q)
             /\ DeltaOver(mo, ta, W, Later(P, lag)) = DeltaOver(mo, ta, A, Later(Q, lag))
  <2>1. Later(P, lag) = Later(Q, lag)
    BY <1>5 DEF Later
  <2>2. PICK m : m = Divergence!Max(P) /\ m \in P /\ \A x \in P : x <= m
    BY <1>6, GreatestIs
  <2>3. ASSUME NEW x \in Q
        PROVE  x <= m
    <3>1. x \in Int /\ m \in Int
      BY <2>2, <1>6
    <3>2. x > m => x \in P
      BY <2>2, <1>5
    <3> QED BY <3>1, <3>2, <2>2
  <2>4. Divergence!Max(Q) = m
    BY <2>2, <2>3, <1>5, <1>6, GreatestIsOne
  <2>5. PICK B : B = Later(P, lag)
    OBVIOUS
  <2>6. \A c \in B : Own(ta, W, c) = Own(ta, A, c)
    BY <2>1, <2>5, <1>5 DEF Later
  <2>7. [c \in B |-> DeltaIn(mo, ta, Own(ta, W, c))] = [c \in B |-> DeltaIn(mo, ta, Own(ta, A, c))]
    BY <2>6
  <2> QED BY <2>1, <2>2, <2>4, <2>5, <2>7 DEF DeltaOver
<1>8. PICK top : top = Divergence!Max(Q)
  OBVIOUS
<1>9. Diverges(mo, ta, W) <=>
        \E lag \in P : /\ Cardinality(Later(P, lag)) = BucketsBack
                       /\ \A b \in P : b >= lag => CloseIn(ta, W, Divergence!Max(P)) >= CloseIn(ta, W, b)
                       /\ DeltaOver(mo, ta, W, Later(P, lag)) < 0
  BY <1>3, <1>4, DownSince DEF Diverges
<1>10. Diverges(mo, ta, A) <=>
        \E lag \in Q : /\ Cardinality(Later(Q, lag)) = BucketsBack
                       /\ \A b \in Q : b >= lag => CloseIn(ta, A, top) >= CloseIn(ta, A, b)
                       /\ DeltaOver(mo, ta, A, Later(Q, lag)) < 0
  BY <1>3, <1>4, <1>8, DownSince DEF Diverges
<1>11. ASSUME NEW lag \in P
       PROVE  (\A b \in P : b >= lag => CloseIn(ta, W, Divergence!Max(P)) >= CloseIn(ta, W, b))
          <=> (\A b \in Q : b >= lag => CloseIn(ta, A, top) >= CloseIn(ta, A, b))
  <2>1. Divergence!Max(P) = top /\ Divergence!Max(P) \in P
    BY <1>6, <1>7, <1>8, GreatestIs
  <2>2. CloseIn(ta, W, Divergence!Max(P)) = CloseIn(ta, A, top)
    BY <2>1, <1>5
  <2>3. \A b \in Q : b >= lag => b \in P
    <3>1. ASSUME NEW b \in Q, b >= lag PROVE b \in P
      <4>1. b \in Int /\ lag \in Int
        BY <1>6
      <4>2. CASE b = lag
        BY <4>2
      <4>3. CASE b > lag
        BY <4>3, <1>5
      <4> QED BY <3>1, <4>1, <4>2, <4>3
    <3> QED BY <3>1
  <2> QED BY <2>2, <2>3, <1>5
<1>12. ASSUME Diverges(mo, ta, W)
       PROVE  Cardinality(P) > BucketsBack /\ Diverges(mo, ta, A)
  <2>1. PICK lag \in P : /\ Cardinality(Later(P, lag)) = BucketsBack
                         /\ \A b \in P : b >= lag => CloseIn(ta, W, Divergence!Max(P)) >= CloseIn(ta, W, b)
                         /\ DeltaOver(mo, ta, W, Later(P, lag)) < 0
    BY <1>9, <1>12
  <2>2. Diverges(mo, ta, A)
    BY <2>1, <1>5, <1>7, <1>10, <1>11
  <2>3. Cardinality(P) > BucketsBack
    <3>1. PICK R : R = Later(P, lag)
      OBVIOUS
    <3>2. R \subseteq P \ {lag} /\ lag \in P
      BY <3>1, <1>6 DEF Later
    <3>3. IsFiniteSet(P \ {lag}) /\ Cardinality(P \ {lag}) = Cardinality(P) - 1
      BY <1>6, FS_RemoveElement
    <3>4. Cardinality(R) <= Cardinality(P \ {lag}) /\ Cardinality(P) \in Nat /\ Cardinality(R) \in Nat
      BY <1>6, <3>2, <3>3, FS_Subset, FS_CardinalityType
    <3> QED BY <2>1, <3>1, <3>3, <3>4
  <2> QED BY <2>2, <2>3
<1>13. ASSUME Cardinality(P) > BucketsBack, Diverges(mo, ta, A)
       PROVE  Diverges(mo, ta, W)
  <2>1. PICK lag \in Q : /\ Cardinality(Later(Q, lag)) = BucketsBack
                         /\ \A b \in Q : b >= lag => CloseIn(ta, A, top) >= CloseIn(ta, A, b)
                         /\ DeltaOver(mo, ta, A, Later(Q, lag)) < 0
    BY <1>10, <1>13
  <2>2. lag \in P
    <3>1. SUFFICES ASSUME lag \notin P PROVE FALSE
      OBVIOUS
    <3>2. ASSUME NEW b \in P PROVE b > lag
      <4>1. b \in Int /\ lag \in Int /\ b # lag
        BY <1>6, <3>1
      <4>2. ~(lag > b)
        BY <3>1, <1>5
      <4> QED BY <4>1, <4>2
    <3>3. PICK R : R = Later(Q, lag)
      OBVIOUS
    <3>4. P \subseteq R /\ R \subseteq Q
      BY <3>2, <3>3, <1>5 DEF Later
    <3>5. IsFiniteSet(R)
      BY <3>4, <1>6, FS_Subset
    <3>6. Cardinality(P) <= Cardinality(R) /\ Cardinality(P) \in Nat /\ Cardinality(R) \in Nat
      BY <1>6, <3>4, <3>5, FS_Subset, FS_CardinalityType
    <3> QED BY <1>13, <2>1, <3>3, <3>6
  <2> QED BY <2>1, <2>2, <1>7, <1>9, <1>11
<1> QED BY <1>1, <1>2, <1>4, <1>12, <1>13

(* The operators of TickVdd are these, on the table of trades.             *)
LEMMA VolumeIs ==
  ASSUME NEW S
  PROVE  Divergence!Volume(S) = VolumeIn(tape, S)
<1>0. PICK f : f = [i \in S |-> tape[i].size]
  OBVIOUS
<1>2. \A h : [s \in SUBSET S |-> IF s = {} THEN 0 ELSE tape[Chosen(s)].size + h[s \ {Chosen(s)}]]
           = [s \in SUBSET S |-> IF s = {} THEN 0 ELSE f[Chosen(s)] + h[s \ {Chosen(s)}]]
  BY <1>0 DEF Chosen
<1>3. (CHOOSE h : h = [s \in SUBSET S |-> IF s = {} THEN 0
                           ELSE tape[Chosen(s)].size + h[s \ {Chosen(s)}]])
    = (CHOOSE h : h = [s \in SUBSET S |-> IF s = {} THEN 0
                           ELSE f[Chosen(s)] + h[s \ {Chosen(s)}]])
  BY <1>2, Zenon
<1>4. SumOver(f, S) = (CHOOSE h : h = [s \in SUBSET S |-> IF s = {} THEN 0
                           ELSE f[Chosen(s)] + h[s \ {Chosen(s)}]])[S]
  BY DEF SumOver, Summing
<1>5. Divergence!Volume(S) =
        (CHOOSE h : h = [s \in SUBSET S |-> IF s = {} THEN 0
                           ELSE tape[Chosen(s)].size + h[s \ {Chosen(s)}]])[S]
  BY DEF Chosen, Divergence!Volume, Divergence!MapThenSumSet, Divergence!MapThenFoldSet
<1> QED BY <1>0, <1>3, <1>4, <1>5 DEF VolumeIn

(* The module's sets are counted as these are.                             *)
LEMMA DivergenceCardinality == \A S : Divergence!Cardinality(S) = Cardinality(S)
BY DEF Divergence!Cardinality, Cardinality

(* The model's bars, buckets and closes in these words.                    *)
LEMMA OwnIs ==
  ASSUME NEW I
  PROVE  /\ \A b : Divergence!BarOf(I, b) = Own(tape, I, b)
         /\ Divergence!Bars(I) = BarsIn(tape, I)
         /\ \A b : Divergence!Close(I, b) = CloseIn(tape, I, b)
<1>1. \A i : Divergence!Bucket(i) = BucketIn(tape, i)
  BY DEF Divergence!Bucket, BucketIn
<1>2. \A b : Divergence!BarOf(I, b) = Own(tape, I, b)
  BY <1>1 DEF Divergence!BarOf, Own
<1>3. Divergence!Bucketed(I) = {BucketIn(tape, i) : i \in I}
  BY <1>1 DEF Divergence!Bucketed
<1>4. Divergence!Bars(I) = BarsIn(tape, I)
  BY <1>2, <1>3, DivergenceCardinality DEF Divergence!Bars, Divergence!Thick, BarsIn
<1>5. \A b : Divergence!Close(I, b) = CloseIn(tape, I, b)
  BY <1>2 DEF Divergence!Close, CloseIn
<1> QED BY <1>2, <1>4, <1>5

(* The model's delta of a bar.                                             *)
LEMMA DeltaIs ==
  ASSUME NEW I, NEW b, mode # "bar_binary"
  PROVE  Divergence!Delta(I, b) = DeltaIn(mode, tape, Own(tape, I, b))
<1>1. PICK S : S = Own(tape, I, b) /\ S = Divergence!BarOf(I, b)
  BY OwnIs
<1>2. Divergence!Volume(S) = VolumeIn(tape, S)
  BY VolumeIs
<1>3. ASSUME NEW dir PROVE Divergence!Sized(S, dir) = SizedIn(tape, S, dir)
  <2>1. PICK R : R = {i \in S : tape[i].dir = dir}
    OBVIOUS
  <2>2. Divergence!Volume(R) = VolumeIn(tape, R)
    BY VolumeIs
  <2> QED BY <2>1, <2>2 DEF Divergence!Sized, SizedIn
<1>4. PICK u, d, v : /\ u = Divergence!Sized(S, 1) /\ d = Divergence!Sized(S, -1) /\ v = VolumeIn(tape, S)
                     /\ u = SizedIn(tape, S, 1) /\ d = SizedIn(tape, S, -1)
  BY <1>3
<1>5. Divergence!Delta(I, b) = IF mode = "visible_only" THEN u - d ELSE ShareIn(v, u, d)
  BY <1>1, <1>2, <1>4 DEF Divergence!Delta, ShareIn
<1> QED BY <1>1, <1>4, <1>5 DEF DeltaIn

(* The model's sum of deltas.                                              *)
LEMMA CumIs ==
  ASSUME NEW I, NEW b, mode # "bar_binary"
  PROVE  Divergence!CumDelta(I, b) = DeltaOver(mode, tape, I, UpTo(BarsIn(tape, I), b))
<1>1. PICK S : S = UpTo(BarsIn(tape, I), b) /\ S = {c \in Divergence!Bars(I) : c <= b}
  BY OwnIs DEF UpTo
<1>0. PICK f : f = [c \in S |-> DeltaIn(mode, tape, Own(tape, I, c))]
  OBVIOUS
<1>2. \A c \in S : Divergence!Delta(I, c) = f[c]
  BY <1>0, DeltaIs
<1>3. \A h : [s \in SUBSET S |-> IF s = {} THEN 0 ELSE Divergence!Delta(I, Chosen(s)) + h[s \ {Chosen(s)}]]
           = [s \in SUBSET S |-> IF s = {} THEN 0 ELSE f[Chosen(s)] + h[s \ {Chosen(s)}]]
  BY <1>2 DEF Chosen
<1>4. (CHOOSE h : h = [s \in SUBSET S |-> IF s = {} THEN 0
                           ELSE Divergence!Delta(I, Chosen(s)) + h[s \ {Chosen(s)}]])
    = (CHOOSE h : h = [s \in SUBSET S |-> IF s = {} THEN 0
                           ELSE f[Chosen(s)] + h[s \ {Chosen(s)}]])
  BY <1>3, Zenon
<1>5. SumOver(f, S) = (CHOOSE h : h = [s \in SUBSET S |-> IF s = {} THEN 0
                           ELSE f[Chosen(s)] + h[s \ {Chosen(s)}]])[S]
  BY DEF SumOver, Summing
<1>6. Divergence!MapThenSumSet(LAMBDA c : Divergence!Delta(I, c), S) =
        (CHOOSE h : h = [s \in SUBSET S |-> IF s = {} THEN 0
                           ELSE Divergence!Delta(I, Chosen(s)) + h[s \ {Chosen(s)}]])[S]
  BY DEF Chosen, Divergence!MapThenSumSet, Divergence!MapThenFoldSet
<1>7. Divergence!CumDelta(I, b) = Divergence!MapThenSumSet(LAMBDA c : Divergence!Delta(I, c), S)
  BY <1>1 DEF Divergence!CumDelta
<1> QED BY <1>0, <1>1, <1>4, <1>5, <1>6, <1>7 DEF DeltaOver

(* The model's signal.                                                     *)
LEMMA SignalIs ==
  ASSUME NEW I, mode # "bar_binary"
  PROVE  Divergence!Signal(I) <=> Diverges(mode, tape, I)
<1>1. PICK P : P = Divergence!Bars(I) /\ P = BarsIn(tape, I)
  BY OwnIs
<1>2. PICK top : top = Divergence!Max(P)
  OBVIOUS
<1>3. \A lag : Divergence!IsLag(I, lag) <=> lag \in P /\ Cardinality(Later(P, lag)) = BucketsBack
  <2> SUFFICES ASSUME NEW lag
               PROVE  Divergence!IsLag(I, lag) <=> lag \in P /\ Cardinality(Later(P, lag)) = BucketsBack
    OBVIOUS
  <2>1. {b \in Divergence!Bars(I) : b > lag} = Later(P, lag)
    BY <1>1 DEF Later
  <2> QED BY <1>1, <2>1, DivergenceCardinality DEF Divergence!IsLag
<1>4. \A lag : Divergence!HoldsUp(I, lag) <=>
                 \A b \in P : b >= lag => CloseIn(tape, I, top) >= CloseIn(tape, I, b)
  BY <1>1, <1>2, OwnIs DEF Divergence!HoldsUp
<1>5. \A b : Divergence!CumDelta(I, b) = DeltaOver(mode, tape, I, UpTo(P, b))
  BY <1>1, CumIs
<1>6. Divergence!Signal(I) <=>
        \E lag \in P : /\ Divergence!IsLag(I, lag) /\ Divergence!HoldsUp(I, lag)
                       /\ Divergence!CumDelta(I, top) < Divergence!CumDelta(I, lag)
  BY <1>1, <1>2 DEF Divergence!Signal
<1> QED BY <1>1, <1>2, <1>3, <1>4, <1>5, <1>6 DEF Diverges

(* What the last check has answered, it answered on the window of now.     *)
DivergenceInv ==
  /\ tick \in Int /\ Table(tape) /\ \A i \in 1 .. Len(tape) : tape[i].at < tick
  /\ verdict \in {"exit", "hold"} /\ mode # "bar_binary" =>
       (verdict = "exit" <=> Diverges(mode, tape, WindowIn(tick, tape)))

(* Initially nothing is answered.                                          *)
LEMMA DivergenceInitially == Divergence!Init => DivergenceInv
<1> SUFFICES ASSUME Divergence!Init PROVE DivergenceInv
  OBVIOUS
<1>1. tick = 0 /\ tape = <<>> /\ verdict = "none"
  BY DEF Divergence!Init
<1>2. Table(<<>>)
  BY DEF Table
<1> QED BY <1>1, <1>2 DEF DivergenceInv

(* Every trade, check and failure keeps it.                                *)
LEMMA DivergenceInductive == DivergenceInv /\ Divergence!Next => DivergenceInv'
<1> SUFFICES ASSUME DivergenceInv, Divergence!Next PROVE DivergenceInv'
  OBVIOUS
<1>1. CASE \E p \in TickPrices, s \in Sizes, q \in Sides : Divergence!Trade(p, s, q)
  <2>1. PICK p \in TickPrices, s \in Sizes, q \in Sides : Divergence!Trade(p, s, q)
    BY <1>1
  <2>2. PICK t : t = [at |-> tick, price |-> p, size |-> s, dir |-> Divergence!Classify(p, q)]
    OBVIOUS
  <2>3. t \in [at : Int, price : TickPrices, size : Sizes, dir : Sides \cup {-1, 0, 1}] /\ t.at = tick
    <3>1. Divergence!Classify(p, q) \in Sides \cup {-1, 0, 1}
      BY DEF Divergence!Classify, Divergence!TickRule
    <3> QED BY <2>2, <3>1 DEF DivergenceInv
  <2>4. PICK ta : ta = tape /\ Table(ta) /\ \A i \in 1 .. Len(ta) : ta[i].at < tick
    BY DEF DivergenceInv
  <2>5. /\ tape' = Append(ta, t) /\ tick' = tick + 1 /\ verdict' = "none"
    BY <2>1, <2>2, <2>4 DEF Divergence!Trade
  <2>6. PICK tb : tb = Append(ta, t)
    OBVIOUS
  <2>7. /\ tb \in Seq([at : Int, price : TickPrices, size : Sizes, dir : Sides \cup {-1, 0, 1}])
        /\ Len(ta) \in Nat /\ Len(tb) = Len(ta) + 1 /\ tb[Len(ta) + 1] = t
        /\ \A i \in 1 .. Len(ta) : tb[i] = ta[i]
    BY <2>3, <2>4, <2>6, AppendProperties, LenProperties DEF Table
  <2>8. \A i \in 1 .. Len(ta) : ta[i].at \in Int
    BY <2>4, TableTyped
  <2>9. Table(tb)
    <3>1. ASSUME NEW i \in 1 .. Len(tb), NEW j \in 1 .. Len(tb), i < j
          PROVE  tb[i].at < tb[j].at
      <4>1. i \in 1 .. Len(ta) /\ tb[i] = ta[i]
        BY <2>7, <3>1
      <4>2. CASE j \in 1 .. Len(ta)
        BY <4>1, <4>2, <2>4, <2>7, <3>1 DEF Table
      <4>3. CASE j = Len(ta) + 1
        BY <4>1, <4>3, <2>3, <2>4, <2>7
      <4> QED BY <2>7, <4>2, <4>3
    <3> QED BY <2>7, <3>1 DEF Table
  <2>10. \A i \in 1 .. Len(tb) : tb[i].at < tick + 1
    <3>1. ASSUME NEW i \in 1 .. Len(tb) PROVE tb[i].at < tick + 1
      <4>0. tick \in Int
        BY DEF DivergenceInv
      <4>1. CASE i \in 1 .. Len(ta)
        <5>1. tb[i] = ta[i] /\ ta[i].at \in Int /\ ta[i].at < tick
          BY <4>1, <2>4, <2>7, <2>8
        <5> QED BY <4>0, <5>1
      <4>2. CASE i = Len(ta) + 1
        BY <4>0, <4>2, <2>3, <2>7
      <4> QED BY <2>7, <4>1, <4>2
    <3> QED BY <3>1
  <2>11. tick' \in Int
    BY <2>5 DEF DivergenceInv
  <2> QED BY <2>5, <2>6, <2>9, <2>10, <2>11 DEF DivergenceInv
<1>2. CASE Divergence!Quiet
  <2>1. tick' = tick + 1 /\ verdict' = "none" /\ tape' = tape
    BY <1>2 DEF Divergence!Quiet
  <2>2. PICK ta : ta = tape /\ Table(ta) /\ \A i \in 1 .. Len(ta) : ta[i].at < tick
    BY DEF DivergenceInv
  <2>3. \A i \in 1 .. Len(ta) : ta[i].at \in Int
    BY <2>2, TableTyped
  <2>4. tick \in Int /\ tick + 1 \in Int
    BY DEF DivergenceInv
  <2>5. \A i \in 1 .. Len(ta) : ta[i].at < tick + 1
    BY <2>2, <2>3, <2>4
  <2> QED BY <2>1, <2>2, <2>4, <2>5 DEF DivergenceInv
<1>3. CASE \E c \in BOOLEAN : Divergence!Check(c)
  <2>1. PICK c \in BOOLEAN : Divergence!Check(c)
    BY <1>3
  <2>2. /\ tick' = tick /\ tape' = tape /\ mode' = mode
        /\ verdict' = IF ~c THEN "fallback" ELSE IF Divergence!Signal(Divergence!Window) THEN "exit" ELSE "hold"
    BY <2>1 DEF Divergence!Check
  <2>3. PICK w : w = WindowIn(tick, tape)
    OBVIOUS
  <2>4. Divergence!Window = w
    BY <2>3 DEF Divergence!Window, Divergence!All, WindowIn
  <2>5. mode # "bar_binary" => (Divergence!Signal(w) <=> Diverges(mode, tape, w))
    BY SignalIs
  <2>6. PICK v : v = verdict'
    OBVIOUS
  <2>7. v \in {"exit", "hold"} /\ mode # "bar_binary" => (v = "exit" <=> Diverges(mode, tape, w))
    BY <2>2, <2>4, <2>5, <2>6
  <2> QED BY <2>2, <2>3, <2>6, <2>7 DEF DivergenceInv
<1>4. CASE Divergence!CheckFails
  <2>1. tick' = tick /\ tape' = tape /\ mode' = mode /\ verdict' = "fallback"
    BY <1>4 DEF Divergence!CheckFails
  <2> QED BY <2>1 DEF DivergenceInv
<1>5. CASE Divergence!PoolDies
  <2>1. tick' = tick /\ tape' = tape /\ mode' = mode /\ verdict' = verdict
    BY <1>5 DEF Divergence!PoolDies
  <2> QED BY <2>1 DEF DivergenceInv
<1> QED BY <1>1, <1>2, <1>3, <1>4, <1>5 DEF Divergence!Next

(* The answer on the window is that on the whole history.                  *)
LEMMA WindowIsWhole == DivergenceInv => Divergence!WindowDecides
<1> SUFFICES ASSUME DivergenceInv, verdict \in {"exit", "hold"}, mode # "bar_binary"
             PROVE  (verdict = "exit") =
                      (/\ Divergence!Cardinality(Divergence!Bars(Divergence!Window)) > BucketsBack
                       /\ Divergence!Signal(Divergence!All))
  BY DEF Divergence!WindowDecides
<1>1. PICK w : w = WindowIn(tick, tape)
  OBVIOUS
<1>2. Divergence!Window = w /\ Divergence!All = DOMAIN tape
  BY <1>1 DEF Divergence!Window, Divergence!All, WindowIn
<1>3. Divergence!Bars(w) = BarsIn(tape, w)
  BY OwnIs
<1>4. PICK A : A = DOMAIN tape
  OBVIOUS
<1>5. Divergence!Signal(A) <=> Diverges(mode, tape, A)
  BY SignalIs
<1>6. verdict = "exit" <=> Diverges(mode, tape, w)
  BY <1>1 DEF DivergenceInv
<1>7. PICK ta, ti, mo : ta = tape /\ ti = tick /\ mo = mode
  OBVIOUS
<1>8. Table(ta) /\ ti \in Int
  BY <1>7 DEF DivergenceInv
<1>9. Diverges(mo, ta, WindowIn(ti, ta))
        <=> Cardinality(BarsIn(ta, WindowIn(ti, ta))) > BucketsBack /\ Diverges(mo, ta, DOMAIN ta)
  BY <1>8, WindowDiverges
<1>10. verdict = "exit" <=> Cardinality(BarsIn(tape, w)) > BucketsBack /\ Diverges(mode, tape, A)
  BY <1>1, <1>4, <1>6, <1>7, <1>9
<1>11. verdict = "exit" <=>
         /\ Divergence!Cardinality(Divergence!Bars(Divergence!Window)) > BucketsBack
         /\ Divergence!Signal(Divergence!All)
  BY <1>2, <1>3, <1>4, <1>5, <1>10, DivergenceCardinality
<1> QED BY <1>11

(* What a strategy has decided on complete bars, later bars and signals do *)
(* not change; the monitor misses no exit that its bars contain; and a     *)
(* window that cuts a bucket decides on a divergence as all trades would   *)
(* (_evaluate_exit, evaluate_strategy, get_vdd_bars, compute_vdd_signal).  *)
THEOREM LiveExitsStayAgreed == Spec => []LiveExitsAgree
<1> DEFINE Inv == (part = "exits" => ExitInv) /\ (part = "vdd" => DivergenceInv)
<1>1. Init => Inv
  BY ExitsInitially, DivergenceInitially DEF Init
<1>2. Inv /\ [Next]_vars => Inv'
  <2> SUFFICES ASSUME Inv, [Next]_vars PROVE Inv'
    OBVIOUS
  <2>1. part' = part
    BY DEF Next, vars
  <2>2. ASSUME part = "exits" PROVE ExitInv'
    <3>1. ExitInv /\ (Exits!Next \/ UNCHANGED exitVars)
      BY <2>2, ExitsStep
    <3>2. CASE UNCHANGED exitVars
      <4>1. PICK B \in Seq(ExitBars) : B = bars
        BY <3>1 DEF ExitInv
      <4>2. Len(B) \in Nat /\ bars' = B /\ UNCHANGED <<plan, cached, live, stored>>
        BY <3>2, <4>1, LenProperties DEF exitVars
      <4> QED BY <3>1, <4>1, <4>2, BarsChange
    <3> QED BY <3>1, <3>2, ExitsInductive
  <2>3. ASSUME part = "vdd" PROVE DivergenceInv'
    <3>1. DivergenceInv /\ (Divergence!Next \/ UNCHANGED vddVars)
      BY <2>3, DivergenceStep
    <3>2. CASE UNCHANGED vddVars
      <4>1. tick' = tick /\ tape' = tape /\ mode' = mode /\ verdict' = verdict
        BY <3>2 DEF vddVars
      <4> QED BY <3>1, <4>1 DEF DivergenceInv
    <3> QED BY <3>1, <3>2, DivergenceInductive
  <2> QED BY <2>1, <2>2, <2>3
<1>3. Inv => LiveExitsAgree
  BY WindowIsWhole DEF LiveExitsAgree, ExitInv
<1> QED BY <1>1, <1>2, <1>3, PTL DEF Spec

-----------------------------------------------------------------------------
(* The core with workers, and beside a sync: what is proved of LiveExit,   *)
(* for the two instances.                                                  *)

ReplacedProofs == INSTANCE LiveExitProofs
  WITH WatchIds <- Exitable, OrderIds <- Orders, Monitor <- monitor, Workers <- Replacers,
       Unprotected <- {}, Faults <- ReplaceFaults, MaxCrashes <- MaxCoreCrashes, Jumps <- {},
       open <- working, events <- sellEvents, signal <- fired, stream <- fills

SyncedProofs == INSTANCE LiveExitProofs
  WITH WatchIds <- Exitable, OrderIds <- Orders, Monitor <- monitor, Workers <- {},
       Unprotected <- {}, Faults <- SyncFaults, MaxCrashes <- MaxCoreCrashes, Jumps <- {},
       open <- working, events <- sellEvents, signal <- fired, stream <- fills

(* A step of the instance is one of the module that is proved about.       *)
LEMMA ReplacedStep == [Replaced!Next]_coreVars => [ReplacedProofs!Next]_(ReplacedProofs!vars)
BY DEF coreVars, ReplacedProofs!vars, Replaced!AllFaults, ReplacedProofs!AllFaults, Replaced!Sellers,
       ReplacedProofs!Sellers, Replaced!NoOrder, ReplacedProofs!NoOrder,
       Replaced!Idle, ReplacedProofs!Idle, Replaced!Done, ReplacedProofs!Done,
       Replaced!At, ReplacedProofs!At, Replaced!Threads, ReplacedProofs!Threads,
       Replaced!Active, ReplacedProofs!Active, Replaced!Holding,
       ReplacedProofs!Holding, Replaced!Update, ReplacedProofs!Update,
       Replaced!UpdateIfCurrentStatus, ReplacedProofs!UpdateIfCurrentStatus,
       Replaced!Referenced, ReplacedProofs!Referenced, Replaced!FreshIds,
       ReplacedProofs!FreshIds, Replaced!FreshId, ReplacedProofs!FreshId,
       Replaced!Place, ReplacedProofs!Place, Replaced!Awaited,
       ReplacedProofs!Awaited, Replaced!ClosePosition, ReplacedProofs!ClosePosition,
       Replaced!ClosePositionFails, ReplacedProofs!ClosePositionFails,
       Replaced!FillOrder, ReplacedProofs!FillOrder, Replaced!OrderDies,
       ReplacedProofs!OrderDies, Replaced!LoseEvent, ReplacedProofs!LoseEvent,
       Replaced!SignalFires, ReplacedProofs!SignalFires, Replaced!Liquidate,
       ReplacedProofs!Liquidate, Replaced!Become, ReplacedProofs!Become,
       Replaced!unmoved, ReplacedProofs!unmoved, Replaced!Beside,
       ReplacedProofs!Beside, Replaced!MonitorRead, ReplacedProofs!MonitorRead,
       Replaced!MonitorKeep, ReplacedProofs!MonitorKeep, Replaced!MonitorExit,
       ReplacedProofs!MonitorExit, Replaced!TransitionToCoolingOff,
       ReplacedProofs!TransitionToCoolingOff, Replaced!CoolingOffElapsed,
       ReplacedProofs!CoolingOffElapsed, Replaced!SealWatchIfExited,
       ReplacedProofs!SealWatchIfExited, Replaced!SealWatch,
       ReplacedProofs!SealWatch, Replaced!StillCoolingOff,
       ReplacedProofs!StillCoolingOff, Replaced!VictimRead,
       ReplacedProofs!VictimRead, Replaced!CancelStop, ReplacedProofs!CancelStop,
       Replaced!PersistPending, ReplacedProofs!PersistPending, Replaced!SubmitSell,
       ReplacedProofs!SubmitSell, Replaced!NothingToSell,
       ReplacedProofs!NothingToSell, Replaced!Finished, ReplacedProofs!Finished,
       Replaced!LeaveToNextCycle, ReplacedProofs!LeaveToNextCycle, Replaced!GiveUp,
       ReplacedProofs!GiveUp, Replaced!SubmitFails, ReplacedProofs!SubmitFails,
       Replaced!ClearPending, ReplacedProofs!ClearPending, Replaced!PersistSellId,
       ReplacedProofs!PersistSellId, Replaced!SellConfirmedAtOnce,
       ReplacedProofs!SellConfirmedAtOnce, Replaced!SellConfirmed,
       ReplacedProofs!SellConfirmed, Replaced!SellUnconfirmed,
       ReplacedProofs!SellUnconfirmed, Replaced!CommitExit,
       ReplacedProofs!CommitExit, Replaced!SellerStep, ReplacedProofs!SellerStep,
       Replaced!streamIdle, ReplacedProofs!streamIdle, Replaced!StreamSellFill,
       ReplacedProofs!StreamSellFill, Replaced!StreamBuyFill,
       ReplacedProofs!StreamBuyFill, Replaced!StreamWrite,
       ReplacedProofs!StreamWrite, Replaced!others, ReplacedProofs!others,
       Replaced!BulkLookup, ReplacedProofs!BulkLookup, Replaced!MayReconcileBeside,
       ReplacedProofs!MayReconcileBeside, Replaced!MayReconcile,
       ReplacedProofs!MayReconcile, Replaced!ReconcileStart,
       ReplacedProofs!ReconcileStart, Replaced!ReconcileRead,
       ReplacedProofs!ReconcileRead, Replaced!ReconcileSync,
       ReplacedProofs!ReconcileSync, Replaced!ReconcileVerify,
       ReplacedProofs!ReconcileVerify, Replaced!ReconcileForceExit,
       ReplacedProofs!ReconcileForceExit, Replaced!Unused, ReplacedProofs!Unused,
       Replaced!ReconcileAdopt, ReplacedProofs!ReconcileAdopt, Replaced!EnsureStart,
       ReplacedProofs!EnsureStart, Replaced!EnsureRead, ReplacedProofs!EnsureRead,
       Replaced!EnsureOrders, ReplacedProofs!EnsureOrders, Replaced!EnsurePlace,
       ReplacedProofs!EnsurePlace, Replaced!EnsureBreach,
       ReplacedProofs!EnsureBreach, Replaced!EnsureBreachExit,
       ReplacedProofs!EnsureBreachExit, Replaced!ForceExitRead,
       ReplacedProofs!ForceExitRead, Replaced!ForceExitWrite,
       ReplacedProofs!ForceExitWrite, Replaced!Crash, ReplacedProofs!Crash,
       Replaced!FirstWatch, ReplacedProofs!FirstWatch, Replaced!FirstOrder,
       ReplacedProofs!FirstOrder, Replaced!Environment, ReplacedProofs!Environment,
       Replaced!MonitorStep, ReplacedProofs!MonitorStep, Replaced!WorkerStep,
       ReplacedProofs!WorkerStep, Replaced!StreamStep, ReplacedProofs!StreamStep,
       Replaced!ReconcileStep, ReplacedProofs!ReconcileStep, Replaced!WebStep,
       ReplacedProofs!WebStep, Replaced!Next, ReplacedProofs!Next, Replaced!NoRow,
       ReplacedProofs!NoRow, Replaced!NewRow, ReplacedProofs!NewRow,
       Replaced!ActiveStatuses, ReplacedProofs!ActiveStatuses,
       Replaced!RecordExitOnly, ReplacedProofs!RecordExitOnly, Replaced!RecordExit,
       ReplacedProofs!RecordExit, Replaced!MarkExitPending,
       ReplacedProofs!MarkExitPending, Replaced!ClearExitPending,
       ReplacedProofs!ClearExitPending, Replaced!StartRetrospective,
       ReplacedProofs!StartRetrospective, Replaced!StartCoolingOff,
       ReplacedProofs!StartCoolingOff, Replaced!Seal, ReplacedProofs!Seal,
       Replaced!table, ReplacedProofs!table, Replaced!account,
       ReplacedProofs!account, Replaced!market, ReplacedProofs!market

(* An initial state of it is one of that module.                           *)
LEMMA ReplacedInit == Replaced!Init => ReplacedProofs!Init
BY DEF Replaced!Init, ReplacedProofs!Init, Replaced!NoRow, ReplacedProofs!NoRow,
       Replaced!NewRow, ReplacedProofs!NewRow, Replaced!FirstWatch,
       ReplacedProofs!FirstWatch, Replaced!FirstOrder, ReplacedProofs!FirstOrder,
       Replaced!Idle, ReplacedProofs!Idle, Replaced!Sellers, ReplacedProofs!Sellers,
       Replaced!NoOrder, ReplacedProofs!NoOrder

(* The same beside a sync.                                                 *)
LEMMA SyncedStep == [Synced!Next]_coreVars => [SyncedProofs!Next]_(SyncedProofs!vars)
BY DEF coreVars, SyncedProofs!vars, Synced!AllFaults, SyncedProofs!AllFaults, Synced!Sellers,
       SyncedProofs!Sellers, Synced!NoOrder, SyncedProofs!NoOrder, Synced!Idle,
       SyncedProofs!Idle, Synced!Done, SyncedProofs!Done, Synced!At,
       SyncedProofs!At, Synced!Threads, SyncedProofs!Threads, Synced!Active,
       SyncedProofs!Active, Synced!Holding, SyncedProofs!Holding, Synced!Update,
       SyncedProofs!Update, Synced!UpdateIfCurrentStatus,
       SyncedProofs!UpdateIfCurrentStatus, Synced!Referenced,
       SyncedProofs!Referenced, Synced!FreshIds, SyncedProofs!FreshIds,
       Synced!FreshId, SyncedProofs!FreshId, Synced!Place, SyncedProofs!Place,
       Synced!Awaited, SyncedProofs!Awaited, Synced!ClosePosition,
       SyncedProofs!ClosePosition, Synced!ClosePositionFails,
       SyncedProofs!ClosePositionFails, Synced!FillOrder, SyncedProofs!FillOrder,
       Synced!OrderDies, SyncedProofs!OrderDies, Synced!LoseEvent,
       SyncedProofs!LoseEvent, Synced!SignalFires, SyncedProofs!SignalFires,
       Synced!Liquidate, SyncedProofs!Liquidate, Synced!Become, SyncedProofs!Become,
       Synced!unmoved, SyncedProofs!unmoved, Synced!Beside, SyncedProofs!Beside,
       Synced!MonitorRead, SyncedProofs!MonitorRead, Synced!MonitorKeep,
       SyncedProofs!MonitorKeep, Synced!MonitorExit, SyncedProofs!MonitorExit,
       Synced!TransitionToCoolingOff, SyncedProofs!TransitionToCoolingOff,
       Synced!CoolingOffElapsed, SyncedProofs!CoolingOffElapsed,
       Synced!SealWatchIfExited, SyncedProofs!SealWatchIfExited, Synced!SealWatch,
       SyncedProofs!SealWatch, Synced!StillCoolingOff, SyncedProofs!StillCoolingOff,
       Synced!VictimRead, SyncedProofs!VictimRead, Synced!CancelStop,
       SyncedProofs!CancelStop, Synced!PersistPending, SyncedProofs!PersistPending,
       Synced!SubmitSell, SyncedProofs!SubmitSell, Synced!NothingToSell,
       SyncedProofs!NothingToSell, Synced!Finished, SyncedProofs!Finished,
       Synced!LeaveToNextCycle, SyncedProofs!LeaveToNextCycle, Synced!GiveUp,
       SyncedProofs!GiveUp, Synced!SubmitFails, SyncedProofs!SubmitFails,
       Synced!ClearPending, SyncedProofs!ClearPending, Synced!PersistSellId,
       SyncedProofs!PersistSellId, Synced!SellConfirmedAtOnce,
       SyncedProofs!SellConfirmedAtOnce, Synced!SellConfirmed,
       SyncedProofs!SellConfirmed, Synced!SellUnconfirmed,
       SyncedProofs!SellUnconfirmed, Synced!CommitExit, SyncedProofs!CommitExit,
       Synced!SellerStep, SyncedProofs!SellerStep, Synced!streamIdle,
       SyncedProofs!streamIdle, Synced!StreamSellFill, SyncedProofs!StreamSellFill,
       Synced!StreamBuyFill, SyncedProofs!StreamBuyFill, Synced!StreamWrite,
       SyncedProofs!StreamWrite, Synced!others, SyncedProofs!others,
       Synced!BulkLookup, SyncedProofs!BulkLookup, Synced!MayReconcileBeside,
       SyncedProofs!MayReconcileBeside, Synced!MayReconcile,
       SyncedProofs!MayReconcile, Synced!ReconcileStart,
       SyncedProofs!ReconcileStart, Synced!ReconcileRead,
       SyncedProofs!ReconcileRead, Synced!ReconcileSync, SyncedProofs!ReconcileSync,
       Synced!ReconcileVerify, SyncedProofs!ReconcileVerify,
       Synced!ReconcileForceExit, SyncedProofs!ReconcileForceExit, Synced!Unused,
       SyncedProofs!Unused, Synced!ReconcileAdopt, SyncedProofs!ReconcileAdopt,
       Synced!EnsureStart, SyncedProofs!EnsureStart, Synced!EnsureRead,
       SyncedProofs!EnsureRead, Synced!EnsureOrders, SyncedProofs!EnsureOrders,
       Synced!EnsurePlace, SyncedProofs!EnsurePlace, Synced!EnsureBreach,
       SyncedProofs!EnsureBreach, Synced!EnsureBreachExit,
       SyncedProofs!EnsureBreachExit, Synced!ForceExitRead,
       SyncedProofs!ForceExitRead, Synced!ForceExitWrite,
       SyncedProofs!ForceExitWrite, Synced!Crash, SyncedProofs!Crash,
       Synced!FirstWatch, SyncedProofs!FirstWatch, Synced!FirstOrder,
       SyncedProofs!FirstOrder, Synced!Environment, SyncedProofs!Environment,
       Synced!MonitorStep, SyncedProofs!MonitorStep, Synced!WorkerStep,
       SyncedProofs!WorkerStep, Synced!StreamStep, SyncedProofs!StreamStep,
       Synced!ReconcileStep, SyncedProofs!ReconcileStep, Synced!WebStep,
       SyncedProofs!WebStep, Synced!Next, SyncedProofs!Next, Synced!NoRow,
       SyncedProofs!NoRow, Synced!NewRow, SyncedProofs!NewRow,
       Synced!ActiveStatuses, SyncedProofs!ActiveStatuses, Synced!RecordExitOnly,
       SyncedProofs!RecordExitOnly, Synced!RecordExit, SyncedProofs!RecordExit,
       Synced!MarkExitPending, SyncedProofs!MarkExitPending,
       Synced!ClearExitPending, SyncedProofs!ClearExitPending,
       Synced!StartRetrospective, SyncedProofs!StartRetrospective,
       Synced!StartCoolingOff, SyncedProofs!StartCoolingOff, Synced!Seal,
       SyncedProofs!Seal, Synced!table, SyncedProofs!table, Synced!account,
       SyncedProofs!account, Synced!market, SyncedProofs!market

(* And so initially.                                                       *)
LEMMA SyncedInit == Synced!Init => SyncedProofs!Init
BY DEF Synced!Init, SyncedProofs!Init, Synced!NoRow, SyncedProofs!NoRow,
       Synced!NewRow, SyncedProofs!NewRow, Synced!FirstWatch,
       SyncedProofs!FirstWatch, Synced!FirstOrder, SyncedProofs!FirstOrder,
       Synced!Idle, SyncedProofs!Idle, Synced!Sellers, SyncedProofs!Sellers,
       Synced!NoOrder, SyncedProofs!NoOrder

(* What a step of the composition is for the two instances.                *)
LEMMA CoreStep ==
  ASSUME [Next]_vars
  PROVE  /\ part' = part
         /\ part = "replacement" => [Replaced!Next]_coreVars
         /\ part = "synced" => [Synced!Next]_coreVars
BY DEF Next, NextBacktest, NextDelta, NextPrice, NextRecord, vars, recordVars

(* While the account holds the position, nothing is sold.                  *)
CoreInv ==
  /\ part = "replacement" => ReplacedProofs!TypeOK /\ ReplacedProofs!HeldUnsold
  /\ part = "synced" => SyncedProofs!TypeOK /\ SyncedProofs!HeldUnsold

(* The instances are ones that the module is proved for.                   *)
LEMMA CoreAssumed ==
  /\ MaxCoreCrashes \in Nat /\ Exitable # {} /\ Orders # {}
  /\ None \notin Exitable /\ None \notin Orders
  /\ monitor \notin Replacers /\ monitor \notin {}
  /\ ReplaceFaults \subseteq ReplacedProofs!AllFaults
  /\ SyncFaults \subseteq SyncedProofs!AllFaults
BY CoreAssumption DEF Replaced!AllFaults, ReplacedProofs!AllFaults, SyncedProofs!AllFaults

(* Initially nothing is sold.                                              *)
LEMMA CoreInitially == Init => CoreInv
<1> SUFFICES ASSUME Init PROVE CoreInv
  OBVIOUS
<1>1. ReplacedProofs!Init => ReplacedProofs!TypeOK /\ ReplacedProofs!HeldUnsold
  BY CoreAssumed, ReplacedProofs!InitType, ReplacedProofs!HeldUnsoldInit, Zenon
<1>2. SyncedProofs!Init => SyncedProofs!TypeOK /\ SyncedProofs!HeldUnsold
  BY CoreAssumed, SyncedProofs!InitType, SyncedProofs!HeldUnsoldInit, Zenon
<1>3. part = "replacement" => Replaced!Init
  BY DEF Init
<1>4. part = "synced" => Synced!Init
  BY DEF Init
<1> QED BY <1>1, <1>2, <1>3, <1>4, ReplacedInit, SyncedInit DEF CoreInv

(* Every step of the threads keeps it.                                     *)
LEMMA CoreInductive == CoreInv /\ [Next]_vars => CoreInv'
<1> SUFFICES ASSUME CoreInv, [Next]_vars PROVE CoreInv'
  OBVIOUS
<1>1. ReplacedProofs!TypeOK /\ ReplacedProofs!HeldUnsold
        /\ [ReplacedProofs!Next]_(ReplacedProofs!vars)
        => (ReplacedProofs!TypeOK /\ ReplacedProofs!HeldUnsold)'
  BY CoreAssumed, ReplacedProofs!StepType, ReplacedProofs!HeldUnsoldStep, Zenon
<1>2. SyncedProofs!TypeOK /\ SyncedProofs!HeldUnsold
        /\ [SyncedProofs!Next]_(SyncedProofs!vars)
        => (SyncedProofs!TypeOK /\ SyncedProofs!HeldUnsold)'
  BY CoreAssumed, SyncedProofs!StepType, SyncedProofs!HeldUnsoldStep, Zenon
<1> QED BY <1>1, <1>2, CoreStep, ReplacedStep, SyncedStep DEF CoreInv

(* Neither a sale that a worker makes beside the monitor's nor a reconcile *)
(* beside it records a fill's price, or one of the history, while the      *)
(* account holds the position (_exit_victim, reconcile), with any watches, *)
(* workers, faults and restarts.                                           *)
THEOREM CorePricesAreReal == Spec => []ExitPriceIsReal
<1>1. CoreInv => ExitPriceIsReal
  BY DEF CoreInv, ExitPriceIsReal, Replaced!ExitPriceIsReal, ReplacedProofs!ExitPriceIsReal,
         Synced!ExitPriceIsReal, SyncedProofs!ExitPriceIsReal, ReplacedProofs!HeldUnsold,
         SyncedProofs!HeldUnsold, ReplacedProofs!NoSale, SyncedProofs!NoSale,
         ReplacedProofs!RealPrices, SyncedProofs!RealPrices,
         Replaced!HistoryIsTrusted, ReplacedProofs!HistoryIsTrusted,
         Synced!HistoryIsTrusted, SyncedProofs!HistoryIsTrusted
<1> QED BY <1>1, CoreInitially, CoreInductive, PTL DEF Spec

=============================================================================
