--------------------------- MODULE ComponentProofs ---------------------------
(***************************************************************************)
(* Proofs about the components that MCComponents composes: the trade       *)
(* streams and the live configs, for any accounts, configs, symbols and    *)
(* threads; the bursts of the X stream, for any slots, rules and limits;   *)
(* the news archive, for any articles, retention and time; the switches of *)
(* feeds and online mode, for any feeds; and what explorations and         *)
(* follow-ups spend, for any number of follow-ups, searches and failures,  *)
(* any sequence of agents that ends with the one that may fall back to     *)
(* another model, and any tools, symbols and limits; and what explorations *)
(* find and tell, for any suggestions, costs and limits of the first       *)
(* explorer and any symbols and tools of the agents.                       *)
(***************************************************************************)
EXTENDS MCComponents, FoldTheorems, SequenceTheorems

-----------------------------------------------------------------------------
(* The trade streams.                                                      *)

LEMMA StreamsStep ==
  ASSUME [Next]_vars, part = "streams"
  PROVE  part' = "streams" /\ (Streams!Next \/ UNCHANGED streamVars)
BY DEF Next, NextTrade, NextExplore, NextFeed, vars, tradeVars

(* No stream ends.                                                         *)
Objects == [account : LinkedAccounts \cup {None},
            state : {"unused", "starting", "connected", "broken"}]

Syncs == [pc : {"idle", "read", "stop", "start", "store"},
          want : SUBSET LinkedAccounts, todo : SUBSET LinkedAccounts,
          new : StreamObjects \cup {None}]

StreamsTyped ==
  /\ linked \subseteq LinkedAccounts
  /\ registry \in [LinkedAccounts -> StreamObjects \cup {None}]
  /\ stream \in [StreamObjects -> Objects]
  /\ caller \in [Streams!Threads -> Syncs]

(* What is in the dictionary is a stream of that account, and a thread     *)
(* that is about to enter a stream has one of some account.                *)
Filed ==
  /\ \A a \in LinkedAccounts : registry[a] # None => registry[a] \in Streams!Served(a)
  /\ \A t \in Streams!Threads :
       caller[t].pc = "store" => \E a \in LinkedAccounts : caller[t].new \in Streams!Served(a)

(* Thread t has yet to come to account a.                                  *)
Attends(t, a) == \/ caller[t].pc = "read"
                 \/ caller[t].pc = "stop" /\ a \in caller[t].want
                 \/ caller[t].pc \in {"start", "store"} /\ a \in caller[t].todo

LinkedAttended ==
  pool => \A a \in linked : Streams!Served(a) # {} \/ \E t \in Streams!Threads : Attends(t, a)

-----------------------------------------------------------------------------
(* What becomes of a record of a stream, and of a thread's locals.         *)

LEMMA ObjectTyped ==
  ASSUME NEW o \in Objects, NEW x \in {"starting", "connected", "broken"}
  PROVE  [o EXCEPT !.state = x] \in Objects
BY DEF Objects

LEMMA NoSyncTyped == Streams!NoSync \in Syncs
BY DEF Streams!NoSync, Syncs

LEMMA SyncTyped ==
  ASSUME NEW c \in Syncs, NEW A \in SUBSET LinkedAccounts, NEW B \in SUBSET LinkedAccounts,
         NEW s \in StreamObjects \cup {None}
  PROVE  /\ [c EXCEPT !.pc = "read"] \in Syncs
         /\ [c EXCEPT !.todo = A] \in Syncs
         /\ [c EXCEPT !.pc = "stop", !.want = A, !.todo = B] \in Syncs
         /\ [c EXCEPT !.pc = "start", !.todo = A] \in Syncs
         /\ [c EXCEPT !.pc = "store", !.new = s] \in Syncs
         /\ [c EXCEPT !.pc = "start", !.todo = A, !.new = s] \in Syncs
BY DEF Syncs

(* A stream keeps its account, and an unused one has none.                 *)
StreamsKept == \A s \in StreamObjects : \/ stream[s] = Streams!Unused
                                        \/ stream'[s].account = stream[s].account

LEMMA StateMoves ==
  ASSUME stream \in [StreamObjects -> Objects], NEW s \in StreamObjects,
         NEW x \in {"starting", "connected", "broken"}, stream' = [stream EXCEPT ![s].state = x]
  PROVE  stream' \in [StreamObjects -> Objects] /\ StreamsKept
<1> DEFINE o == [stream[s] EXCEPT !.state = x]
<1>1. o \in Objects /\ o.account = stream[s].account
  BY ObjectTyped DEF Objects
<1>2. stream' = [stream EXCEPT ![s] = o]
  OBVIOUS
<1> HIDE DEF o
<1> QED BY <1>1, <1>2 DEF StreamsKept

LEMMA ServedStays ==
  ASSUME StreamsTyped, StreamsTyped', StreamsKept, NEW a \in LinkedAccounts
  PROVE  Streams!Served(a) \subseteq Streams!Served(a)'
<1> SUFFICES ASSUME NEW s \in StreamObjects, stream[s].account = a PROVE s \in Streams!Served(a)'
  BY DEF Streams!Served
<1>1. stream[s] # Streams!Unused
  BY StreamsAssumption DEF Streams!Unused
<1>2. stream'[s].account = a
  BY <1>1 DEF StreamsKept
<1>3. stream'[s].state # "ended"
  BY DEF StreamsTyped, Objects
<1> QED BY <1>2, <1>3 DEF Streams!Served

LEMMA IsServed ==
  ASSUME StreamsTyped, NEW s \in StreamObjects, NEW a, stream[s].account = a
  PROVE  s \in Streams!Served(a)
BY DEF StreamsTyped, Objects, Streams!Served

-----------------------------------------------------------------------------
(* A step of thread t that leaves the streams alone or makes one: it types *)
(* when its new locals do.                                                 *)
LEMMA StreamsNextTyped ==
  ASSUME StreamsTyped, Streams!Next \/ UNCHANGED streamVars
  PROVE  StreamsTyped' /\ StreamsKept
<1> USE DEF StreamsTyped
<1>0. Startup \in Streams!Threads /\ Callers \subseteq Streams!Threads
  BY DEF Streams!Threads
<1>1. ASSUME NEW t \in Streams!Threads, Streams!ChangeLinks(t) PROVE StreamsTyped' /\ StreamsKept
  BY <1>1, SyncTyped DEF Streams!ChangeLinks, StreamsKept
<1>2. CASE Streams!ConnectPool
  BY <1>2, <1>0, SyncTyped DEF Streams!ConnectPool, StreamsKept
<1>3. ASSUME NEW t \in Streams!Threads, Streams!SyncRead(t) PROVE StreamsTyped' /\ StreamsKept
  <2>1. {a \in LinkedAccounts : registry[a] # None} \ linked \in SUBSET LinkedAccounts
    OBVIOUS
  <2> QED BY <1>3, <2>1, NoSyncTyped, SyncTyped DEF Streams!SyncRead, StreamsKept
<1>4. ASSUME NEW t \in Streams!Threads, NEW a \in LinkedAccounts, Streams!SyncStop(t, a)
      PROVE  StreamsTyped' /\ StreamsKept
  <2>1. caller[t].todo \ {a} \in SUBSET LinkedAccounts
    BY DEF Syncs
  <2>2. caller' \in [Streams!Threads -> Syncs] /\ linked' = linked
    BY <1>4, <2>1, SyncTyped DEF Streams!SyncStop
  <2>3. registry' \in [LinkedAccounts -> StreamObjects \cup {None}]
    BY <1>4 DEF Streams!SyncStop
  <2>4. stream' \in [StreamObjects -> Objects] /\ StreamsKept
    <3>1. \/ stream' = stream
          \/ \E s \in StreamObjects : stream' = [stream EXCEPT ![s].state = "broken"]
      BY <1>4 DEF Streams!SyncStop, Streams!StopStream
    <3>2. CASE stream' = stream
      BY <3>2 DEF StreamsKept
    <3> QED BY <3>1, <3>2, StateMoves
  <2> QED BY <2>2, <2>3, <2>4
<1>5. ASSUME NEW t \in Streams!Threads, Streams!SyncStopped(t) PROVE StreamsTyped' /\ StreamsKept
  <2>1. caller[t].want \in SUBSET LinkedAccounts
    BY DEF Syncs
  <2> QED BY <1>5, <2>1, NoSyncTyped, SyncTyped DEF Streams!SyncStopped, StreamsKept
<1>6. ASSUME NEW t \in Streams!Threads, NEW a \in LinkedAccounts, Streams!SyncStart(t, a)
      PROVE  StreamsTyped' /\ StreamsKept
  <2>1. caller[t].todo \ {a} \in SUBSET LinkedAccounts
    BY DEF Syncs
  <2>2. CASE registry[a] # None
    <3>1. caller' = [caller EXCEPT ![t].todo = @ \ {a}] /\ UNCHANGED <<linked, registry, stream>>
      BY <1>6, <2>2 DEF Streams!SyncStart
    <3> QED BY <2>1, <3>1, SyncTyped DEF StreamsKept
  <2>3. CASE registry[a] = None
    <3>1. PICK s \in StreamObjects :
            /\ stream[s] = Streams!Unused
            /\ stream' = [stream EXCEPT ![s] = [account |-> a, state |-> "starting"]]
            /\ caller' = [caller EXCEPT ![t].pc = "store", ![t].new = s]
      BY <1>6, <2>3 DEF Streams!SyncStart
    <3>2. [account |-> a, state |-> "starting"] \in Objects
      BY DEF Objects
    <3>3. stream' \in [StreamObjects -> Objects] /\ StreamsKept
      BY <3>1, <3>2 DEF StreamsKept
    <3>4. [caller[t] EXCEPT !.pc = "store", !.new = s] \in Syncs
      BY SyncTyped
    <3>5. caller' \in [Streams!Threads -> Syncs]
      BY <3>1, <3>4
    <3> QED BY <1>6, <3>3, <3>5 DEF Streams!SyncStart
  <2> QED BY <2>2, <2>3
<1>7. ASSUME NEW t \in Streams!Threads, Streams!SyncStore(t) PROVE StreamsTyped' /\ StreamsKept
  <2>1. PICK a : /\ registry' = [registry EXCEPT ![a] = caller[t].new]
                 /\ caller' = [caller EXCEPT ![t].pc = "start", ![t].todo = @ \ {a}, ![t].new = None]
    BY <1>7 DEF Streams!SyncStore
  <2>2. caller[t].todo \ {a} \in SUBSET LinkedAccounts /\ caller[t].new \in StreamObjects \cup {None}
    BY DEF Syncs
  <2>3. [caller[t] EXCEPT !.pc = "start", !.todo = caller[t].todo \ {a}, !.new = None] \in Syncs
    BY <2>2, SyncTyped
  <2>4. caller' \in [Streams!Threads -> Syncs]
    BY <2>1, <2>3
  <2>5. registry' \in [LinkedAccounts -> StreamObjects \cup {None}]
    BY <2>1, <2>2
  <2> QED BY <1>7, <2>4, <2>5 DEF Streams!SyncStore, StreamsKept
<1>8. ASSUME NEW t \in Streams!Threads, Streams!SyncDone(t) PROVE StreamsTyped' /\ StreamsKept
  BY <1>8, NoSyncTyped DEF Streams!SyncDone, StreamsKept
<1>9. ASSUME NEW s \in StreamObjects, Streams!Connect(s) \/ Streams!Disconnect(s)
      PROVE  StreamsTyped' /\ StreamsKept
  BY <1>9, StateMoves DEF Streams!Connect, Streams!Disconnect
<1>10. CASE UNCHANGED streamVars
  BY <1>10 DEF streamVars, StreamsKept
<1> QED BY <1>1, <1>2, <1>3, <1>4, <1>5, <1>6, <1>7, <1>8, <1>9, <1>10
        DEF Streams!Next, Streams!SyncStep

LEMMA StreamsNextRegistered ==
  ASSUME StreamsTyped, StreamsTyped', StreamsKept, Filed, Streams!Next \/ UNCHANGED streamVars
  PROVE  Filed'
<1>0. /\ \A a \in LinkedAccounts : Streams!Served(a) \subseteq Streams!Served(a)'
      /\ caller \in [Streams!Threads -> Syncs] /\ registry \in [LinkedAccounts -> StreamObjects \cup {None}]
      /\ Startup \in Streams!Threads /\ Callers \subseteq Streams!Threads
  BY ServedStays DEF StreamsTyped, Streams!Threads
<1>1. \A a \in LinkedAccounts :
        registry'[a] = registry[a] /\ registry[a] # None => registry'[a] \in Streams!Served(a)'
  BY <1>0 DEF Filed
<1>2. \A t \in Streams!Threads : (caller[t].pc = "store" /\ caller'[t] = caller[t])
        => \E a \in LinkedAccounts : caller'[t].new \in Streams!Served(a)'
  BY <1>0 DEF Filed
<1>3. ASSUME NEW t \in Streams!Threads,
             \/ Streams!ChangeLinks(t) \/ Streams!SyncRead(t) \/ Streams!SyncStopped(t)
             \/ Streams!SyncDone(t) \/ (Streams!ConnectPool /\ t = Startup)
      PROVE  Filed'
  <2>1. /\ registry' = registry
        /\ \A u \in Streams!Threads : caller'[u] = caller[u] \/ caller'[u].pc # "store"
    <3>1. CASE Streams!ChangeLinks(t) \/ (Streams!ConnectPool /\ t = Startup)
      <4>1. [caller[t] EXCEPT !.pc = "read"].pc # "store"
        BY <1>0 DEF Syncs
      <4>2. registry' = registry /\ caller' = [caller EXCEPT ![t] = [caller[t] EXCEPT !.pc = "read"]]
        <5>1. CASE Streams!ChangeLinks(t)
          BY <5>1 DEF Streams!ChangeLinks
        <5>2. CASE Streams!ConnectPool /\ t = Startup
          BY <5>2 DEF Streams!ConnectPool
        <5> QED BY <3>1, <5>1, <5>2
      <4> QED BY <1>0, <4>1, <4>2
    <3>2. CASE Streams!SyncRead(t)
      BY <1>0, <3>2 DEF Streams!SyncRead, Streams!NoSync
    <3>3. CASE Streams!SyncStopped(t)
      <4> DEFINE go == [Streams!NoSync EXCEPT !.pc = "start", !.todo = caller[t].want]
      <4>1. go.pc # "store" /\ Streams!NoSync.pc # "store"
        BY DEF Streams!NoSync
      <4>2. /\ registry' = registry
            /\ \/ caller' = [caller EXCEPT ![t] = go]
               \/ caller' = [caller EXCEPT ![t] = Streams!NoSync]
        BY <3>3 DEF Streams!SyncStopped
      <4> HIDE DEF go
      <4> QED BY <1>0, <4>1, <4>2
    <3>4. CASE Streams!SyncDone(t)
      BY <1>0, <3>4 DEF Streams!SyncDone, Streams!NoSync
    <3> QED BY <1>3, <3>1, <3>2, <3>3, <3>4
  <2> QED BY <2>1, <1>1, <1>2 DEF Filed
<1>4. ASSUME NEW t \in Streams!Threads, NEW a \in LinkedAccounts, Streams!SyncStop(t, a) PROVE Filed'
  <2>1. /\ \A b \in LinkedAccounts : registry'[b] = registry[b] \/ registry'[b] = None
        /\ \A u \in Streams!Threads : caller'[u] = caller[u] \/ caller'[u].pc # "store"
    BY <1>0, <1>4 DEF Streams!SyncStop, Syncs
  <2> QED BY <2>1, <1>1, <1>2 DEF Filed
<1>5. ASSUME NEW t \in Streams!Threads, NEW a \in LinkedAccounts, Streams!SyncStart(t, a) PROVE Filed'
  <2>1. registry' = registry
    BY <1>5 DEF Streams!SyncStart
  <2>2. ASSUME NEW u \in Streams!Threads, caller'[u].pc = "store", caller'[u] # caller[u]
        PROVE  \E b \in LinkedAccounts : caller'[u].new \in Streams!Served(b)'
    <3>1. CASE registry[a] # None
      BY <1>0, <1>5, <2>2, <3>1 DEF Streams!SyncStart, Syncs
    <3>2. CASE registry[a] = None
      <4>1. PICK s \in StreamObjects :
              /\ stream' = [stream EXCEPT ![s] = [account |-> a, state |-> "starting"]]
              /\ caller' = [caller EXCEPT ![t].pc = "store", ![t].new = s]
        BY <1>5, <3>2 DEF Streams!SyncStart
      <4>2. caller'[u].new = s
        BY <1>0, <2>2, <4>1 DEF Syncs
      <4>3. stream'[s].account = a /\ stream'[s].state = "starting"
        BY <4>1 DEF StreamsTyped
      <4> QED BY <4>2, <4>3 DEF Streams!Served
    <3> QED BY <3>1, <3>2
  <2> QED BY <2>1, <2>2, <1>1, <1>2 DEF Filed
<1>6. ASSUME NEW t \in Streams!Threads, Streams!SyncStore(t) PROVE Filed'
  <2>1. /\ caller[t].pc = "store"
        /\ registry' = [registry EXCEPT ![stream[caller[t].new].account] = caller[t].new]
    BY <1>6 DEF Streams!SyncStore
  <2>2. \A u \in Streams!Threads : caller'[u] = caller[u] \/ caller'[u].pc # "store"
    BY <1>0, <1>6 DEF Streams!SyncStore, Syncs
  <2>3. PICK a \in LinkedAccounts : caller[t].new \in Streams!Served(a)
    BY <2>1 DEF Filed
  <2>4. stream[caller[t].new].account = a
    BY <2>3 DEF Streams!Served
  <2>5. \A b \in LinkedAccounts : b # a => registry'[b] = registry[b]
    BY <1>0, <2>1, <2>4
  <2>6. registry'[a] \in Streams!Served(a)'
    BY <1>0, <2>1, <2>3, <2>4
  <2> QED BY <2>2, <2>5, <2>6, <1>1, <1>2 DEF Filed
<1>7. ASSUME NEW s \in StreamObjects, Streams!Connect(s) \/ Streams!Disconnect(s) PROVE Filed'
  BY <1>7, <1>1, <1>2 DEF Streams!Connect, Streams!Disconnect, Filed
<1>8. CASE UNCHANGED streamVars
  BY <1>8, <1>1, <1>2 DEF streamVars, Filed
<1> QED BY <1>0, <1>3, <1>4, <1>5, <1>6, <1>7, <1>8 DEF Streams!Next, Streams!SyncStep

(* A thread that attended to an account still does, or the account is      *)
(* served, or its sync is over with no pool to serve from.                 *)
LEMMA StreamsNextAttended ==
  ASSUME StreamsTyped, StreamsTyped', StreamsKept, Filed, LinkedAttended,
         Streams!Next \/ UNCHANGED streamVars
  PROVE  LinkedAttended'
<1>0. /\ \A a \in LinkedAccounts : Streams!Served(a) \subseteq Streams!Served(a)'
      /\ caller \in [Streams!Threads -> Syncs]
      /\ linked \subseteq LinkedAccounts /\ linked' \subseteq LinkedAccounts
      /\ Startup \in Streams!Threads /\ Callers \subseteq Streams!Threads
  BY ServedStays DEF StreamsTyped, Streams!Threads
<1>1. ASSUME pool', pool, linked' \subseteq linked,
             NEW t \in Streams!Threads, \A u \in Streams!Threads \ {t} : caller'[u] = caller[u],
             \A a \in linked : Attends(t, a) => Attends(t, a)' \/ Streams!Served(a)' # {}
      PROVE  LinkedAttended'
  <2>1. ASSUME NEW a \in linked', NEW u \in Streams!Threads, Attends(u, a)
        PROVE  Attends(u, a)' \/ Streams!Served(a)' # {}
    <3>1. CASE u = t
      BY <1>1, <2>1, <3>1
    <3>2. CASE u # t
      BY <1>1, <2>1, <3>2 DEF Attends
    <3> QED BY <3>1, <3>2
  <2> QED BY <1>0, <1>1, <2>1 DEF LinkedAttended
<1>2. ASSUME NEW t \in Streams!Threads, \A a \in linked' : Attends(t, a)' PROVE LinkedAttended'
  BY <1>2 DEF LinkedAttended
<1>3. ASSUME NEW t \in Streams!Threads, Streams!ChangeLinks(t) PROVE LinkedAttended'
  <2>1. caller'[t].pc = "read"
    BY <1>0, <1>3 DEF Streams!ChangeLinks
  <2> QED BY <2>1, <1>2 DEF Attends
<1>4. CASE Streams!ConnectPool
  <2>1. caller'[Startup].pc = "read"
    BY <1>0, <1>4 DEF Streams!ConnectPool
  <2> QED BY <2>1, <1>0, <1>2 DEF Attends
<1>5. ASSUME NEW t \in Streams!Threads, Streams!SyncRead(t) PROVE LinkedAttended'
  <2>1. caller'[t].pc = "stop" /\ caller'[t].want = linked /\ linked' = linked
    BY <1>0, <1>5 DEF Streams!SyncRead, Streams!NoSync
  <2> QED BY <2>1, <1>2 DEF Attends
<1>6. ASSUME NEW t \in Streams!Threads,
             \/ \E a \in LinkedAccounts : Streams!SyncStop(t, a) \/ Streams!SyncStart(t, a)
             \/ Streams!SyncStopped(t) \/ Streams!SyncStore(t) \/ Streams!SyncDone(t),
             pool
      PROVE  LinkedAttended'
  <2>1. /\ pool' = pool /\ linked' = linked
        /\ \A u \in Streams!Threads \ {t} : caller'[u] = caller[u]
    BY <1>0, <1>6 DEF Streams!SyncStop, Streams!SyncStart, Streams!SyncStopped, Streams!SyncStore,
                      Streams!SyncDone
  <2>2. ASSUME NEW a \in linked, Attends(t, a) PROVE Attends(t, a)' \/ Streams!Served(a)' # {}
    <3>1. ASSUME NEW b \in LinkedAccounts, Streams!SyncStop(t, b) PROVE Attends(t, a)'
      BY <1>0, <2>2, <3>1 DEF Attends, Streams!SyncStop
    <3>2. ASSUME NEW b \in LinkedAccounts, Streams!SyncStart(t, b)
          PROVE  Attends(t, a)' \/ Streams!Served(a)' # {}
      <4>1. CASE registry[b] = None
        <5>1. PICK s \in StreamObjects :
                caller' = [caller EXCEPT ![t] = [caller[t] EXCEPT !.pc = "store", !.new = s]]
          BY <3>2, <4>1 DEF Streams!SyncStart
        <5>2. caller'[t].pc = "store" /\ caller'[t].todo = caller[t].todo
          BY <1>0, <5>1 DEF Syncs
        <5>3. a \in caller[t].todo
          BY <2>2, <3>2 DEF Attends, Streams!SyncStart
        <5> QED BY <5>2, <5>3 DEF Attends
      <4>2. CASE registry[b] # None /\ a = b
        BY <1>0, <4>2 DEF Filed
      <4>3. CASE registry[b] # None /\ a # b
        BY <1>0, <2>2, <3>2, <4>3 DEF Attends, Streams!SyncStart, Syncs
      <4> QED BY <4>1, <4>2, <4>3
    <3>3. CASE Streams!SyncStopped(t)
      BY <1>0, <1>6, <2>2, <3>3 DEF Attends, Streams!SyncStopped, Streams!NoSync
    <3>4. CASE Streams!SyncStore(t)
      <4>1. PICK b \in LinkedAccounts : caller[t].new \in Streams!Served(b)
        BY <3>4 DEF Streams!SyncStore, Filed
      <4>2. stream[caller[t].new].account = b
        BY <4>1 DEF Streams!Served
      <4>3. CASE a = b
        BY <1>0, <4>1, <4>3
      <4>4. CASE a # b
        BY <1>0, <2>2, <3>4, <4>2, <4>4 DEF Attends, Streams!SyncStore, Syncs
      <4> QED BY <4>3, <4>4
    <3>5. CASE Streams!SyncDone(t)
      BY <2>2, <3>5 DEF Attends, Streams!SyncDone
    <3> QED BY <1>6, <3>1, <3>2, <3>3, <3>4, <3>5
  <2> QED BY <1>1, <1>6, <2>1, <2>2
<1>7. ASSUME pool' = pool, ~pool PROVE LinkedAttended'
  BY <1>7 DEF LinkedAttended
<1>8. ASSUME NEW t \in Streams!Threads,
             \/ \E a \in LinkedAccounts : Streams!SyncStop(t, a) \/ Streams!SyncStart(t, a)
             \/ Streams!SyncStopped(t) \/ Streams!SyncStore(t) \/ Streams!SyncDone(t)
      PROVE  pool' = pool
  BY <1>8 DEF Streams!SyncStop, Streams!SyncStart, Streams!SyncStopped, Streams!SyncStore,
              Streams!SyncDone
<1>9. ASSUME UNCHANGED <<pool, linked, caller>> PROVE LinkedAttended'
  BY <1>0, <1>9 DEF LinkedAttended, Attends
<1>10. ASSUME NEW s \in StreamObjects, Streams!Connect(s) \/ Streams!Disconnect(s)
       PROVE  UNCHANGED <<pool, linked, caller>>
  BY <1>10 DEF Streams!Connect, Streams!Disconnect
<1>11. CASE UNCHANGED streamVars
  BY <1>9, <1>11 DEF streamVars
<1> QED BY <1>3, <1>4, <1>5, <1>6, <1>7, <1>8, <1>9, <1>10, <1>11 DEF Streams!Next, Streams!SyncStep

-----------------------------------------------------------------------------
StreamsInv == part = "streams" => StreamsTyped /\ Filed /\ LinkedAttended

LEMMA StreamsInitially == Init => StreamsInv
<1> SUFFICES ASSUME Init PROVE StreamsTyped /\ Filed /\ LinkedAttended
  BY DEF StreamsInv
<1>1. Streams!Init
  BY DEF Init
<1>2. Streams!Unused \in Objects
  BY DEF Streams!Unused, Objects
<1>3. StreamsTyped
  BY <1>1, <1>2, NoSyncTyped DEF Streams!Init, StreamsTyped
<1>4. Filed /\ LinkedAttended
  BY <1>1 DEF Streams!Init, Streams!NoSync, Filed, LinkedAttended
<1> QED BY <1>3, <1>4

LEMMA StreamsInductive == StreamsInv /\ [Next]_vars => StreamsInv'
<1> SUFFICES ASSUME StreamsInv, [Next]_vars, part' = "streams"
             PROVE  StreamsTyped' /\ Filed' /\ LinkedAttended'
  BY DEF StreamsInv
<1>1. part = "streams"
  BY DEF Next, vars
<1>2. Streams!Next \/ UNCHANGED streamVars
  BY <1>1, StreamsStep
<1>3. StreamsTyped' /\ StreamsKept
  BY <1>1, <1>2, StreamsNextTyped DEF StreamsInv
<1> QED BY <1>1, <1>2, <1>3, StreamsNextRegistered, StreamsNextAttended DEF StreamsInv

(* Once the pool is connected and no sync is under way, every account      *)
(* linked to an active config has a stream, whatever threads change links  *)
(* and sync at once, without a lock (sync_alpaca_trade_streams).           *)
THEOREM LinkedAreServed == Spec => []LinkedIsServed
<1>1. StreamsInv => LinkedIsServed
  BY DEF StreamsInv, LinkedIsServed, Streams!LinkedIsServed, LinkedAttended, Attends
<1> QED BY <1>1, StreamsInitially, StreamsInductive, PTL DEF Spec

-----------------------------------------------------------------------------
(* The live configs: ConfigProofs, for both instances.                     *)
PairProofs == INSTANCE ConfigProofs
  WITH Symbols <- Traded, Links <- LinksOfPair, Threads <- PairThreads,
       Edits <- FALSE, Restarts <- TRUE

SingleProofs == INSTANCE ConfigProofs
  WITH Symbols <- Traded, Links <- LinksOfSingle, Threads <- SingleThreads,
       Edits <- TRUE, Restarts <- TRUE

LEMMA PairStep == [Pair!Next]_configVars => [PairProofs!Next]_(PairProofs!vars)
BY DEF configVars, PairProofs!vars, Pair!Handler, PairProofs!Handler, Pair!Present,
       PairProofs!Present, Pair!Deleted, PairProofs!Deleted, Pair!Active, PairProofs!Active,
       Pair!Symbol, PairProofs!Symbol, Pair!Buyer, PairProofs!Buyer, Pair!SymbolsIn,
       PairProofs!SymbolsIn, Pair!Gone, PairProofs!Gone, Pair!Create, PairProofs!Create,
       Pair!Activate, PairProofs!Activate, Pair!Deactivate, PairProofs!Deactivate,
       Pair!ReadRow, PairProofs!ReadRow, Pair!UpdateConfig, PairProofs!UpdateConfig,
       Pair!WriteRow, PairProofs!WriteRow, Pair!UpdateArchiveState,
       PairProofs!UpdateArchiveState, Pair!Spawn, PairProofs!Spawn, Pair!ArchiveBegin,
       PairProofs!ArchiveBegin, Pair!DeleteArchived, PairProofs!DeleteArchived,
       Pair!ArchivedRecord, PairProofs!ArchivedRecord, Pair!Shared, PairProofs!Shared,
       Pair!DeleteStale, PairProofs!DeleteStale, Pair!DeleteLinked, PairProofs!DeleteLinked,
       Pair!DeleteUnlinked, PairProofs!DeleteUnlinked, Pair!Reconciled, PairProofs!Reconciled,
       Pair!Sync, PairProofs!Sync, Pair!Step, PairProofs!Step, Pair!Finish, PairProofs!Finish,
       Pair!ArchiveStart, PairProofs!ArchiveStart, Pair!ClosePositions,
       PairProofs!ClosePositions, Pair!ThreadReconcile, PairProofs!ThreadReconcile,
       Pair!ThreadFails, PairProofs!ThreadFails, Pair!ForceExit, PairProofs!ForceExit,
       Pair!ArchiveFinish, PairProofs!ArchiveFinish, Pair!DeleteFinish,
       PairProofs!DeleteFinish, Pair!EvalBegin, PairProofs!EvalBegin, Pair!Done,
       PairProofs!Done, Pair!EvalSkip, PairProofs!EvalSkip, Pair!EvalBuy, PairProofs!EvalBuy,
       Pair!EvalInsert, PairProofs!EvalInsert, Pair!MonitorExit, PairProofs!MonitorExit,
       Pair!PeriodicReconcile, PairProofs!PeriodicReconcile, Pair!Restart, PairProofs!Restart,
       Pair!ThreadStep, PairProofs!ThreadStep, Pair!Next, PairProofs!Next, Pair!NoRow,
       PairProofs!NoRow, Pair!NoEval, PairProofs!NoEval, Pair!NoJob, PairProofs!NoJob,
       Pair!NoDash, PairProofs!NoDash,
       Pair!Remarked, PairProofs!Remarked, Pair!Exits, PairProofs!Exits,
       Pair!Sold, PairProofs!Sold, Pair!ForceExitWatch, PairProofs!ForceExitWatch,
       Pair!SellFills, PairProofs!SellFills

LEMMA PairInit == Pair!Init => PairProofs!Init
BY DEF Pair!Init, PairProofs!Init, Pair!NoRow, PairProofs!NoRow, Pair!NoEval, PairProofs!NoEval,
       Pair!NoJob, PairProofs!NoJob, Pair!NoDash, PairProofs!NoDash

LEMMA SingleStep == [Single!Next]_configVars => [SingleProofs!Next]_(SingleProofs!vars)
BY DEF configVars, SingleProofs!vars, Single!Handler, SingleProofs!Handler, Single!Present,
       SingleProofs!Present, Single!Deleted, SingleProofs!Deleted, Single!Active,
       SingleProofs!Active, Single!Symbol, SingleProofs!Symbol, Single!Buyer,
       SingleProofs!Buyer, Single!SymbolsIn, SingleProofs!SymbolsIn, Single!Gone,
       SingleProofs!Gone, Single!Create, SingleProofs!Create, Single!Activate,
       SingleProofs!Activate, Single!Deactivate, SingleProofs!Deactivate, Single!ReadRow,
       SingleProofs!ReadRow, Single!UpdateConfig, SingleProofs!UpdateConfig, Single!WriteRow,
       SingleProofs!WriteRow, Single!UpdateArchiveState, SingleProofs!UpdateArchiveState,
       Single!Spawn, SingleProofs!Spawn, Single!ArchiveBegin, SingleProofs!ArchiveBegin,
       Single!DeleteArchived, SingleProofs!DeleteArchived, Single!ArchivedRecord,
       SingleProofs!ArchivedRecord, Single!Shared, SingleProofs!Shared, Single!DeleteStale,
       SingleProofs!DeleteStale, Single!DeleteLinked, SingleProofs!DeleteLinked,
       Single!DeleteUnlinked, SingleProofs!DeleteUnlinked, Single!Reconciled,
       SingleProofs!Reconciled, Single!Sync, SingleProofs!Sync, Single!Step,
       SingleProofs!Step, Single!Finish, SingleProofs!Finish, Single!ArchiveStart,
       SingleProofs!ArchiveStart, Single!ClosePositions, SingleProofs!ClosePositions,
       Single!ThreadReconcile, SingleProofs!ThreadReconcile, Single!ThreadFails,
       SingleProofs!ThreadFails, Single!ForceExit, SingleProofs!ForceExit,
       Single!ArchiveFinish, SingleProofs!ArchiveFinish, Single!DeleteFinish,
       SingleProofs!DeleteFinish, Single!EvalBegin, SingleProofs!EvalBegin, Single!Done,
       SingleProofs!Done, Single!EvalSkip, SingleProofs!EvalSkip, Single!EvalBuy,
       SingleProofs!EvalBuy, Single!EvalInsert, SingleProofs!EvalInsert, Single!MonitorExit,
       SingleProofs!MonitorExit, Single!PeriodicReconcile, SingleProofs!PeriodicReconcile,
       Single!Restart, SingleProofs!Restart, Single!ThreadStep, SingleProofs!ThreadStep,
       Single!Next, SingleProofs!Next, Single!NoRow, SingleProofs!NoRow, Single!NoEval,
       SingleProofs!NoEval, Single!NoJob, SingleProofs!NoJob, Single!NoDash,
       SingleProofs!NoDash,
       Single!Remarked, SingleProofs!Remarked, Single!Exits, SingleProofs!Exits,
       Single!Sold, SingleProofs!Sold, Single!ForceExitWatch, SingleProofs!ForceExitWatch,
       Single!SellFills, SingleProofs!SellFills

LEMMA SingleInit == Single!Init => SingleProofs!Init
BY DEF Single!Init, SingleProofs!Init, Single!NoRow, SingleProofs!NoRow, Single!NoEval, SingleProofs!NoEval,
       Single!NoJob, SingleProofs!NoJob, Single!NoDash, SingleProofs!NoDash

(* The parts of the configs do what the two instances do, the others leave *)
(* the configs as they are.                                                *)
LEMMA ConfigsStep ==
  ASSUME [Next]_vars
  PROVE  /\ part' = part
         /\ part = "pair" => [Pair!Next]_configVars
         /\ part = "single" => [Single!Next]_configVars
         /\ part \notin {"pair", "single"} => UNCHANGED configVars
BY DEF Next, NextTrade, NextExplore, NextFeed, vars, tradeVars

ConfigsInv == /\ part = "pair" => PairProofs!ConfigInv
              /\ part = "single" => SingleProofs!ConfigInv

LEMMA ConfigsInitially == Init => ConfigsInv
<1> SUFFICES ASSUME Init PROVE ConfigsInv
  OBVIOUS
<1>1. CASE part = "pair"
  BY <1>1, PairInit, PairProofs!ConfigInvInit DEF Init, ConfigsInv
<1>2. CASE part = "single"
  BY <1>2, SingleInit, SingleProofs!ConfigInvInit DEF Init, ConfigsInv
<1> QED BY <1>1, <1>2 DEF ConfigsInv

LEMMA ConfigsInductive == ConfigsInv /\ [Next]_vars => ConfigsInv'
<1> SUFFICES ASSUME ConfigsInv, [Next]_vars PROVE ConfigsInv'
  OBVIOUS
<1>1. CASE part = "pair"
  BY <1>1, ConfigsStep, PairStep, PairProofs!ConfigInvStep DEF ConfigsInv
<1>2. CASE part = "single"
  BY <1>2, ConfigsStep, SingleStep, SingleProofs!ConfigInvStep DEF ConfigsInv
<1> QED BY <1>1, <1>2, ConfigsStep DEF ConfigsInv

(* No config is archived or deleted while a watch of it stands for a       *)
(* position that is open (_run_archive_bg, the thread of a deletion), with *)
(* any configs that share accounts, sales that time out or fill late,      *)
(* reconciliations that leave out or miss positions, threads, stale rows   *)
(* and restarts.                                                           *)
THEOREM ConfigsGoSold == Spec => []SoldBeforeGone
<1>1. ConfigsInv => SoldBeforeGone
  BY DEF ConfigsInv, SoldBeforeGone, PairProofs!ConfigInv, SingleProofs!ConfigInv,
         Pair!SoldBeforeGone, PairProofs!SoldBeforeGone, SingleProofs!SoldBeforeGone,
         Pair!Gone, PairProofs!Gone, SingleProofs!Gone, Pair!Buyer, PairProofs!Buyer,
         SingleProofs!Buyer, Pair!Present, PairProofs!Present, SingleProofs!Present
<1> QED BY <1>1, ConfigsInitially, ConfigsInductive, PTL DEF Spec

(* No click, thread or stale row makes a config active again whose         *)
(* archiving has begun (api_live_config_activate, update_live_config).     *)
THEOREM ArchivingsStand == Spec => NeverRevived
<1> DEFINE Stands == \A c \in Configs :
                       (Pair!Present(c) /\ conf[c].archive # "none") => ~conf'[c].active
<1>1. ConfigsInv /\ [Next]_vars => [Stands]_configVars
  <2> SUFFICES ASSUME ConfigsInv, [Next]_vars, ~UNCHANGED configVars PROVE Stands
    OBVIOUS
  <2>1. CASE part = "pair"
    BY <2>1, ConfigsStep, PairStep, PairProofs!NotRevived
       DEF ConfigsInv, Pair!Present, PairProofs!Present
  <2>2. CASE part = "single"
    BY <2>2, ConfigsStep, SingleStep, SingleProofs!NotRevived
       DEF ConfigsInv, Pair!Present, SingleProofs!Present
  <2> QED BY <2>1, <2>2, ConfigsStep
<1>2. Pair!vars = configVars
  BY DEF Pair!vars, configVars
<1> QED BY <1>1, ConfigsInitially, ConfigsInductive, PTL
        DEF Spec, NeverRevived, Pair!NeverRevived, Pair!vars, configVars

-----------------------------------------------------------------------------
(* The bursts of the X stream.                                             *)

(* What a step of the composition is for them.                             *)
LEMMA BurstsStep ==
  ASSUME [Next]_vars, part = "bursts"
  PROVE  part' = "bursts" /\ (Bursts!Next \/ UNCHANGED xVars)
BY DEF Next, NextTrade, NextExplore, NextFeed, vars, feedVars

(* Types, as far as they are needed; the day of the count is not ahead.    *)
BurstsTyped ==
  /\ today \in Nat /\ xDay \in Nat /\ xDay <= today
  /\ count \in Nat /\ started \in Nat
  /\ starter \in [BurstThreads -> {"idle", "clear"}]
  /\ burst \in [BurstSlots -> Bursts!Locals]

LEMMA NoBurstTyped == Bursts!NoBurst \in Bursts!Locals
BY BurstsAssumption DEF Bursts!NoBurst, Bursts!Locals

LEMMA BurstsInitTyped == Bursts!Init => BurstsTyped
BY BurstsAssumption, NoBurstTyped DEF Bursts!Init, BurstsTyped

(* Where a burst goes from a state of its own.                             *)
LEMMA NextAttemptTyped ==
  ASSUME NEW a \in 0..Retries
  PROVE  [Bursts!NoBurst EXCEPT !.pc = "attempt", !.attempt = a] \in Bursts!Locals
BY NoBurstTyped DEF Bursts!Locals

LEMMA RetryTyped ==
  ASSUME NEW l \in Bursts!Locals, l.attempt < Retries
  PROVE  [Bursts!NoBurst EXCEPT !.pc = "attempt", !.attempt = l.attempt + 1] \in Bursts!Locals
<1>1. l.attempt \in 0..Retries
  BY DEF Bursts!Locals
<1>2. l.attempt + 1 \in 0..Retries
  BY <1>1, BurstsAssumption
<1> QED BY <1>2, NextAttemptTyped

LEMMA LeaveTyped ==
  ASSUME NEW l \in Bursts!Locals, NEW n \in {"done", "retry", "raise"}
  PROVE  [l EXCEPT !.pc = "cleanup", !.next = n] \in Bursts!Locals
BY DEF Bursts!Locals

LEMMA GoOnTyped ==
  ASSUME NEW l \in Bursts!Locals, NEW c \in SUBSET (Rules \cup Revised),
         NEW p \in {"attempt", "add", "collect", "flush"}
  PROVE  /\ [l EXCEPT !.pc = p] \in Bursts!Locals
         /\ [l EXCEPT !.pc = p, !.created = c] \in Bursts!Locals
BY DEF Bursts!Locals

LEMMA BurstsNextTyped ==
  ASSUME BurstsTyped, Bursts!Next \/ UNCHANGED xVars
  PROVE  BurstsTyped'
<1> USE DEF BurstsTyped
<1>1. ASSUME NEW t \in BurstThreads, Bursts!Check(t) PROVE BurstsTyped'
  BY <1>1 DEF Bursts!Check, Bursts!Alive, Bursts!burstVars
<1>2. ASSUME NEW t \in BurstThreads, Bursts!StartBurst(t) PROVE BurstsTyped'
  <2>1. [Bursts!NoBurst EXCEPT !.pc = "attempt"] \in Bursts!Locals
    BY NoBurstTyped, GoOnTyped
  <2> QED BY <1>2, <2>1 DEF Bursts!StartBurst, Bursts!Counted
<1>3. ASSUME NEW b \in BurstSlots, NEW l \in Bursts!Locals, burst' = [burst EXCEPT ![b] = l],
             Bursts!Keep
      PROVE  BurstsTyped'
  BY <1>3 DEF Bursts!Keep
<1>4. ASSUME NEW b \in BurstSlots,
             \/ Bursts!EndBurst(b) \/ Bursts!Attempt(b) \/ Bursts!AddRules(b) \/ Bursts!Judge(b)
             \/ Bursts!LeaveStream(b) \/ Bursts!Cleanup(b) \/ Bursts!CleanupFails(b)
             \/ Bursts!AddTimesOut(b)
      PROVE  BurstsTyped'
  <2>1. Bursts!Keep
    BY <1>4 DEF Bursts!EndBurst, Bursts!Attempt, Bursts!AddRules, Bursts!Judge, Bursts!LeaveStream,
                Bursts!Cleanup, Bursts!CleanupFails, Bursts!AddTimesOut
  <2>2. CASE Bursts!EndBurst(b) \/ Bursts!AddTimesOut(b)
    BY <2>1, <2>2, <1>3, NoBurstTyped DEF Bursts!EndBurst, Bursts!AddTimesOut
  <2>3. CASE Bursts!Attempt(b)
    BY <2>1, <2>3, <1>3, GoOnTyped DEF Bursts!Attempt
  <2>4. CASE Bursts!AddRules(b)
    <3>1. Bursts!RulesOf(b) \ atX \in SUBSET (Rules \cup Revised)
      BY DEF Bursts!RulesOf
    <3> QED BY ZenonT(40), <2>1, <2>4, <3>1, <1>3, GoOnTyped DEF Bursts!AddRules
  <2>5. CASE Bursts!Judge(b) \/ Bursts!LeaveStream(b)
    <3>1. \/ burst' = [burst EXCEPT ![b].pc = "flush"]
          \/ \E n \in {"done", "retry", "raise"} :
               burst' = [burst EXCEPT ![b].pc = "cleanup", ![b].next = n]
      BY <2>5 DEF Bursts!Judge, Bursts!LeaveStream, Bursts!Leave
    <3>2. CASE burst' = [burst EXCEPT ![b].pc = "flush"]
      <4>1. [burst[b] EXCEPT !.pc = "flush"] \in Bursts!Locals
        BY GoOnTyped
      <4> QED BY <2>1, <3>2, <4>1, <1>3
    <3>3. ASSUME NEW n \in {"done", "retry", "raise"},
                 burst' = [burst EXCEPT ![b].pc = "cleanup", ![b].next = n]
          PROVE  BurstsTyped'
      <4>1. [burst[b] EXCEPT !.pc = "cleanup", !.next = n] \in Bursts!Locals
        BY LeaveTyped
      <4> QED BY <2>1, <3>3, <4>1, <1>3
    <3> QED BY <3>1, <3>2, <3>3
  <2>6. CASE Bursts!Cleanup(b) \/ Bursts!CleanupFails(b)
    <3>1. Bursts!Decided(b)
      BY <2>6 DEF Bursts!Cleanup, Bursts!CleanupFails
    <3> QED BY <2>1, <3>1, <1>3, NoBurstTyped, RetryTyped DEF Bursts!Decided, Bursts!Again
  <2> QED BY <1>4, <2>2, <2>3, <2>4, <2>5, <2>6
<1>5. CASE Bursts!DayEnds
  BY <1>5 DEF Bursts!DayEnds, Bursts!burstVars
<1>6. CASE Bursts!Stop \/ Bursts!Purge
  BY <1>6 DEF Bursts!Stop, Bursts!Purge, Bursts!burstVars
<1>7. CASE Bursts!Restart
  BY <1>7, NoBurstTyped DEF Bursts!Restart
<1>8. CASE UNCHANGED xVars
  BY <1>8 DEF xVars
<1> QED BY <1>1, <1>2, <1>4, <1>5, <1>6, <1>7, <1>8 DEF Bursts!Next

(* What a burst has created is in its hands until its cleanup: nothing is  *)
(* before it adds its rules, and every rule at X is in some burst's hands  *)
(* or a failed request has left it there.                                  *)
BurstsOwn ==
  /\ \A b \in BurstSlots : burst[b].pc \in {"attempt", "add", "ended"} => burst[b].created = {}
  /\ \A x \in atX : x \in kept \/ \E b \in BurstSlots : x \in burst[b].created

LEMMA OwnedRules == BurstsOwn => Bursts!RulesAreOwned
BY DEF BurstsOwn, Bursts!RulesAreOwned, Bursts!Alive

(* A step of burst b that gives up nothing it has created.                 *)
LEMMA OwnAfter ==
  ASSUME BurstsOwn, NEW b \in BurstSlots, NEW l, burst \in [BurstSlots -> Bursts!Locals],
         burst' = [burst EXCEPT ![b] = l],
         l.pc \in {"attempt", "add", "ended"} => l.created = {},
         \A x \in atX' : \/ x \in kept' \/ x \in l.created
                         \/ x \in atX /\ (x \in kept => x \in kept') /\ x \notin burst[b].created
  PROVE  BurstsOwn'
<1>1. \A c \in BurstSlots : burst'[c] = IF c = b THEN l ELSE burst[c]
  OBVIOUS
<1>2. ASSUME NEW x \in atX' PROVE x \in kept' \/ \E c \in BurstSlots : x \in burst'[c].created
  BY <1>1 DEF BurstsOwn
<1> QED BY <1>1, <1>2 DEF BurstsOwn

LEMMA BurstsNextOwn ==
  ASSUME BurstsTyped, BurstsOwn, Bursts!Next \/ UNCHANGED xVars
  PROVE  BurstsOwn'
<1>0. burst \in [BurstSlots -> Bursts!Locals]
  BY DEF BurstsTyped
<1>1. ASSUME NEW t \in BurstThreads, Bursts!Check(t) PROVE BurstsOwn'
  BY <1>1 DEF Bursts!Check, Bursts!burstVars, BurstsOwn
<1>2. ASSUME NEW t \in BurstThreads, Bursts!StartBurst(t) PROVE BurstsOwn'
  <2>1. PICK b \in BurstSlots : /\ current' = b /\ burst[b].pc = "ended"
                               /\ burst' = [burst EXCEPT ![b] = [Bursts!NoBurst EXCEPT !.pc = "attempt"]]
    BY <1>2 DEF Bursts!StartBurst, Bursts!Alive
  <2>2. burst[b].created = {} /\ atX' = atX /\ kept' = kept
    BY <1>2, <2>1 DEF Bursts!StartBurst, BurstsOwn
  <2>3. [Bursts!NoBurst EXCEPT !.pc = "attempt"].created = {}
    BY DEF Bursts!NoBurst
  <2> QED BY <2>1, <2>2, <2>3, <1>0, OwnAfter
<1>3. ASSUME NEW b \in BurstSlots, Bursts!EndBurst(b) PROVE BurstsOwn'
  BY <1>3, <1>0, OwnAfter DEF Bursts!EndBurst, Bursts!NoBurst, BurstsOwn
<1>11. ASSUME NEW b \in BurstSlots, Bursts!AddTimesOut(b) PROVE BurstsOwn'
  <2>1. PICK added : atX' = atX \cup added /\ kept' = kept \cup added
    BY <1>11 DEF Bursts!AddTimesOut
  <2>2. burst' = [burst EXCEPT ![b] = Bursts!NoBurst] /\ burst[b].created = {}
    BY <1>11 DEF Bursts!AddTimesOut, BurstsOwn
  <2>3. Bursts!NoBurst.created = {}
    BY DEF Bursts!NoBurst
  <2> QED BY <2>1, <2>2, <2>3, <1>0, OwnAfter
<1>4. ASSUME NEW b \in BurstSlots, Bursts!Attempt(b) PROVE BurstsOwn'
  BY <1>4, <1>0 DEF Bursts!Attempt, BurstsOwn, Bursts!Locals
<1>5. ASSUME NEW b \in BurstSlots, Bursts!AddRules(b) PROVE BurstsOwn'
  BY <1>5, <1>0 DEF Bursts!AddRules, BurstsOwn, Bursts!Locals
<1>6. ASSUME NEW b \in BurstSlots, Bursts!Judge(b) \/ Bursts!LeaveStream(b) PROVE BurstsOwn'
  BY <1>6, <1>0 DEF Bursts!Judge, Bursts!LeaveStream, Bursts!Leave, BurstsOwn, Bursts!Locals
<1>7. ASSUME NEW b \in BurstSlots, Bursts!Cleanup(b) \/ Bursts!CleanupFails(b) PROVE BurstsOwn'
  <2>1. PICK l : l.created = {} /\ burst' = [burst EXCEPT ![b] = l]
    BY <1>7 DEF Bursts!Cleanup, Bursts!CleanupFails, Bursts!Decided, Bursts!NoBurst
  <2>2. \A x \in atX' : \/ x \in kept'
                        \/ x \in atX /\ (x \in kept => x \in kept') /\ x \notin burst[b].created
    BY <1>7 DEF Bursts!Cleanup, Bursts!CleanupFails, Bursts!Removed
  <2> QED BY <2>1, <2>2, <1>0, OwnAfter
<1>8. CASE Bursts!DayEnds \/ Bursts!Stop \/ UNCHANGED xVars
  BY <1>8 DEF Bursts!DayEnds, Bursts!Stop, Bursts!burstVars, xVars, BurstsOwn
<1>9. CASE Bursts!Purge
  BY <1>9 DEF Bursts!Purge, BurstsOwn
<1>10. CASE Bursts!Restart
  BY <1>10 DEF Bursts!Restart, Bursts!NoBurst, BurstsOwn
<1> QED BY <1>1, <1>2, <1>3, <1>4, <1>5, <1>6, <1>7, <1>8, <1>9, <1>10, <1>11 DEF Bursts!Next

(* Threads whose start_burst has passed its check.                         *)
Clear == {t \in BurstThreads : starter[t] = "clear"}

(* Every thread but one can pass the check beside the one that reaches the *)
(* limit; every thread can have passed it the day before.                  *)
BurstsCounted ==
  /\ count + Cardinality(Clear) <= MaxBursts + Cardinality(BurstThreads) - 1
  /\ xDay # today => started + Cardinality(Clear) <= Cardinality(BurstThreads)
  /\ xDay = today => started <= count + Cardinality(BurstThreads)

LEMMA ClearCounts ==
  /\ Cardinality(BurstThreads) \in Nat \ {0}
  /\ IsFiniteSet(Clear) /\ Cardinality(Clear) \in Nat
  /\ Cardinality(Clear) <= Cardinality(BurstThreads)
BY BurstsAssumption, FS_CardinalityType, FS_EmptySet, FS_Subset, Clear \subseteq BurstThreads DEF Clear

(* What a check, and a burst that starts, do to the number of clear threads. *)
LEMMA ClearAfter ==
  ASSUME NEW t \in BurstThreads, NEW s, starter \in [BurstThreads -> {"idle", "clear"}],
         starter' = [starter EXCEPT ![t] = s]
  PROVE  /\ starter[t] = "idle" /\ s = "idle" => Cardinality(Clear') = Cardinality(Clear)
         /\ starter[t] = "idle" /\ s = "clear" => Cardinality(Clear') = Cardinality(Clear) + 1
         /\ starter[t] = "clear" /\ s = "idle" => Cardinality(Clear') = Cardinality(Clear) - 1
<1>1. CASE starter[t] = "idle" /\ s = "idle"
  <2>1. Clear' = Clear
    BY <1>1 DEF Clear
  <2> QED BY <1>1, <2>1
<1>2. CASE starter[t] = "idle" /\ s = "clear"
  <2>1. Clear' = Clear \cup {t} /\ t \notin Clear
    BY <1>2 DEF Clear
  <2> QED BY <1>2, <2>1, ClearCounts, FS_AddElement
<1>3. CASE starter[t] = "clear" /\ s = "idle"
  <2>1. Clear' = Clear \ {t} /\ t \in Clear
    BY <1>3 DEF Clear
  <2> QED BY <1>3, <2>1, ClearCounts, FS_RemoveElement
<1> QED BY <1>1, <1>2, <1>3

(* FiniteSets, as the instance of XStream sees it.                         *)
LEMMA SameCardinality == \A S : Bursts!Cardinality(S) = Cardinality(S)
BY DEF Bursts!Cardinality, Cardinality

LEMMA BoundedBursts == BurstsTyped /\ BurstsCounted => Bursts!BurstsBounded
<1> DEFINE T == Cardinality(BurstThreads)
           C == Cardinality(Clear)
<1> SUFFICES ASSUME BurstsTyped, BurstsCounted PROVE started <= MaxBursts + 2 * T - 1
  BY SameCardinality DEF Bursts!BurstsBounded
<1>1. /\ T \in Nat \ {0} /\ C \in Nat /\ C <= T /\ MaxBursts \in Nat
      /\ count \in Nat /\ started \in Nat
  BY ClearCounts, BurstsAssumption DEF BurstsTyped
<1>2. /\ count + C <= MaxBursts + T - 1
      /\ started + C <= T \/ started <= count + T
  BY DEF BurstsCounted
<1> HIDE DEF T, C
<1> QED BY <1>1, <1>2

(* What is within the bound remains so when the count has become less.     *)
LEMMA LessStays ==
  ASSUME NEW m \in Nat, NEW t \in Nat, NEW c \in Nat, NEW n \in Nat, NEW k \in Nat,
         n <= c, c + k <= m + t - 1
  PROVE  n + k <= m + t - 1
OBVIOUS

LEMMA OneMore ==
  ASSUME NEW m \in Nat, NEW t \in Nat, NEW n \in Nat, NEW k \in Nat, n < m, k <= t
  PROVE  n + k <= m + t - 1
OBVIOUS

LEMMA BurstsNextCounted ==
  ASSUME BurstsTyped, BurstsCounted, BurstsTyped', Bursts!Next \/ UNCHANGED xVars
  PROVE  BurstsCounted'
<1> DEFINE T == Cardinality(BurstThreads)
           C == Cardinality(Clear)
<1>0. /\ T \in Nat \ {0} /\ C \in Nat /\ C <= T /\ MaxBursts \in Nat
      /\ today \in Nat /\ xDay \in Nat /\ xDay <= today /\ count \in Nat /\ started \in Nat
      /\ starter \in [BurstThreads -> {"idle", "clear"}]
  BY ClearCounts, BurstsAssumption DEF BurstsTyped
<1>1. /\ count + C <= MaxBursts + T - 1
      /\ xDay # today => started + C <= T
      /\ xDay = today => started <= count + T
  BY DEF BurstsCounted
<1>2. C' \in Nat /\ C' <= T
  <2>1. Clear' \subseteq BurstThreads
    BY DEF Clear
  <2> QED BY <2>1, BurstsAssumption, FS_Subset, FS_CardinalityType
<1> HIDE DEF C, T
<1>3. ASSUME NEW t \in BurstThreads, Bursts!Check(t) PROVE BurstsCounted'
  <2>1. /\ starter[t] = "idle" /\ xDay' = today /\ today' = today /\ started' = started
        /\ count' = IF xDay # today THEN 0 ELSE count
    BY <1>3 DEF Bursts!Check
  <2>2. count' <= count /\ count' \in Nat
    BY <2>1, <1>0
  <2>3. started <= count' + T
    BY <2>1, <1>0, <1>1
  <2>4. \/ starter' = [starter EXCEPT ![t] = "clear"] /\ count' < MaxBursts
        \/ starter' = [starter EXCEPT ![t] = "idle"]
    BY <1>3 DEF Bursts!Check, Bursts!Alive
  <2>5. count' + C' <= MaxBursts + T - 1
    <3>1. CASE starter' = [starter EXCEPT ![t] = "clear"] /\ count' < MaxBursts
      BY <3>1, <2>2, <1>0, <1>2, OneMore
    <3>2. CASE starter' = [starter EXCEPT ![t] = "idle"]
      <4>1. C' = C
        BY <3>2, <2>1, <1>0, ClearAfter DEF C
      <4> QED BY <4>1, <2>2, <1>0, <1>1, LessStays
    <3> QED BY <2>4, <3>1, <3>2
  <2> QED BY <2>1, <2>3, <2>5 DEF BurstsCounted, C, T
<1>4. ASSUME NEW t \in BurstThreads, Bursts!StartBurst(t) PROVE BurstsCounted'
  <2>1. /\ starter[t] = "clear" /\ starter' = [starter EXCEPT ![t] = "idle"]
        /\ xDay' = xDay /\ today' = today /\ started' = started + 1 /\ count' = count + 1
    BY <1>4 DEF Bursts!StartBurst, Bursts!Counted
  <2>2. C' = C - 1
    BY <2>1, <1>0, ClearAfter DEF C
  <2>3. /\ count' + C' <= MaxBursts + T - 1
        /\ xDay' # today' => started' + C' <= T
        /\ xDay' = today' => started' <= count' + T
    BY <2>1, <2>2, <1>0, <1>1
  <2> QED BY <2>3 DEF BurstsCounted, C, T
<1>5. CASE Bursts!DayEnds
  <2>1. starter' = starter /\ xDay' = xDay /\ today' = today + 1 /\ started' = 0 /\ count' = count
    BY <1>5 DEF Bursts!DayEnds
  <2>2. C' = C
    BY <2>1 DEF C, Clear
  <2>3. /\ count' + C' <= MaxBursts + T - 1
        /\ xDay' # today' => started' + C' <= T
        /\ xDay' = today' => started' <= count' + T
    BY <2>1, <2>2, <1>0, <1>1
  <2> QED BY <2>3 DEF BurstsCounted, C, T
<1>6. CASE Bursts!Restart
  <2>1. /\ starter' = [t \in BurstThreads |-> "idle"] /\ xDay' = today /\ today' = today
        /\ count' = 0 /\ started' = 0
    BY <1>6 DEF Bursts!Restart
  <2>2. C' = 0
    <3>1. Clear' = {}
      BY <2>1 DEF Clear
    <3> QED BY <3>1, FS_EmptySet DEF C
  <2>3. /\ count' + C' <= MaxBursts + T - 1
        /\ xDay' # today' => started' + C' <= T
        /\ xDay' = today' => started' <= count' + T
    BY <2>1, <2>2, <1>0
  <2> QED BY <2>3 DEF BurstsCounted, C, T
<1>7. ASSUME UNCHANGED <<today, xDay, count, started, starter>> PROVE BurstsCounted'
  BY <1>7 DEF BurstsCounted, Clear
<1>8. ASSUME NEW b \in BurstSlots,
             \/ Bursts!EndBurst(b) \/ Bursts!Attempt(b) \/ Bursts!AddRules(b) \/ Bursts!Judge(b)
             \/ Bursts!LeaveStream(b) \/ Bursts!Cleanup(b) \/ Bursts!CleanupFails(b)
             \/ Bursts!AddTimesOut(b)
      PROVE  UNCHANGED <<today, xDay, count, started, starter>>
  BY <1>8 DEF Bursts!EndBurst, Bursts!Attempt, Bursts!AddRules, Bursts!Judge, Bursts!LeaveStream,
              Bursts!Cleanup, Bursts!CleanupFails, Bursts!AddTimesOut, Bursts!Keep
<1>9. CASE Bursts!Stop \/ Bursts!Purge \/ UNCHANGED xVars
  BY <1>9, <1>7 DEF Bursts!Stop, Bursts!Purge, xVars
<1> QED BY <1>3, <1>4, <1>5, <1>6, <1>7, <1>8, <1>9 DEF Bursts!Next

(* A behaviour of the part is one in which all of this holds.              *)
BurstsInv == part = "bursts" => BurstsTyped /\ BurstsOwn /\ BurstsCounted

LEMMA BurstsInitially == Init => BurstsInv
<1> SUFFICES ASSUME Init PROVE BurstsInv
  OBVIOUS
<1>1. Bursts!Init
  BY DEF Init
<1>2. BurstsTyped
  BY <1>1, BurstsInitTyped
<1>3. BurstsOwn
  BY <1>1 DEF Bursts!Init, Bursts!NoBurst, BurstsOwn
<1>4. BurstsCounted
  <2>1. Clear = {}
    BY <1>1 DEF Bursts!Init, Clear
  <2> QED BY <1>1, <2>1, ClearCounts, FS_EmptySet, BurstsAssumption DEF Bursts!Init, BurstsCounted
<1> QED BY <1>2, <1>3, <1>4 DEF BurstsInv

LEMMA BurstsInductive == BurstsInv /\ [Next]_vars => BurstsInv'
<1> SUFFICES ASSUME BurstsInv, [Next]_vars, part' = "bursts" PROVE (BurstsTyped /\ BurstsOwn /\ BurstsCounted)'
  BY DEF BurstsInv
<1>1. part = "bursts"
  BY DEF Next, vars
<1>2. Bursts!Next \/ UNCHANGED xVars
  BY <1>1, BurstsStep
<1> QED BY <1>1, <1>2, BurstsNextTyped, BurstsNextOwn, BurstsNextCounted DEF BurstsInv

(* A rule at X is one that some burst will remove, or that a request which *)
(* failed or timed out has left there (kept); and the bursts of a day      *)
(* are bounded by the limit and the threads, whatever their number, the    *)
(* rules, retries and failing requests: _run_burst's finally, stop, main's *)
(* purge; _can_start_burst and start_burst.                                *)
THEOREM BurstsAreAccounted == Spec => []BurstsAccounted
<1>1. BurstsInv => BurstsAccounted
  BY OwnedRules, BoundedBursts DEF BurstsInv, BurstsAccounted
<1> QED BY <1>1, BurstsInitially, BurstsInductive, PTL DEF Spec

-----------------------------------------------------------------------------
(* The news archive.                                                       *)

LEMMA NewsStep ==
  ASSUME [Next]_vars, part = "news"
  PROVE  part' = "news" /\ (News!Next \/ UNCHANGED newsVars)
BY DEF Next, NextTrade, NextExplore, NextFeed, vars, feedVars

(* An article that was written to its end has a day; what is being added   *)
(* to an archive is of its day; and only then is anything added.           *)
NewsTyped ==
  /\ newsNow \in News!Days
  /\ newsHot \subseteq Articles /\ newsWhole \subseteq Articles
  /\ newsDay \in [Articles -> News!Days \cup {None}]
  /\ newsZip \in [News!Days -> SUBSET Articles]
  /\ \A a \in newsHot \cup newsWhole : newsDay[a] \in News!Days

AddedIsOfItsDay ==
  /\ newsPc = "add" => /\ newsOpen \in News!Days
                       /\ newsLeft \subseteq {a \in Articles : newsDay[a] = newsOpen}
                       /\ newsSession \subseteq {a \in Articles : newsDay[a] = newsOpen}
  /\ newsPc # "add" => newsSession = {}

(* An article stays where it is, unless it is lost.                        *)
LEMMA KeptAfter ==
  ASSUME NewsTyped, News!ArticlesKept,
         UNCHANGED <<newsWhole, newsDay>>, newsNow' = newsNow,
         newsLost \subseteq newsLost',
         \A a \in newsWhole \ newsLost' :
           News!Kept(a) /\ newsDay[a] >= newsNow - Retention => News!Kept(a)'
  PROVE  News!ArticlesKept'
BY DEF News!ArticlesKept

LEMMA NewsNextTyped ==
  ASSUME NewsTyped, AddedIsOfItsDay, News!Next \/ UNCHANGED newsVars
  PROVE  NewsTyped'
<1> USE DEF NewsTyped
<1>1. CASE News!TimePasses
  BY <1>1, NewsAssumption DEF News!TimePasses, News!Days
<1>2. ASSUME NEW a \in Articles, News!Write(a) PROVE NewsTyped'
  BY <1>2 DEF News!Write
<1>3. CASE News!BeginCycle \/ UNCHANGED newsVars \/ \E d \in News!Days : News!OpenArchive(d)
  BY <1>3 DEF News!BeginCycle, News!OpenArchive, newsVars
<1>4. ASSUME NEW a \in Articles, News!Archive(a) \/ News!NotArchived(a) PROVE NewsTyped'
  BY <1>4 DEF News!Archive, News!NotArchived
<1>5. CASE News!CloseArchive
  <2>1. newsZip[newsOpen] \cup newsSession \in SUBSET Articles
    BY <1>5 DEF News!CloseArchive, AddedIsOfItsDay
  <2> QED BY <1>5, <2>1 DEF News!CloseArchive
<1>6. CASE News!CycleFails \/ News!Kill
  BY <1>6 DEF News!CycleFails, News!Kill, News!Damage
<1>7. CASE News!Prune
  BY <1>7 DEF News!Prune
<1> QED BY <1>1, <1>2, <1>3, <1>4, <1>5, <1>6, <1>7 DEF News!Next

LEMMA NewsNextAdded ==
  ASSUME NewsTyped, AddedIsOfItsDay, News!Next \/ UNCHANGED newsVars
  PROVE  AddedIsOfItsDay'
<1> USE DEF AddedIsOfItsDay
<1>1. ASSUME NEW a \in Articles, News!Write(a) PROVE AddedIsOfItsDay'
  <2>1. newsDay[a] \notin News!Days
    BY <1>1, NewsAssumption DEF News!Write, News!Days
  <2>2. \A b \in Articles : newsDay[b] \in News!Days => newsDay'[b] = newsDay[b]
    BY <1>1, <2>1 DEF News!Write, NewsTyped
  <2> QED BY <1>1, <2>2 DEF News!Write, News!cycleVars
<1>2. CASE News!TimePasses \/ News!BeginCycle \/ UNCHANGED newsVars
  BY <1>2 DEF News!TimePasses, News!BeginCycle, News!cycleVars, newsVars
<1>3. ASSUME NEW d \in News!Days, News!OpenArchive(d) PROVE AddedIsOfItsDay'
  BY <1>3 DEF News!OpenArchive, News!StaleOf, NewsTyped
<1>4. ASSUME NEW a \in Articles, News!Archive(a) \/ News!NotArchived(a) PROVE AddedIsOfItsDay'
  BY <1>4 DEF News!Archive, News!NotArchived
<1>5. CASE News!CloseArchive
  BY <1>5 DEF News!CloseArchive
<1>6. CASE News!CycleFails \/ News!Kill \/ News!Prune
  BY <1>6 DEF News!CycleFails, News!Kill, News!Prune, News!Sleeping
<1> QED BY <1>1, <1>2, <1>3, <1>4, <1>5, <1>6 DEF News!Next

LEMMA NewsNextKept ==
  ASSUME NewsTyped, AddedIsOfItsDay, News!ArticlesKept, News!Next \/ UNCHANGED newsVars
  PROVE  News!ArticlesKept'
<1>0. \A a \in newsWhole : a \in Articles /\ newsDay[a] \in News!Days
  BY DEF NewsTyped
<1>1. CASE News!TimePasses
  <2>1. ASSUME NEW a \in newsWhole' \ newsLost', newsDay'[a] >= newsNow' - Retention
        PROVE  News!Kept(a)'
    <3>1. /\ a \in newsWhole \ newsLost /\ newsDay'[a] = newsDay[a] /\ newsNow' = newsNow + 1
      BY <1>1, <2>1 DEF News!TimePasses
    <3>2. newsNow \in Int /\ newsDay[a] \in Int /\ Retention \in Int
      BY <1>0, <3>1, NewsAssumption DEF NewsTyped, News!Days
    <3>3. newsDay[a] >= newsNow - Retention
      BY <2>1, <3>1, <3>2
    <3>4. News!Kept(a)
      BY <3>1, <3>3 DEF News!ArticlesKept
    <3> QED BY <1>1, <3>4 DEF News!TimePasses, News!cycleVars, News!Kept
  <2> QED BY <2>1 DEF News!ArticlesKept
<1>2. ASSUME NEW a \in Articles, News!Write(a) PROVE News!ArticlesKept'
  <2>1. \A b \in Articles : b # a => newsDay'[b] = newsDay[b]
    BY <1>2 DEF News!Write, NewsTyped
  <2>2. a \in newsHot'
    BY <1>2 DEF News!Write
  <2>3. ASSUME NEW b \in newsWhole' \ newsLost', newsDay'[b] >= newsNow' - Retention, b # a
        PROVE  News!Kept(b)'
    BY <1>0, <1>2, <2>1, <2>3 DEF News!Write, News!cycleVars, News!ArticlesKept, News!Kept
  <2> QED BY <2>2, <2>3 DEF News!ArticlesKept, News!Kept
<1>3. CASE News!BeginCycle \/ UNCHANGED newsVars
  BY <1>3 DEF News!BeginCycle, News!ArticlesKept, News!Kept, newsVars
<1>4. ASSUME NEW d \in News!Days, News!OpenArchive(d) PROVE News!ArticlesKept'
  BY <1>4 DEF News!OpenArchive, News!ArticlesKept, News!Kept, AddedIsOfItsDay
<1>5. ASSUME NEW a \in Articles, News!Archive(a) PROVE News!ArticlesKept'
  BY <1>5 DEF News!Archive, News!ArticlesKept, News!Kept, AddedIsOfItsDay
<1>6. ASSUME NEW a \in Articles, News!NotArchived(a) PROVE News!ArticlesKept'
  BY <1>6 DEF News!NotArchived, News!ArticlesKept, News!Kept
<1>7. CASE News!CloseArchive
  <2>1. newsOpen \in News!Days /\ newsZip' = [newsZip EXCEPT ![newsOpen] = newsZip[newsOpen] \cup newsSession]
    BY <1>7 DEF News!CloseArchive, AddedIsOfItsDay
  <2>2. \A a \in newsWhole : News!Kept(a) => News!Kept(a)'
    BY <1>0, <1>7, <2>1 DEF News!CloseArchive, News!Kept, NewsTyped
  <2> QED BY <1>7, <2>2, KeptAfter DEF News!CloseArchive
<1>8. CASE News!CycleFails \/ News!Kill
  <2>1. News!Damage /\ UNCHANGED <<newsNow, newsHot, newsDay, newsWhole>>
    BY <1>8 DEF News!CycleFails, News!Kill
  <2>2. newsLost \subseteq newsLost' /\ newsSession \subseteq newsLost'
    BY <2>1 DEF News!Damage, AddedIsOfItsDay
  <2>3. ASSUME NEW a \in newsWhole \ newsLost', News!Kept(a) PROVE News!Kept(a)'
    <3>1. a \in newsHot \/ a \in newsZip[newsDay[a]]
      BY <2>2, <2>3 DEF News!Kept
    <3>2. a \in newsZip[newsDay[a]] => a \in newsZip'[newsDay[a]]
      BY <1>0, <2>1, <2>3 DEF News!Damage, NewsTyped, AddedIsOfItsDay
    <3> QED BY <2>1, <3>1, <3>2 DEF News!Kept
  <2> QED BY <2>1, <2>2, <2>3, KeptAfter
<1>9. CASE News!Prune
  <2>1. /\ \A d \in News!Days : d >= newsNow - Retention => newsZip'[d] = newsZip[d]
        /\ newsSession = {} /\ UNCHANGED <<newsNow, newsHot, newsDay, newsWhole, newsLost>>
    BY <1>9 DEF News!Prune, AddedIsOfItsDay
  <2> QED BY <1>0, <2>1, KeptAfter DEF News!Kept
<1> QED BY <1>1, <1>2, <1>3, <1>4, <1>5, <1>6, <1>7, <1>8, <1>9 DEF News!Next

NewsInv == part = "news" => NewsTyped /\ AddedIsOfItsDay /\ News!ArticlesKept

LEMMA NewsInitially == Init => NewsInv
BY NewsAssumption DEF Init, News!Init, NewsInv, NewsTyped, AddedIsOfItsDay, News!ArticlesKept, News!Days

LEMMA NewsInductive == NewsInv /\ [Next]_vars => NewsInv'
<1> SUFFICES ASSUME NewsInv, [Next]_vars, part' = "news"
             PROVE  NewsTyped' /\ AddedIsOfItsDay' /\ News!ArticlesKept'
  BY DEF NewsInv
<1>1. part = "news"
  BY DEF Next, vars
<1>2. News!Next \/ UNCHANGED newsVars
  BY <1>1, NewsStep
<1> QED BY <1>1, <1>2, NewsNextTyped, NewsNextAdded, NewsNextKept DEF NewsInv

-----------------------------------------------------------------------------
(* The feeds and the watch loop.                                           *)

LEMMA SwitchesStep ==
  ASSUME [Next]_vars, part = "switches"
  PROVE  part' = "switches" /\ (Switched!Next \/ UNCHANGED switchVars)
BY DEF Next, NextTrade, NextExplore, NextFeed, vars, feedVars

Managers == [enabled : BOOLEAN, proc : {"none", "running", "ended"}, wired : BOOLEAN,
             handle : BOOLEAN, observed : BOOLEAN]

FeedsTyped == /\ manager \in [Feeds -> Managers]
              /\ watchLoop \in [Feeds -> {"wire", "look", "schedule", "done"}]
              /\ feedsUp \in [feeds : SUBSET Feeds, up : BOOLEAN]

(* A feed that main has not come to has no subprocess.  A handle stands    *)
(* for a directory that is observed, and an enabled feed has one when the  *)
(* watch loop, which gave it the observer, is done with it.                *)
FeedsWired ==
  /\ feedsUp.up => feedsUp.feeds = Feeds
  /\ \A f \in Feeds :
       /\ f \notin feedsUp.feeds => manager[f].proc = "none"
       /\ f \in feedsUp.feeds => (manager[f].enabled <=> manager[f].proc # "none")
       /\ manager[f].handle => manager[f].observed
       /\ watchLoop[f] # "wire" => manager[f].wired
       /\ watchLoop[f] = "done" /\ manager[f].enabled => manager[f].handle

LEMMA ScheduledTyped ==
  ASSUME NEW m \in Managers
  PROVE  /\ Switched!Scheduled(m) \in Managers
         /\ Switched!Scheduled(m).enabled = m.enabled /\ Switched!Scheduled(m).proc = m.proc
         /\ Switched!Scheduled(m).wired = m.wired
         /\ m.handle \/ m.wired => Switched!Scheduled(m).handle
         /\ (m.handle => m.observed)
              => (Switched!Scheduled(m).handle => Switched!Scheduled(m).observed)
BY DEF Switched!Scheduled, Managers

LEMMA UnscheduledTyped ==
  ASSUME NEW m \in Managers
  PROVE  /\ Switched!Unscheduled(m) \in Managers
         /\ Switched!Unscheduled(m).wired = m.wired
         /\ (m.handle => m.observed)
              => (Switched!Unscheduled(m).handle => Switched!Unscheduled(m).observed)
BY DEF Switched!Unscheduled, Managers

LEMMA EnabledWatched == FeedsWired /\ FeedsTyped => Switched!EnabledIsWatched
BY DEF FeedsWired, FeedsTyped, Switched!EnabledIsWatched

LEMMA ToggledTyped ==
  ASSUME NEW m \in Managers
  PROVE  /\ [Switched!Unscheduled(m) EXCEPT !.proc = "none", !.enabled = FALSE] \in Managers
         /\ [Switched!Scheduled(m) EXCEPT !.proc = "running", !.enabled = TRUE] \in Managers
<1>1. \A k \in Managers : /\ [k EXCEPT !.proc = "none", !.enabled = FALSE] \in Managers
                         /\ [k EXCEPT !.proc = "running", !.enabled = TRUE] \in Managers
  BY DEF Managers
<1> QED BY <1>1, ScheduledTyped, UnscheduledTyped

LEMMA FeedsNext ==
  ASSUME FeedsTyped, FeedsWired, Switched!Next \/ UNCHANGED switchVars
  PROVE  FeedsTyped' /\ FeedsWired'
<1>0. /\ manager \in [Feeds -> Managers] /\ feedsUp \in [feeds : SUBSET Feeds, up : BOOLEAN]
      /\ watchLoop \in [Feeds -> {"wire", "look", "schedule", "done"}]
  BY DEF FeedsTyped
<1>1. ASSUME UNCHANGED <<feedsUp, watchLoop, manager>> PROVE FeedsTyped' /\ FeedsWired'
  BY <1>1 DEF FeedsTyped, FeedsWired
<1>2. ASSUME NEW f \in Feeds, Switched!StartFeed(f) PROVE FeedsTyped' /\ FeedsWired'
  BY <1>0, <1>2 DEF Switched!StartFeed, FeedsTyped, FeedsWired, Managers
<1>3. CASE Switched!StartWatchLoop
  BY <1>0, <1>3 DEF Switched!StartWatchLoop, FeedsTyped, FeedsWired
<1>4. ASSUME NEW f \in Feeds, Switched!SetObserver(f) PROVE FeedsTyped' /\ FeedsWired'
  <2> DEFINE m == [manager[f] EXCEPT !.wired = TRUE]
  <2>1. /\ manager[f] \in Managers /\ manager' = [manager EXCEPT ![f] = m] /\ feedsUp' = feedsUp
        /\ watchLoop' = [watchLoop EXCEPT ![f] = "look"]
    BY <1>0, <1>4 DEF Switched!SetObserver, Switched!AtFeed
  <2>2. /\ m \in Managers /\ m.wired /\ m.enabled = manager[f].enabled
        /\ m.proc = manager[f].proc /\ m.handle = manager[f].handle /\ m.observed = manager[f].observed
    BY <2>1 DEF Managers
  <2> HIDE DEF m
  <2>3. \A g \in Feeds : manager'[g] = IF g = f THEN m ELSE manager[g]
    BY <1>0, <2>1
  <2>4. watchLoop'[f] = "look" /\ \A g \in Feeds : g # f => watchLoop'[g] = watchLoop[g]
    BY <1>0, <2>1
  <2>5. FeedsTyped'
    BY <1>0, <2>1, <2>2 DEF FeedsTyped
  <2>6. FeedsWired'
    BY <2>1, <2>2, <2>3, <2>4 DEF FeedsWired
  <2> QED BY <2>5, <2>6
<1>5. ASSUME NEW f \in Feeds, Switched!LookIfEnabled(f) PROVE FeedsTyped' /\ FeedsWired'
  BY <1>0, <1>5 DEF Switched!LookIfEnabled, Switched!AtFeed, FeedsTyped, FeedsWired
<1>6. ASSUME NEW f \in Feeds, NEW m \in Managers,
             manager' = [manager EXCEPT ![f] = m], feedsUp' = feedsUp,
             \A g \in Feeds : watchLoop'[g] = watchLoop[g] \/ (watchLoop'[g] = "done" /\ g = f /\ m.wired),
             watchLoop' \in [Feeds -> {"wire", "look", "schedule", "done"}],
             f \notin feedsUp.feeds => m.proc = "none",
             f \in feedsUp.feeds => (m.enabled <=> m.proc # "none"),
             m.handle => m.observed, manager[f].wired => m.wired,
             watchLoop'[f] = "done" /\ m.enabled => m.handle
      PROVE  FeedsTyped' /\ FeedsWired'
  <2>1. \A g \in Feeds : manager'[g] = IF g = f THEN m ELSE manager[g]
    BY <1>0, <1>6
  <2>2. FeedsTyped'
    BY <1>0, <1>6 DEF FeedsTyped
  <2>3. FeedsWired'
    BY <1>6, <2>1 DEF FeedsWired
  <2> QED BY <2>2, <2>3
<1>7. ASSUME NEW f \in Feeds, Switched!ScheduleWatch(f) PROVE FeedsTyped' /\ FeedsWired'
  <2> DEFINE m == Switched!Scheduled(manager[f])
  <2>1. /\ watchLoop[f] = "schedule" /\ watchLoop' = [watchLoop EXCEPT ![f] = "done"]
        /\ manager' = [manager EXCEPT ![f] = m] /\ feedsUp' = feedsUp
    BY <1>7 DEF Switched!ScheduleWatch, Switched!AtFeed
  <2>2. manager[f] \in Managers /\ manager[f].wired
    BY <1>0, <2>1 DEF FeedsWired
  <2>3. /\ m \in Managers /\ m.enabled = manager[f].enabled /\ m.proc = manager[f].proc
        /\ m.wired /\ m.handle /\ m.observed
    BY <2>2, ScheduledTyped DEF FeedsWired
  <2> HIDE DEF m
  <2> QED BY ZenonT(40), <1>0, <1>6, <2>1, <2>3 DEF FeedsWired
<1>8. ASSUME NEW f \in Feeds, Switched!Toggle(f) PROVE FeedsTyped' /\ FeedsWired'
  <2>1. /\ feedsUp.up /\ feedsUp' = feedsUp /\ watchLoop' = watchLoop /\ f \in feedsUp.feeds
        /\ manager[f] \in Managers
    BY <1>0, <1>8 DEF Switched!Toggle, FeedsWired
  <2>2. CASE manager[f].enabled
    <3> DEFINE k == Switched!Unscheduled(manager[f])
               m == [k EXCEPT !.proc = "none", !.enabled = FALSE]
    <3>1. manager' = [manager EXCEPT ![f] = m]
      BY <1>0, <1>8, <2>2 DEF Switched!Toggle
    <3>2. /\ k \in Managers /\ k.wired = manager[f].wired /\ (k.handle => k.observed)
          /\ m \in Managers
      BY <2>1, UnscheduledTyped, ToggledTyped DEF FeedsWired
    <3> HIDE DEF k
    <3>3. /\ m.wired = k.wired /\ m.handle = k.handle /\ m.observed = k.observed
          /\ m.proc = "none" /\ m.enabled = FALSE
      BY <3>2 DEF Managers
    <3> HIDE DEF m
    <3> QED BY <1>0, <1>6, <2>1, <3>1, <3>2, <3>3
  <2>3. CASE ~manager[f].enabled
    <3> DEFINE k == Switched!Scheduled(manager[f])
               m == [k EXCEPT !.proc = "running", !.enabled = TRUE]
    <3>1. manager' = [manager EXCEPT ![f] = m]
      BY <1>0, <1>8, <2>3 DEF Switched!Toggle
    <3>2. /\ k \in Managers /\ k.wired = manager[f].wired /\ (k.handle => k.observed)
          /\ (manager[f].wired => k.handle) /\ m \in Managers
      BY <2>1, ScheduledTyped, ToggledTyped DEF FeedsWired
    <3> HIDE DEF k
    <3>3. /\ m.wired = k.wired /\ m.handle = k.handle /\ m.observed = k.observed
          /\ m.proc = "running" /\ m.enabled = TRUE
      BY <3>2 DEF Managers
    <3> HIDE DEF m
    <3>4. watchLoop[f] = "done" => manager[f].wired
      BY DEF FeedsWired
    <3> QED BY <1>0, <1>6, <2>1, <3>1, <3>2, <3>3, <3>4
  <2> QED BY <2>2, <2>3
<1>9. ASSUME NEW f \in Feeds, Switched!FeedEnds(f) PROVE FeedsTyped' /\ FeedsWired'
  BY <1>0, <1>9 DEF Switched!FeedEnds, FeedsTyped, FeedsWired, Managers
<1>10. CASE \/ Switched!MarketTurns \/ Switched!ReadMarket \/ Switched!SyncMode
            \/ Switched!ToggleOnline \/ Switched!Reload \/ UNCHANGED switchVars
  BY <1>1, <1>10 DEF Switched!MarketTurns, Switched!ReadMarket, Switched!SyncMode,
                     Switched!ToggleOnline, Switched!Reload, Switched!feedVars, switchVars
<1> QED BY <1>2, <1>3, <1>4, <1>5, <1>7, <1>8, <1>9, <1>10 DEF Switched!Next

-----------------------------------------------------------------------------
(* Online mode.                                                            *)

ModeTyped == /\ setting \in [online : BOOLEAN, auto : BOOLEAN]
             /\ market \in BOOLEAN
             /\ online \in [enabled : BOOLEAN, override : BOOLEAN]
             /\ reading \in BOOLEAN \cup {None}
             /\ choice \in [value : BOOLEAN \cup {None}, turned : BOOLEAN]

(* A choice that the market has not turned since stands, and is either     *)
(* what the market is, or overrides it; what the loop has read is not of   *)
(* before a turn.                                                          *)
ChoiceStands ==
  choice.value # None /\ ~choice.turned
    => /\ online.enabled = choice.value
       /\ reading = None \/ reading = market
       /\ online.override \/ online.enabled = market

LEMMA ModeNext ==
  ASSUME ModeTyped, ChoiceStands, Switched!Next \/ UNCHANGED switchVars
  PROVE  ModeTyped' /\ ChoiceStands'
<1> USE DEF ModeTyped, ChoiceStands
<1>1. CASE UNCHANGED <<setting, market, online, reading, choice>>
  BY <1>1
<1>2. CASE Switched!MarketTurns
  BY <1>2 DEF Switched!MarketTurns
<1>3. CASE Switched!ReadMarket
  BY <1>3 DEF Switched!ReadMarket
<1>4. CASE Switched!SyncMode
  BY <1>4 DEF Switched!SyncMode, Switched!Synced
<1>5. CASE Switched!ToggleOnline
  BY <1>5 DEF Switched!ToggleOnline
<1>6. CASE Switched!Reload
  BY <1>6 DEF Switched!Reload, Switched!NoChoice
<1>7. ASSUME \/ Switched!StartWatchLoop \/ UNCHANGED switchVars
             \/ \E f \in Feeds : \/ Switched!StartFeed(f) \/ Switched!SetObserver(f)
                                 \/ Switched!LookIfEnabled(f) \/ Switched!ScheduleWatch(f)
                                 \/ Switched!Toggle(f) \/ Switched!FeedEnds(f)
      PROVE  UNCHANGED <<setting, market, online, reading, choice>>
  BY <1>7 DEF Switched!StartWatchLoop, Switched!StartFeed, Switched!SetObserver,
              Switched!LookIfEnabled, Switched!ScheduleWatch, Switched!Toggle, Switched!FeedEnds,
              Switched!modeVars, switchVars
<1> QED BY <1>1, <1>2, <1>3, <1>4, <1>5, <1>6, <1>7 DEF Switched!Next

LEMMA ManualChoiceStands == ChoiceStands => Switched!ManualStands
BY DEF ChoiceStands, Switched!ManualStands

-----------------------------------------------------------------------------
SwitchesInv == part = "switches" => FeedsTyped /\ FeedsWired /\ ModeTyped /\ ChoiceStands

LEMMA SwitchesInitially == Init => SwitchesInv
<1> SUFFICES ASSUME Init PROVE FeedsTyped /\ FeedsWired /\ ModeTyped /\ ChoiceStands
  BY DEF SwitchesInv
<1>1. Switched!Init
  BY DEF Init
<1>2. FeedsTyped /\ FeedsWired
  BY <1>1 DEF Switched!Init, FeedsTyped, FeedsWired, Managers
<1>3. ModeTyped /\ ChoiceStands
  BY <1>1 DEF Switched!Init, Switched!NoChoice, ModeTyped, ChoiceStands
<1> QED BY <1>2, <1>3

LEMMA SwitchesInductive == SwitchesInv /\ [Next]_vars => SwitchesInv'
<1> SUFFICES ASSUME SwitchesInv, [Next]_vars, part' = "switches"
             PROVE  FeedsTyped' /\ FeedsWired' /\ ModeTyped' /\ ChoiceStands'
  BY DEF SwitchesInv
<1>1. part = "switches"
  BY DEF Next, vars
<1>2. Switched!Next \/ UNCHANGED switchVars
  BY <1>1, SwitchesStep
<1> QED BY <1>1, <1>2, FeedsNext, ModeNext DEF SwitchesInv

(* No article is lost within its retention but what was in the archive     *)
(* that a kill or a full disk cut off (_archive_feed_dir); the directory   *)
(* of every enabled feed is observed once the watch loop is done with it,  *)
(* and it has a subprocess (feed_manager.py); and a toggle of online mode  *)
(* stands until the market turns (online_mode.py): for any articles,       *)
(* feeds, retention and number of restarts.                                *)
THEOREM ArticlesAreKept == Spec => []ArticlesKept
<1>1. NewsInv /\ SwitchesInv => ArticlesKept
  BY EnabledWatched, ManualChoiceStands DEF NewsInv, SwitchesInv, ArticlesKept
<1> QED BY <1>1, NewsInitially, NewsInductive, SwitchesInitially, SwitchesInductive, PTL DEF Spec

-----------------------------------------------------------------------------
(* Counting, and what the agents spend.                                    *)

LEMMA Times ==
  ASSUME NEW a \in Nat, NEW b \in Nat, NEW m \in Nat
  PROVE  /\ a * m \in Nat /\ (a + 1) * m = a * m + m
         /\ a <= b => a * m <= b * m
OBVIOUS

LEMMA WithoutOne ==
  ASSUME NEW S, IsFiniteSet(S), NEW x
  PROVE  /\ IsFiniteSet(S \ {x}) /\ Cardinality(S \ {x}) \in Nat /\ Cardinality(S) \in Nat
         /\ Cardinality(S \ {x}) <= Cardinality(S)
         /\ x \in S => Cardinality(S \ {x}) = Cardinality(S) - 1
<1>1. IsFiniteSet(S \ {x})
  BY FS_RemoveElement
<1>2. Cardinality(S) \in Nat /\ Cardinality(S \ {x}) \in Nat
  BY <1>1, FS_CardinalityType
<1>3. Cardinality(S \ {x}) = IF x \in S THEN Cardinality(S) - 1 ELSE Cardinality(S)
  BY FS_RemoveElement
<1> QED BY <1>1, <1>2, <1>3

LEMMA WithOne ==
  ASSUME NEW S, IsFiniteSet(S), NEW x
  PROVE  /\ IsFiniteSet(S \cup {x}) /\ Cardinality(S \cup {x}) \in Nat
         /\ Cardinality(S) <= Cardinality(S \cup {x})
         /\ Cardinality(S \cup {x}) <= Cardinality(S) + 1
         /\ x \notin S => Cardinality(S \cup {x}) = Cardinality(S) + 1
<1>1. IsFiniteSet(S \cup {x})
  BY FS_AddElement
<1>2. Cardinality(S) \in Nat /\ Cardinality(S \cup {x}) \in Nat
  BY <1>1, FS_CardinalityType
<1>3. Cardinality(S \cup {x}) = IF x \in S THEN Cardinality(S) ELSE Cardinality(S) + 1
  BY FS_AddElement
<1> QED BY <1>1, <1>2, <1>3

-----------------------------------------------------------------------------
(* Follow-ups.                                                             *)

LEMMA FollowUpsStep ==
  ASSUME [Next]_vars, part = "follow_ups"
  PROVE  part' = "follow_ups" /\ (FollowUps!Next \/ UNCHANGED followUpVars)
BY DEF Next, NextTrade, NextExplore, NextFeed, vars, exploreVars

MostOfOne == FollowUpSearches * MaxFee

Wasted == aborts + errors - Cardinality(flagged)

FollowUpsTyped ==
  /\ fu \in [Followed -> [status : {"absent", "active", "complete"}, collected : Nat, cost : Nat]]
  /\ spent \in [Followed -> Nat] /\ aborts \in Nat /\ errors \in Nat
  /\ run \in [pc : {"idle", "start", "search", "save"}, id : Followed \cup {None},
              searched : 0 .. FollowUpSearches, cost : Nat]
  /\ run.pc = "idle" <=> run.id = None

(* A collection is begun and continued only below the limit, and searches  *)
(* as often as it may; whoever is flagged has not been aborted yet.        *)
FollowUpsInv ==
  /\ FollowUpsTyped
  /\ run.cost <= run.searched * MaxFee
  /\ run.id # None =>
       (run.cost > 0 \/ run.searched \notin {0, WebSearches, FollowUpSearches}
          => fu[run.id].cost < FollowUpCost)
  /\ IsFiniteSet(flagged) /\ Cardinality(flagged) <= aborts
  /\ \A f \in Followed :
       /\ fu[f].cost <= FollowUpCost + MostOfOne
       /\ spent[f] <= fu[f].cost + (IF run.id = f THEN run.cost ELSE 0) + Wasted * MostOfOne

LEMMA FollowUpsInitially == FollowUps!Init => FollowUpsInv
<1> SUFFICES ASSUME FollowUps!Init PROVE FollowUpsInv
  OBVIOUS
<1>1. /\ fu = [f \in Followed |-> FollowUps!NoFollowUp] /\ spent = [f \in Followed |-> 0]
      /\ run = FollowUps!NoRun /\ flagged = {} /\ aborts = 0 /\ errors = 0
  BY DEF FollowUps!Init
<1>2. FollowUpsTyped
  BY <1>1, FollowUpsAssumption DEF FollowUpsTyped, FollowUps!NoFollowUp, FollowUps!NoRun
<1>3. IsFiniteSet(flagged) /\ Cardinality(flagged) = 0 /\ Wasted = 0
  BY <1>1, FS_EmptySet DEF Wasted
<1>4. run.id = None /\ run.cost = 0 /\ run.searched = 0 /\ MostOfOne \in Nat /\ 0 * MaxFee = 0
      /\ 0 * MostOfOne = 0
  BY <1>1, FollowUpsAssumption DEF FollowUps!NoRun, MostOfOne
<1>5. \A f \in Followed : fu[f].cost = 0 /\ spent[f] = 0 /\ run.id # f
  BY <1>1, <1>4, FollowUpsAssumption DEF FollowUps!NoFollowUp
<1> QED BY <1>1, <1>2, <1>3, <1>4, <1>5, FollowUpsAssumption DEF FollowUpsInv

LEMMA WastedTyped == FollowUpsInv => Wasted \in Nat /\ MostOfOne \in Nat
<1> SUFFICES ASSUME FollowUpsInv PROVE Wasted \in Nat /\ MostOfOne \in Nat
  OBVIOUS
<1>1. Cardinality(flagged) \in Nat /\ Cardinality(flagged) <= aborts /\ aborts \in Nat /\ errors \in Nat
  BY FS_CardinalityType DEF FollowUpsInv, FollowUpsTyped
<1>2. MostOfOne \in Nat
  BY FollowUpsAssumption, Times DEF MostOfOne
<1> QED BY <1>1, <1>2 DEF Wasted

(* What is left of a collection that is aborted or fails is wasted.        *)
LEMMA WasteGrows ==
  ASSUME FollowUpsInv, FollowUpsTyped', UNCHANGED <<fu, spent>>, run' = FollowUps!NoRun,
         IsFiniteSet(flagged'), Cardinality(flagged') <= aborts', Wasted' = Wasted + 1
  PROVE  FollowUpsInv'
<1>1. run'.id = None /\ run'.cost = 0 /\ run'.searched = 0
  BY DEF FollowUps!NoRun
<1>2. MostOfOne \in Nat /\ Wasted \in Nat /\ run.searched * MaxFee <= MostOfOne
  <2>1. run.searched \in Nat /\ run.searched <= FollowUpSearches /\ FollowUpSearches \in Nat /\ MaxFee \in Nat
    BY FollowUpsAssumption DEF FollowUpsInv, FollowUpsTyped
  <2>2. run.searched * MaxFee <= FollowUpSearches * MaxFee /\ FollowUpSearches * MaxFee \in Nat
    BY <2>1, Times
  <2>3. Cardinality(flagged) \in Nat /\ Cardinality(flagged) <= aborts /\ aborts \in Nat /\ errors \in Nat
    BY FS_CardinalityType DEF FollowUpsInv, FollowUpsTyped
  <2> QED BY <2>2, <2>3 DEF MostOfOne, Wasted
<1>3. (Wasted + 1) * MostOfOne = Wasted * MostOfOne + MostOfOne /\ Wasted * MostOfOne \in Nat
  BY <1>2, Times
<1>4. run.cost \in Nat /\ run.searched * MaxFee \in Nat /\ run.cost <= MostOfOne
  BY <1>2, FollowUpsAssumption, Times DEF FollowUpsInv, FollowUpsTyped
<1>5. ASSUME NEW f \in Followed
      PROVE  spent[f] <= fu[f].cost + (Wasted + 1) * MostOfOne
  <2>1. spent[f] \in Nat /\ fu[f].cost \in Nat
    BY DEF FollowUpsInv, FollowUpsTyped
  <2>2. spent[f] <= fu[f].cost + (IF run.id = f THEN run.cost ELSE 0) + Wasted * MostOfOne
    BY DEF FollowUpsInv
  <2> QED BY <1>2, <1>3, <1>4, <2>1, <2>2
<1>6. \A f \in Followed : /\ fu'[f].cost <= FollowUpCost + MostOfOne
                          /\ spent'[f] <= fu'[f].cost + 0 + Wasted' * MostOfOne
  BY <1>5 DEF FollowUpsInv, FollowUpsTyped
<1>7. 0 <= 0 * MaxFee
  BY FollowUpsAssumption
<1>8. \A f \in Followed : run'.id # f
  BY <1>1, FollowUpsAssumption
<1> QED BY <1>1, <1>6, <1>7, <1>8 DEF FollowUpsInv

(* Fewer flags leave more to have been wasted.                             *)
LEMMA WasteStands ==
  ASSUME FollowUpsInv, FollowUpsTyped', IsFiniteSet(flagged'), Cardinality(flagged') <= aborts',
         Wasted <= Wasted', Wasted' \in Nat,
         \A f \in Followed : \E fee \in Nat :
           /\ spent'[f] = spent[f] + fee
           /\ fu'[f].cost + (IF run'.id = f THEN run'.cost ELSE 0)
                = fu[f].cost + (IF run.id = f THEN run.cost ELSE 0) + fee
  PROVE  \A f \in Followed :
           spent'[f] <= fu'[f].cost + (IF run'.id = f THEN run'.cost ELSE 0) + Wasted' * MostOfOne
<1> TAKE f \in Followed
<1> PICK before : before = fu[f].cost + (IF run.id = f THEN run.cost ELSE 0)
  OBVIOUS
<1> PICK after : after = fu'[f].cost + (IF run'.id = f THEN run'.cost ELSE 0)
  OBVIOUS
<1>1. PICK fee \in Nat : spent'[f] = spent[f] + fee /\ after = before + fee
  OBVIOUS
<1>2. Wasted \in Nat /\ MostOfOne \in Nat
  BY WastedTyped
<1>3. Wasted * MostOfOne <= Wasted' * MostOfOne /\ Wasted * MostOfOne \in Nat /\ Wasted' * MostOfOne \in Nat
  BY <1>2, Times
<1>4. spent[f] \in Nat /\ before \in Nat /\ spent[f] <= before + Wasted * MostOfOne
  BY DEF FollowUpsInv, FollowUpsTyped
<1> QED BY <1>1, <1>3, <1>4

LEMMA FollowUpsNext ==
  ASSUME FollowUpsInv, FollowUps!Next \/ UNCHANGED followUpVars
  PROVE  FollowUpsInv'
<1> USE DEF FollowUpsTyped
<1>1. /\ MostOfOne \in Nat /\ Wasted \in Nat /\ IsFiniteSet(flagged) /\ Cardinality(flagged) \in Nat
      /\ Cardinality(flagged) <= aborts /\ FollowUpCost \in Nat /\ MaxFee \in Nat /\ None \notin Followed
  BY FollowUpsAssumption, FS_CardinalityType DEF FollowUpsInv, MostOfOne, Wasted
(* Steps that leave the collection and what was paid alone.                *)
<1>2. ASSUME UNCHANGED <<run, spent>>, FollowUpsTyped', \A f \in Followed : fu'[f].cost = fu[f].cost,
             IsFiniteSet(flagged'), Cardinality(flagged') <= aborts', Wasted <= Wasted', Wasted' \in Nat
      PROVE  FollowUpsInv'
  <2>1. \A f \in Followed : \E fee \in Nat :
          /\ spent'[f] = spent[f] + fee
          /\ fu'[f].cost + (IF run'.id = f THEN run'.cost ELSE 0)
               = fu[f].cost + (IF run.id = f THEN run.cost ELSE 0) + fee
    <3> TAKE f \in Followed
    <3> WITNESS 0 \in Nat
    <3> QED BY <1>2 DEF FollowUpsInv
  <2>2. \A f \in Followed :
          spent'[f] <= fu'[f].cost + (IF run'.id = f THEN run'.cost ELSE 0) + Wasted' * MostOfOne
    BY <1>2, <2>1, WasteStands
  <2>3. run.id # None => run.id \in Followed
    BY DEF FollowUpsInv
  <2> QED BY <1>2, <2>2, <2>3 DEF FollowUpsInv
<1>3. CASE UNCHANGED followUpVars
  BY <1>1, <1>2, <1>3 DEF followUpVars, FollowUpsInv, Wasted
<1>4. ASSUME NEW f \in Followed, FollowUps!Insert(f) \/ FollowUps!TimePasses(f)
      PROVE  FollowUpsInv'
  <2>1. FollowUpsTyped' /\ \A g \in Followed : fu'[g].cost = fu[g].cost
    BY <1>4 DEF FollowUps!Insert, FollowUps!TimePasses, FollowUpsInv
  <2>2. UNCHANGED <<run, spent, flagged, aborts, errors>>
    BY <1>4 DEF FollowUps!Insert, FollowUps!TimePasses
  <2> QED BY <1>1, <1>2, <2>1, <2>2 DEF Wasted
<1>5. CASE FollowUps!RequestAbort
  <2>1. PICK a : flagged' = flagged \cup {a} /\ aborts' = aborts + 1 /\ UNCHANGED <<fu, run, spent, errors>>
    BY <1>5 DEF FollowUps!RequestAbort
  <2>2. /\ IsFiniteSet(flagged') /\ Cardinality(flagged') \in Nat
        /\ Cardinality(flagged') <= Cardinality(flagged) + 1
    BY <1>1, <2>1, WithOne
  <2>3. FollowUpsTyped'
    BY <2>1 DEF FollowUpsInv
  <2>4. Wasted <= Wasted' /\ Wasted' \in Nat /\ Cardinality(flagged') <= aborts'
    BY <1>1, <2>1, <2>2, <2>3 DEF Wasted, FollowUpsInv
  <2> QED BY <1>2, <2>1, <2>2, <2>3, <2>4
<1>6. CASE FollowUps!Fail
  <2>1. UNCHANGED <<fu, spent, aborts, flagged>> /\ errors' = errors + 1 /\ run' = FollowUps!NoRun
    BY <1>6 DEF FollowUps!Fail
  <2>2. FollowUpsTyped'
    BY <2>1, FollowUpsAssumption DEF FollowUpsInv, FollowUps!NoRun
  <2>3. Wasted' = Wasted + 1
    BY <1>1, <2>1 DEF Wasted, FollowUpsInv
  <2> QED BY <1>1, <2>1, <2>2, <2>3, WasteGrows
<1>7. CASE FollowUps!Abort
  <2>1. /\ UNCHANGED <<fu, spent, aborts, errors>> /\ run' = FollowUps!NoRun
        /\ FollowUps!Activity(run.id) \in flagged
        /\ flagged' = flagged \ {FollowUps!Activity(run.id)}
    BY <1>7 DEF FollowUps!Abort, FollowUps!Flagged, FollowUps!Finish
  <2>2. IsFiniteSet(flagged') /\ Cardinality(flagged') = Cardinality(flagged) - 1
    BY <1>1, <2>1, WithoutOne
  <2>3. FollowUpsTyped'
    BY <2>1, FollowUpsAssumption DEF FollowUpsInv, FollowUps!NoRun
  <2>4. Wasted' = Wasted + 1 /\ Cardinality(flagged') <= aborts'
    BY <1>1, <2>1, <2>2 DEF Wasted, FollowUpsInv
  <2> QED BY <2>1, <2>2, <2>3, <2>4, WasteGrows
(* Steps of the collection that cost nothing.                              *)
<1>8. ASSUME UNCHANGED <<fu, spent, flagged, aborts, errors>>, FollowUpsTyped',
             \A f \in Followed : (IF run'.id = f THEN run'.cost ELSE 0)
                                 = (IF run.id = f THEN run.cost ELSE 0),
             run'.cost <= run'.searched * MaxFee,
             run'.id # None =>
               (run'.cost > 0 \/ run'.searched \notin {0, WebSearches, FollowUpSearches}
                  => fu[run'.id].cost < FollowUpCost)
      PROVE  FollowUpsInv'
  <2>1. \A f \in Followed : \E fee \in Nat :
          /\ spent'[f] = spent[f] + fee
          /\ fu'[f].cost + (IF run'.id = f THEN run'.cost ELSE 0)
               = fu[f].cost + (IF run.id = f THEN run.cost ELSE 0) + fee
    <3> TAKE f \in Followed
    <3> WITNESS 0 \in Nat
    <3> QED BY <1>8 DEF FollowUpsInv
  <2>2. Wasted' = Wasted
    BY <1>8 DEF Wasted
  <2>3. \A f \in Followed :
          spent'[f] <= fu'[f].cost + (IF run'.id = f THEN run'.cost ELSE 0) + Wasted' * MostOfOne
    <3>1. IsFiniteSet(flagged') /\ Cardinality(flagged') <= aborts' /\ Wasted <= Wasted' /\ Wasted' \in Nat
      BY <1>1, <1>8, <2>2
    <3> QED BY <1>8, <2>1, <3>1, WasteStands
  <2> QED BY <1>1, <1>8, <2>3 DEF FollowUpsInv
<1>9. CASE \E f \in Followed : FollowUps!BeginCollection(f)
  <2>1. PICK f \in Followed : /\ run.pc = "idle" /\ UNCHANGED <<fu, spent, flagged, aborts, errors>>
                              /\ run' = [FollowUps!NoRun EXCEPT !.pc = "start", !.id = f]
    BY <1>9 DEF FollowUps!BeginCollection
  <2>2. run' = [pc |-> "start", id |-> f, searched |-> 0, cost |-> 0]
    BY <2>1 DEF FollowUps!NoRun
  <2>3. FollowUpsTyped'
    BY <1>1, <2>1, <2>2, FollowUpsAssumption DEF FollowUpsInv
  <2>4. run.id = None /\ 0 <= 0 * MaxFee
    BY <1>1, <2>1 DEF FollowUpsInv
  <2>5. \A g \in Followed : (IF run'.id = g THEN run'.cost ELSE 0)
                            = (IF run.id = g THEN run.cost ELSE 0)
    BY <1>1, <2>2, <2>4
  <2>6. run'.cost = 0 /\ run'.searched = 0
    BY <2>2
  <2>7. run'.cost <= run'.searched * MaxFee
    BY <2>4, <2>6
  <2>8. ~(run'.cost > 0 \/ run'.searched \notin {0, WebSearches, FollowUpSearches})
    BY <2>6
  <2> QED BY <1>8, <2>1, <2>3, <2>5, <2>7, <2>8
<1>10. CASE FollowUps!PlanQueries \/ FollowUps!Searched
  <2>1. PICK p \in {"search", "save"} : run' = [run EXCEPT !.pc = p]
                                        /\ run.pc # "idle" /\ UNCHANGED <<fu, spent, flagged, aborts, errors>>
    BY <1>10 DEF FollowUps!PlanQueries, FollowUps!Searched
  <2>2. /\ run'.id = run.id /\ run'.cost = run.cost /\ run'.searched = run.searched
        /\ FollowUpsTyped'
    BY <2>1 DEF FollowUpsInv
  <2> QED BY <1>8, <2>1, <2>2 DEF FollowUpsInv
<1>11. CASE FollowUps!SkipSearches
  <2>1. /\ UNCHANGED <<fu, spent, flagged, aborts, errors>>
        /\ run.pc = "search" /\ run.searched < FollowUpSearches /\ ~FollowUps!MayBegin
        /\ run' = [run EXCEPT !.searched = IF @ < WebSearches THEN WebSearches ELSE FollowUpSearches]
    BY <1>11 DEF FollowUps!SkipSearches
  <2>2. /\ run'.id = run.id /\ run'.cost = run.cost /\ run'.searched \in {WebSearches, FollowUpSearches}
        /\ run.searched <= run'.searched /\ FollowUpsTyped' /\ run'.searched \in Nat
    BY <2>1, FollowUpsAssumption DEF FollowUpsInv
  <2>3. run'.cost <= run'.searched * MaxFee
    <3>1. run.searched * MaxFee <= run'.searched * MaxFee
      <4>1. run.searched \in Nat
        BY DEF FollowUpsInv
      <4> QED BY <1>1, <2>2, <4>1, Times
    <3>2. run.searched * MaxFee \in Nat /\ run'.searched * MaxFee \in Nat /\ run.cost \in Nat
      BY <1>1, <2>2, Times DEF FollowUpsInv
    <3> QED BY <2>2, <3>1, <3>2 DEF FollowUpsInv
  <2> QED BY <1>8, <2>1, <2>2, <2>3 DEF FollowUpsInv
<1>12. CASE FollowUps!Search
  <2>1. PICK fee \in 1 .. MaxFee : /\ run' = [run EXCEPT !.searched = @ + 1, !.cost = @ + fee]
                                   /\ spent' = [spent EXCEPT ![run.id] = @ + fee]
    BY <1>12 DEF FollowUps!Search
  <2>2. /\ UNCHANGED <<fu, flagged, aborts, errors>> /\ run.pc = "search" /\ run.searched < FollowUpSearches
        /\ FollowUps!MayBegin
    BY <1>12 DEF FollowUps!Search
  <2>3. PICK f \in Followed : f = run.id
    BY <2>2 DEF FollowUpsInv
  <2>4. /\ run.searched \in Nat /\ run.cost \in Nat /\ fee \in Nat /\ fee <= MaxFee
        /\ run'.searched = run.searched + 1 /\ run'.cost = run.cost + fee /\ run'.id = f
    BY <1>1, <2>1, <2>3 DEF FollowUpsInv
  <2>5. FollowUpsTyped'
    <3>1. run' \in [pc : {"idle", "start", "search", "save"}, id : Followed \cup {None},
                    searched : 0 .. FollowUpSearches, cost : Nat]
          /\ run'.pc = "search"
      <4>1. run.searched + 1 \in 0 .. FollowUpSearches /\ run.cost + fee \in Nat
        BY <2>2, <2>4, FollowUpsAssumption
      <4> QED BY <2>1, <2>2, <4>1 DEF FollowUpsInv
    <3>2. spent' \in [Followed -> Nat]
      BY <2>1, <2>4 DEF FollowUpsInv
    <3> QED BY <1>1, <2>2, <2>4, <3>1, <3>2 DEF FollowUpsInv
  <2>6. run'.cost <= run'.searched * MaxFee
    <3>1. (run.searched + 1) * MaxFee = run.searched * MaxFee + MaxFee /\ run.searched * MaxFee \in Nat
      BY <1>1, <2>4, Times
    <3> QED BY <1>1, <2>4, <3>1 DEF FollowUpsInv
  <2>7. fu[f].cost < FollowUpCost
    <3>1. CASE run.searched \in {0, WebSearches}
      <4>1. FollowUps!Remainder > Reserve
        BY <2>2, <3>1 DEF FollowUps!MayBegin
      <4>2. fu[f].cost + run.cost < FollowUpCost /\ fu[f].cost \in Nat
        BY <1>1, <2>3, <4>1, FollowUpsAssumption DEF FollowUps!Remainder, FollowUpsInv
      <4> QED BY <1>1, <2>4, <4>2
    <3>2. CASE run.searched \notin {0, WebSearches}
      BY <1>1, <2>2, <2>3, <2>4, <3>2, FollowUpsAssumption DEF FollowUpsInv
    <3> QED BY <3>1, <3>2
  <2>8. \A g \in Followed : \E n \in Nat :
          /\ spent'[g] = spent[g] + n
          /\ fu'[g].cost + (IF run'.id = g THEN run'.cost ELSE 0)
               = fu[g].cost + (IF run.id = g THEN run.cost ELSE 0) + n
    <3> TAKE g \in Followed
    <3>0. spent[g] \in Nat /\ fu[g].cost \in Nat
      BY DEF FollowUpsInv
    <3>1. CASE g = f
      <4> WITNESS fee \in Nat
      <4> QED BY <2>1, <2>2, <2>3, <2>4, <3>0, <3>1 DEF FollowUpsInv
    <3>2. CASE g # f
      <4> WITNESS 0 \in Nat
      <4> QED BY <2>1, <2>2, <2>3, <2>4, <3>0, <3>2 DEF FollowUpsInv
    <3> QED BY <3>1, <3>2
  <2>9. Wasted' = Wasted
    BY <2>2 DEF Wasted
  <2>10. \A g \in Followed :
           spent'[g] <= fu'[g].cost + (IF run'.id = g THEN run'.cost ELSE 0) + Wasted' * MostOfOne
    <3>1. IsFiniteSet(flagged') /\ Cardinality(flagged') <= aborts' /\ Wasted <= Wasted' /\ Wasted' \in Nat
      BY <1>1, <2>2, <2>9
    <3> QED BY <2>5, <2>8, <3>1, WasteStands
  <2> QED BY <1>1, <2>2, <2>4, <2>5, <2>6, <2>7, <2>10 DEF FollowUpsInv
<1>13. CASE FollowUps!Save
  <2>1. PICK f \in Followed : f = run.id
    BY <1>13 DEF FollowUps!Save, FollowUpsInv
  <2>2. /\ UNCHANGED <<spent, aborts, errors>> /\ run' = FollowUps!NoRun
        /\ flagged' = flagged \ {FollowUps!Activity(f)}
        /\ fu' = [fu EXCEPT ![f].collected = @ + 1, ![f].cost = @ + run.cost,
                            ![f].status = IF fu[f].collected + 1 = Offsets
                                            THEN "complete" ELSE "active"]
    BY <1>13, <2>1 DEF FollowUps!Save, FollowUps!Finish
  <2>3. run' = [pc |-> "idle", id |-> None, searched |-> 0, cost |-> 0]
    BY <2>2 DEF FollowUps!NoRun
  <2>4. run.cost \in Nat
    BY DEF FollowUpsInv
  <2>5. /\ fu' \in [Followed -> [status : {"absent", "active", "complete"}, collected : Nat, cost : Nat]]
        /\ fu'[f].cost = fu[f].cost + run.cost
        /\ \A g \in Followed : g # f => fu'[g] = fu[g]
    <3>1. fu[f] \in [status : {"absent", "active", "complete"}, collected : Nat, cost : Nat]
      BY DEF FollowUpsInv
    <3>2. DOMAIN fu' = Followed /\ \A g \in Followed : g # f => fu'[g] = fu[g]
      BY <2>2 DEF FollowUpsInv
    <3>3. fu'[f] = [fu[f] EXCEPT !.collected = @ + 1, !.cost = @ + run.cost,
                                 !.status = IF fu[f].collected + 1 = Offsets
                                              THEN "complete" ELSE "active"]
      BY <2>2 DEF FollowUpsInv
    <3>4. fu'[f] = [status |-> IF fu[f].collected + 1 = Offsets THEN "complete" ELSE "active",
                    collected |-> fu[f].collected + 1, cost |-> fu[f].cost + run.cost]
      BY <3>1, <3>3
    <3>5. /\ fu'[f] \in [status : {"absent", "active", "complete"}, collected : Nat, cost : Nat]
          /\ fu'[f].cost = fu[f].cost + run.cost
      BY <2>4, <3>1, <3>4
    <3>6. fu' = [g \in Followed |-> fu'[g]]
      BY <2>2 DEF FollowUpsInv
    <3> QED BY <3>2, <3>5, <3>6 DEF FollowUpsInv
  <2>6. FollowUpsTyped'
    BY <2>2, <2>3, <2>5, FollowUpsAssumption DEF FollowUpsInv
  <2>7. IsFiniteSet(flagged') /\ Cardinality(flagged') \in Nat /\ Cardinality(flagged') <= Cardinality(flagged)
    BY <1>1, <2>2, WithoutOne
  <2>8. Wasted <= Wasted' /\ Wasted' \in Nat /\ Cardinality(flagged') <= aborts'
    BY <1>1, <2>2, <2>7 DEF Wasted, FollowUpsInv
  <2>9. \A g \in Followed : \E n \in Nat :
          /\ spent'[g] = spent[g] + n
          /\ fu'[g].cost + (IF run'.id = g THEN run'.cost ELSE 0)
               = fu[g].cost + (IF run.id = g THEN run.cost ELSE 0) + n
    <3> TAKE g \in Followed
    <3>0. spent[g] \in Nat /\ fu[g].cost \in Nat /\ None # g
      BY <1>1 DEF FollowUpsInv
    <3> WITNESS 0 \in Nat
    <3> QED BY SMTT(30), <2>1, <2>2, <2>3, <2>4, <2>5, <3>0
  <2>10. \A g \in Followed :
           spent'[g] <= fu'[g].cost + (IF run'.id = g THEN run'.cost ELSE 0) + Wasted' * MostOfOne
    BY <2>6, <2>7, <2>8, <2>9, WasteStands
  <2>11. \A g \in Followed : fu'[g].cost <= FollowUpCost + MostOfOne
    <3>1. run.cost <= MostOfOne
      <4>1. run.searched \in Nat /\ run.searched <= FollowUpSearches /\ FollowUpSearches \in Nat
        BY FollowUpsAssumption DEF FollowUpsInv
      <4>2. run.searched * MaxFee <= FollowUpSearches * MaxFee /\ run.searched * MaxFee \in Nat
        BY <1>1, <4>1, Times
      <4> QED BY <1>1, <2>4, <4>2 DEF FollowUpsInv, MostOfOne
    <3>2. fu[f].cost \in Nat /\ fu[f].cost <= FollowUpCost + MostOfOne
      BY DEF FollowUpsInv
    <3>3. run.cost > 0 => fu[f].cost < FollowUpCost
      BY <1>1, <2>1 DEF FollowUpsInv
    <3>4. fu'[f].cost <= FollowUpCost + MostOfOne
      BY <1>1, <2>4, <2>5, <3>1, <3>2, <3>3
    <3> QED BY <2>5, <3>4 DEF FollowUpsInv
  <2>12. 0 <= 0 * MaxFee
    BY <1>1
  <2> QED BY <2>3, <2>6, <2>7, <2>8, <2>10, <2>11, <2>12 DEF FollowUpsInv
<1> QED BY <1>3, <1>4, <1>5, <1>6, <1>7, <1>9, <1>10, <1>11, <1>12, <1>13
        DEF FollowUps!Next, FollowUps!CollectorStep

LEMMA FollowUpsBounded == FollowUpsInv => FollowUps!OverspendBounded
<1> SUFFICES ASSUME FollowUpsInv, NEW f \in Followed
             PROVE  spent[f] <= FollowUpCost + (1 + aborts + errors) * FollowUpSearches * MaxFee
  BY DEF FollowUps!OverspendBounded
<1>1. /\ MostOfOne \in Nat /\ Wasted \in Nat /\ FollowUpCost \in Nat /\ MaxFee \in Nat /\ FollowUpSearches \in Nat
      /\ Wasted <= aborts + errors /\ aborts + errors \in Nat
  <2>1. FollowUpCost \in Nat /\ MaxFee \in Nat /\ FollowUpSearches \in Nat
    BY FollowUpsAssumption
  <2>2. MostOfOne \in Nat
    BY <2>1 DEF MostOfOne
  <2>3. aborts \in Nat /\ errors \in Nat /\ IsFiniteSet(flagged) /\ Cardinality(flagged) <= aborts
    BY DEF FollowUpsInv, FollowUpsTyped
  <2>4. Cardinality(flagged) \in Nat
    BY <2>3, FS_CardinalityType
  <2>5. Wasted \in Nat /\ Wasted <= aborts + errors /\ aborts + errors \in Nat
    BY <2>3, <2>4 DEF Wasted
  <2> QED BY <2>1, <2>2, <2>5
<1>2. Wasted * MostOfOne <= (aborts + errors) * MostOfOne
      /\ ((aborts + errors) + 1) * MostOfOne = (aborts + errors) * MostOfOne + MostOfOne
      /\ Wasted * MostOfOne \in Nat /\ (aborts + errors) * MostOfOne \in Nat
  BY <1>1, Times
<1>3. fu[f].cost + (IF run.id = f THEN run.cost ELSE 0) <= FollowUpCost + MostOfOne
  <2>1. run.cost <= MostOfOne /\ run.cost \in Nat
    <3>1. run.searched \in Nat /\ run.searched <= FollowUpSearches /\ run.cost \in Nat
      BY FollowUpsAssumption DEF FollowUpsInv, FollowUpsTyped
    <3>2. run.searched * MaxFee <= FollowUpSearches * MaxFee /\ run.searched * MaxFee \in Nat
      BY <1>1, <3>1, Times
    <3> QED BY <1>1, <3>1, <3>2 DEF FollowUpsInv, MostOfOne
  <2>2. fu[f].cost \in Nat /\ fu[f].cost <= FollowUpCost + MostOfOne
    BY DEF FollowUpsInv, FollowUpsTyped
  <2>3. run.id = f /\ run.cost > 0 => fu[f].cost < FollowUpCost
    BY FollowUpsAssumption DEF FollowUpsInv
  <2> QED BY <1>1, <2>1, <2>2, <2>3
<1>4. spent[f] \in Nat /\ fu[f].cost + (IF run.id = f THEN run.cost ELSE 0) \in Nat
  BY DEF FollowUpsInv, FollowUpsTyped
<1>5. spent[f] <= FollowUpCost + (MostOfOne + (aborts + errors) * MostOfOne)
  BY <1>1, <1>2, <1>3, <1>4 DEF FollowUpsInv
<1>6. (1 + aborts + errors) * FollowUpSearches * MaxFee = ((aborts + errors) + 1) * MostOfOne
  <2>1. \A n \in Nat : (1 + n) * FollowUpSearches * MaxFee = (n + 1) * (FollowUpSearches * MaxFee)
    BY <1>1
  <2>2. 1 + aborts + errors = 1 + (aborts + errors)
    BY DEF FollowUpsInv, FollowUpsTyped
  <2> QED BY <1>1, <2>1, <2>2 DEF MostOfOne
<1> QED BY <1>1, <1>2, <1>5, <1>6

-----------------------------------------------------------------------------
(* The agents of a pipeline.                                               *)

LEMMA AgentsStep ==
  ASSUME [Next]_vars, part = "agents"
  PROVE  part' = "agents" /\ (Agents!Next \/ UNCHANGED agentVars)
BY DEF Next, NextTrade, NextExplore, NextFeed, vars, exploreVars

Runners == {"grok", "openai", "gemini"}

TasksOfAgents == [turn : 0 .. MaxTurns, fallback : BOOLEAN]

(* The most that an agent can still cost.                                  *)
Remaining(runner, t) ==
  IF runner = "gemini" THEN IF Fallback /\ ~t.fallback THEN 2 ELSE 1
                       ELSE MaxTurns - t.turn + 1

(* What n agents can cost, and the limit and n agents.                     *)
CostOf(n) == n * Agents!AgentMax
Upto(n)   == PipelineCost + CostOf(n)

LEMMA CostsGrow ==
  ASSUME NEW n \in Nat
  PROVE  /\ Agents!AgentMax \in Nat /\ CostOf(n) \in Nat /\ Upto(n) \in Nat
         /\ CostOf(n + 1) = CostOf(n) + Agents!AgentMax
         /\ Upto(n) = PipelineCost + CostOf(n) /\ Upto(n + 1) = Upto(n) + Agents!AgentMax
         /\ \A m \in Nat : m <= n => CostOf(m) <= CostOf(n) /\ Upto(m) <= Upto(n)
<1>1. Agents!AgentMax \in Nat
  BY AgentsAssumption DEF Agents!AgentMax, Agents!Larger
<1> HIDE DEF Agents!AgentMax
<1>2. CostOf(n) \in Nat /\ CostOf(n + 1) = CostOf(n) + Agents!AgentMax
  BY <1>1, Times DEF CostOf
<1>3. \A m \in Nat : m <= n => CostOf(m) <= CostOf(n) /\ CostOf(m) \in Nat
  BY <1>1, Times DEF CostOf
<1> QED BY <1>1, <1>2, <1>3, AgentsAssumption DEF Upto

LEMMA CostsTyped ==
  ASSUME NEW n \in Nat
  PROVE  CostOf(n) \in Nat /\ Upto(n) \in Nat /\ PipelineCost <= Upto(n)
<1>1. CostOf(n) \in Nat /\ Upto(n) \in Nat /\ Upto(n) = PipelineCost + CostOf(n)
  BY CostsGrow
<1> QED BY <1>1, AgentsAssumption

LEMMA CostsRise ==
  ASSUME NEW m \in Nat, NEW n \in Nat, m <= n
  PROVE  CostOf(m) <= CostOf(n) /\ Upto(m) <= Upto(n)
BY CostsGrow

(* The final agents of this job that have answered.                        *)
Finals == IF agent > Len(AgentOrder) THEN round ELSE round - 1

AgentsTyped ==
  /\ pipePhase \in {"idle", "next", "running"} /\ pipeJob \in 0 .. Jobs
  /\ pipePhase # "idle" =>
       pipeJob > 0 /\ round \in 1 .. MaxRounds /\ agent \in 1 .. Len(AgentOrder) + 1
  /\ pipePhase = "running" => agent <= Len(AgentOrder)
  /\ task \in TasksOfAgents /\ pipeSpent \in Nat /\ paid \in [1 .. Jobs -> Nat]
  /\ left \subseteq [job : 1 .. pipeJob, runner : Runners, task : TasksOfAgents]

(* A task that was left is the only one of its job, which has ended.       *)
LeftAlone ==
  /\ \A l \in left, m \in left : l.job = m.job => l = m
  /\ pipePhase # "idle" => \A l \in left : l.job # pipeJob
  /\ \A j \in pipeJob + 1 .. Jobs : paid[j] = 0

(* A job's costs are what was recorded, but for what its final agents have *)
(* lost; and an agent that is not final was started below the limit.       *)
PaidWithin ==
  /\ \A j \in 1 .. Jobs : paid[j] < Upto(1 + MaxRounds)
  /\ \A l \in left : paid[l.job] + Remaining(l.runner, l.task) < Upto(1 + MaxRounds)
  /\ pipePhase = "next" =>
       paid[pipeJob] <= pipeSpent + CostOf(Finals) /\ paid[pipeJob] < Upto(1 + Finals)
  /\ pipePhase = "running" =>
       IF Agents!Final(agent)
         THEN /\ paid[pipeJob] + Remaining(AgentOrder[agent], task) < Upto(1 + round)
              /\ paid[pipeJob] + Remaining(AgentOrder[agent], task) <= pipeSpent + CostOf(round)
         ELSE /\ paid[pipeJob] + Remaining(AgentOrder[agent], task) < Upto(round)
              /\ paid[pipeJob] <= pipeSpent + CostOf(round - 1) + task.turn

AgentsInv == AgentsTyped /\ LeftAlone /\ (PipelineCost > 0 => PaidWithin)

LEMMA RunnerTyped ==
  ASSUME NEW i \in 1 .. Len(AgentOrder)
  PROVE  AgentOrder[i] \in Runners /\ (~Agents!Final(i) => AgentOrder[i] # "gemini")
BY AgentsAssumption DEF Runners, Agents!Final

LEMMA RemainingTyped ==
  ASSUME NEW r \in Runners, NEW t \in TasksOfAgents
  PROVE  Remaining(r, t) \in Nat /\ 1 <= Remaining(r, t) /\ Remaining(r, t) <= Agents!AgentMax
BY AgentsAssumption DEF Runners, TasksOfAgents, Remaining, Agents!AgentMax, Agents!Larger

(* A step of a task costs no more than it leaves less.                     *)
LEMMA StepsCost ==
  ASSUME NEW r \in Runners, NEW t \in TasksOfAgents, NEW s \in Agents!TaskSteps(r, t)
  PROVE  /\ s.cost \in {0, 1} /\ s.cost <= Remaining(r, t)
         /\ s.next.then \in {"request", "answer", "failure"}
         /\ s.next.then = "request" =>
              /\ s.next.task \in TasksOfAgents
              /\ s.cost + Remaining(r, s.next.task) <= Remaining(r, t)
              /\ r # "gemini" => s.cost = 1 /\ s.next.task.turn = t.turn + 1
         /\ s.next.then = "answer" => s.next.cost \in Nat /\ (r # "gemini" => s.next.cost = t.turn + 1)
<1>1. Remaining(r, t) \in Nat /\ 1 <= Remaining(r, t)
  BY RemainingTyped
<1>2. \A n : /\ Agents!Continue(n) = [then |-> "request", task |-> n]
             /\ Agents!Answer(n) = [then |-> "answer", cost |-> n]
  BY DEF Agents!Continue, Agents!Answer
<1>3. Agents!Failure = [then |-> "failure"]
  BY DEF Agents!Failure
<1>4. MaxTurns \in Nat /\ t.turn \in 0 .. MaxTurns /\ t.fallback \in BOOLEAN
  BY AgentsAssumption DEF TasksOfAgents
<1>5. CASE s \in {[next |-> n, cost |-> 1] : n \in Agents!Answers(r, t)}
  <2>1. PICK n \in Agents!Answers(r, t) : s = [next |-> n, cost |-> 1]
    BY <1>5
  <2>2. CASE r = "gemini"
    <3>1. n = [then |-> "answer", cost |-> 1]
      BY <1>2, <2>1, <2>2 DEF Agents!Answers, Agents!GeminiAnswers
    <3> QED BY <1>1, <2>1, <2>2, <3>1
  <2>3. CASE r # "gemini"
    <3>1. \/ n = [then |-> "answer", cost |-> t.turn + 1]
          \/ t.turn < MaxTurns /\ n = [then |-> "request", task |-> [t EXCEPT !.turn = @ + 1]]
      BY <1>2, <2>1, <2>3 DEF Runners, Agents!Answers, Agents!GrokAnswers, Agents!OpenAIAnswers
    <3>2. t.turn < MaxTurns => /\ [t EXCEPT !.turn = @ + 1] \in TasksOfAgents
                               /\ [t EXCEPT !.turn = @ + 1].turn = t.turn + 1
      BY <1>4 DEF TasksOfAgents
    <3>3. s.next = n /\ s.cost = 1
      BY <2>1
    <3>4. CASE n = [then |-> "answer", cost |-> t.turn + 1]
      <4>1. n.then = "answer" /\ n.cost = t.turn + 1
        BY <3>4
      <4> QED BY <1>1, <1>4, <2>3, <3>3, <4>1
    <3>5. CASE t.turn < MaxTurns /\ n = [then |-> "request", task |-> [t EXCEPT !.turn = @ + 1]]
      <4>1. PICK u : u = [t EXCEPT !.turn = @ + 1]
        OBVIOUS
      <4>2. n.then = "request" /\ n.task = u /\ u \in TasksOfAgents /\ u.turn = t.turn + 1
        BY <3>2, <3>5, <4>1
      <4>3. 1 + Remaining(r, u) <= Remaining(r, t)
        BY <1>4, <2>3, <4>2 DEF Remaining
      <4> QED BY <1>1, <2>3, <3>3, <4>2, <4>3
    <3> QED BY <3>1, <3>4, <3>5
  <2> QED BY <2>2, <2>3
<1>6. CASE s \in {[next |-> n, cost |-> c] : n \in Agents!Lost(r, t), c \in {0, 1}}
  <2>1. PICK n \in Agents!Lost(r, t), c \in {0, 1} : s = [next |-> n, cost |-> c]
    BY <1>6
  <2>2. \/ n = [then |-> "failure"]
        \/ /\ r = "gemini" /\ Fallback /\ ~t.fallback
           /\ n = [then |-> "request", task |-> [t EXCEPT !.fallback = TRUE]]
    BY <1>2, <1>3, <2>1 DEF Agents!Lost, Agents!GeminiLost
  <2>3. [t EXCEPT !.fallback = TRUE] \in TasksOfAgents /\ [t EXCEPT !.fallback = TRUE].fallback
    BY <1>4 DEF TasksOfAgents
  <2>4. s.next = n /\ s.cost = c
    BY <2>1
  <2>5. CASE n = [then |-> "failure"]
    <3>1. n.then = "failure"
      BY <2>5
    <3> QED BY <1>1, <2>1, <2>4, <3>1
  <2>6. CASE /\ r = "gemini" /\ Fallback /\ ~t.fallback
             /\ n = [then |-> "request", task |-> [t EXCEPT !.fallback = TRUE]]
    <3>1. PICK u : u = [t EXCEPT !.fallback = TRUE]
      OBVIOUS
    <3>2. n.then = "request" /\ n.task = u /\ u \in TasksOfAgents /\ u.fallback
      BY <2>3, <2>6, <3>1
    <3>3. Remaining(r, u) = 1 /\ Remaining(r, t) = 2
      BY <2>6, <3>2 DEF Remaining
    <3>4. s.next.then = "request" /\ s.next.task = u /\ s.cost \in {0, 1} /\ s.cost <= 1
      BY <2>1, <2>4, <3>2
    <3>5. s.cost + Remaining(r, s.next.task) <= Remaining(r, t)
      BY <3>3, <3>4
    <3> QED BY <2>6, <3>2, <3>3, <3>4, <3>5
  <2> QED BY <2>2, <2>5, <2>6
<1> QED BY <1>5, <1>6 DEF Agents!TaskSteps

LEMMA AgentsInitially == Agents!Init => AgentsInv
<1> SUFFICES ASSUME Agents!Init PROVE AgentsInv
  OBVIOUS
<1>1. /\ pipePhase = "idle" /\ pipeJob = 0 /\ task = Agents!NewTask /\ left = {} /\ pipeSpent = 0
      /\ paid = [j \in 1 .. Jobs |-> 0]
  BY DEF Agents!Init
<1>2. AgentsTyped
  BY <1>1, AgentsAssumption DEF AgentsTyped, Agents!NewTask, TasksOfAgents
<1>3. Upto(1 + MaxRounds) \in Nat /\ PipelineCost <= Upto(1 + MaxRounds)
  <2>1. 1 + MaxRounds \in Nat
    BY AgentsAssumption
  <2> QED BY <2>1, CostsTyped
<1> QED BY <1>1, <1>2, <1>3, AgentsAssumption DEF AgentsInv, LeftAlone, PaidWithin

(* The end of a pipeline.                                                  *)
LEMMA PipelineEnds ==
  ASSUME AgentsInv, AgentsTyped', pipePhase # "idle", pipePhase' = "idle", UNCHANGED pipeJob,
         NEW c \in {0, 1}, paid' = [paid EXCEPT ![pipeJob] = @ + c],
         PipelineCost > 0 => paid[pipeJob] + c < Upto(1 + MaxRounds),
         \/ left' = left
         \/ \E r \in Runners : \E t \in TasksOfAgents :
              /\ left' = left \cup {[job |-> pipeJob, runner |-> r, task |-> t]}
              /\ PipelineCost > 0 => paid[pipeJob] + c + Remaining(r, t) < Upto(1 + MaxRounds)
  PROVE  AgentsInv'
<1>1. pipeJob \in 1 .. Jobs /\ \A l \in left : l.job # pipeJob /\ l.job \in 1 .. Jobs
  BY AgentsAssumption DEF AgentsInv, AgentsTyped, LeftAlone
<1>2. paid'[pipeJob] = paid[pipeJob] + c /\ \A j \in 1 .. Jobs : j # pipeJob => paid'[j] = paid[j]
  BY <1>1 DEF AgentsInv, AgentsTyped
<1>3. \/ left' = left
      \/ \E x : /\ left' = left \cup {x} /\ x.job = pipeJob
                /\ PipelineCost > 0 =>
                     paid[pipeJob] + c + Remaining(x.runner, x.task) < Upto(1 + MaxRounds)
  <2>1. CASE left' = left
    BY <2>1
  <2>2. ASSUME NEW r \in Runners, NEW t \in TasksOfAgents,
               left' = left \cup {[job |-> pipeJob, runner |-> r, task |-> t]},
               PipelineCost > 0 => paid[pipeJob] + c + Remaining(r, t) < Upto(1 + MaxRounds)
        PROVE  \E x : /\ left' = left \cup {x} /\ x.job = pipeJob
                      /\ PipelineCost > 0 =>
                           paid[pipeJob] + c + Remaining(x.runner, x.task) < Upto(1 + MaxRounds)
    <3> WITNESS [job |-> pipeJob, runner |-> r, task |-> t]
    <3> QED BY <2>2
  <2> QED BY <2>1, <2>2
<1>4. LeftAlone'
  <2>1. \A l \in left', m \in left' : l.job = m.job => l = m
    BY <1>1, <1>3 DEF AgentsInv, LeftAlone
  <2>2. \A j \in pipeJob + 1 .. Jobs : paid'[j] = 0
    BY <1>1, <1>2, AgentsAssumption DEF AgentsInv, LeftAlone
  <2> QED BY <2>1, <2>2 DEF LeftAlone
<1>5. ASSUME PipelineCost > 0 PROVE PaidWithin'
  <2>1. \A j \in 1 .. Jobs : paid'[j] < Upto(1 + MaxRounds)
    BY <1>2, <1>5 DEF AgentsInv, PaidWithin
  <2>2. ASSUME NEW l \in left'
        PROVE  paid'[l.job] + Remaining(l.runner, l.task) < Upto(1 + MaxRounds)
    <3>1. CASE l \in left
      BY <1>1, <1>2, <1>5, <3>1 DEF AgentsInv, PaidWithin
    <3>2. CASE l \notin left
      <4>1. l.job = pipeJob /\ paid[pipeJob] + c + Remaining(l.runner, l.task) < Upto(1 + MaxRounds)
        BY <1>3, <1>5, <2>2, <3>2
      <4> QED BY <1>2, <4>1
    <3> QED BY <3>1, <3>2
  <2>3. Upto(1 + MaxRounds)' = Upto(1 + MaxRounds)
    BY DEF Upto, CostOf, Agents!AgentMax, Agents!Larger
  <2> QED BY <2>1, <2>2, <2>3 DEF PaidWithin, Remaining
<1> QED BY <1>4, <1>5 DEF AgentsInv

(* Steps of the pipeline between its agents.                               *)
LEMMA BetweenAgents ==
  ASSUME AgentsInv, Agents!StartPipeline \/ Agents!RequestAbort \/ Agents!NextAgent \/ Agents!EndRound
  PROVE  AgentsInv'
<1>0. MaxRounds \in Nat \ {0} /\ Jobs \in Nat /\ Len(AgentOrder) \in Nat /\ PipelineCost \in Nat
  BY AgentsAssumption
<1>1. CASE Agents!RequestAbort
  <2>1. UNCHANGED <<pipePhase, pipeJob, round, agent, task, left, pipeSpent, paid>>
    BY <1>1 DEF Agents!RequestAbort
  <2> QED BY <2>1 DEF AgentsInv, AgentsTyped, LeftAlone, PaidWithin, Finals, Upto, CostOf,
                      Agents!AgentMax, Agents!Larger, Remaining, Agents!Final
<1>2. CASE Agents!StartPipeline
  <2>1. /\ pipePhase = "idle" /\ pipePhase' = "next" /\ pipeJob' = pipeJob + 1 /\ pipeJob < Jobs
        /\ round' = 1 /\ agent' = 1 /\ pipeSpent' = 0 /\ UNCHANGED <<task, left, paid>>
    BY <1>2 DEF Agents!StartPipeline
  <2>2. AgentsTyped'
    BY <1>0, <2>1 DEF AgentsInv, AgentsTyped
  <2>3. pipeJob' \in 1 .. Jobs /\ paid[pipeJob'] = 0
    BY <1>0, <2>1 DEF AgentsInv, AgentsTyped, LeftAlone
  <2>4. LeftAlone'
    BY <1>0, <2>1 DEF AgentsInv, AgentsTyped, LeftAlone
  <2>5. PipelineCost > 0 => PaidWithin'
    <3>1. Finals' \in {0, 1}
      BY <2>1 DEF Finals
    <3>2. \A n \in {0, 1} : CostOf(n) \in Nat /\ Upto(1 + n) \in Nat /\ PipelineCost <= Upto(1 + n)
      <4>1. \A n \in {0, 1} : n \in Nat /\ 1 + n \in Nat
        OBVIOUS
      <4> QED BY <4>1, CostsTyped
    <3>3. PipelineCost > 0 => 0 <= 0 + CostOf(Finals') /\ 0 < Upto(1 + Finals')
      BY <1>0, <3>1, <3>2
    <3>4. PipelineCost > 0 => paid'[pipeJob'] <= pipeSpent' + CostOf(Finals') /\ paid'[pipeJob'] < Upto(1 + Finals')
      BY <2>1, <2>3, <3>3
    <3> QED BY <2>1, <3>4 DEF AgentsInv, PaidWithin, Upto, CostOf, Agents!AgentMax, Agents!Larger, Remaining
  <2> QED BY <2>2, <2>4, <2>5 DEF AgentsInv
<1>3. CASE Agents!EndRound
  <2>0. /\ pipePhase = "next" /\ agent > Len(AgentOrder)
        /\ UNCHANGED <<pipeJob, task, left, pipeSpent, paid>>
    BY <1>3 DEF Agents!EndRound
  <2>1. CASE signal = "confident" \/ round = MaxRounds
    <3>1. pipePhase' = "idle" /\ UNCHANGED <<round, agent>>
      BY <1>3, <2>1 DEF Agents!EndRound
    <3>2. AgentsTyped'
      BY <2>0, <3>1 DEF AgentsInv, AgentsTyped
    <3> QED BY <2>0, <3>1, <3>2 DEF AgentsInv, LeftAlone, PaidWithin, Upto, CostOf, Agents!AgentMax,
                                    Agents!Larger, Remaining
  <2>2. CASE ~(signal = "confident" \/ round = MaxRounds)
    <3>1. pipePhase' = "next" /\ round' = round + 1 /\ agent' = 1
      BY <1>3, <2>0, <2>2 DEF Agents!EndRound
    <3>2. AgentsTyped'
      BY <1>0, <2>0, <2>2, <3>1 DEF AgentsInv, AgentsTyped
    <3>3. Finals \in Nat /\ Finals' \in Nat /\ Finals <= Finals'
      BY <1>0, <2>0, <3>1 DEF AgentsInv, AgentsTyped, Finals
    <3>4. CostOf(Finals) <= CostOf(Finals') /\ Upto(1 + Finals) <= Upto(1 + Finals')
          /\ CostOf(Finals) \in Nat /\ CostOf(Finals') \in Nat
          /\ Upto(1 + Finals) \in Nat /\ Upto(1 + Finals') \in Nat
      <4>1. PICK m : m = Finals
        OBVIOUS
      <4>2. PICK n : n = Finals'
        OBVIOUS
      <4>3. m \in Nat /\ n \in Nat /\ m <= n
        BY <3>3, <4>1, <4>2
      <4>4. 1 + m \in Nat /\ 1 + n \in Nat /\ 1 + m <= 1 + n
        BY <4>3
      <4>5. CostOf(m) <= CostOf(n) /\ Upto(1 + m) <= Upto(1 + n)
            /\ CostOf(m) \in Nat /\ CostOf(n) \in Nat /\ Upto(1 + m) \in Nat /\ Upto(1 + n) \in Nat
        BY <4>3, <4>4, CostsTyped, CostsRise
      <4>6. CostOf(Finals) = CostOf(m) /\ Upto(1 + Finals) = Upto(1 + m)
        BY <4>1
      <4>7. CostOf(Finals') = CostOf(n) /\ Upto(1 + Finals') = Upto(1 + n)
        BY <4>2
      <4> QED BY <4>5, <4>6, <4>7
    <3>5. pipeJob \in 1 .. Jobs /\ paid[pipeJob] \in Nat /\ pipeSpent \in Nat
      BY <1>0, <2>0 DEF AgentsInv, AgentsTyped
    <3>6. PipelineCost > 0 => paid'[pipeJob'] <= pipeSpent' + CostOf(Finals') /\ paid'[pipeJob'] < Upto(1 + Finals')
      BY <2>0, <3>4, <3>5 DEF AgentsInv, PaidWithin
    <3> QED BY <2>0, <3>1, <3>2, <3>6 DEF AgentsInv, LeftAlone, PaidWithin, Upto, CostOf,
                                          Agents!AgentMax, Agents!Larger, Remaining
  <2> QED BY <2>1, <2>2
<1>4. CASE Agents!NextAgent
  <2>0. /\ pipePhase = "next" /\ agent <= Len(AgentOrder)
        /\ UNCHANGED <<pipeJob, round, left, pipeSpent, paid>>
    BY <1>4 DEF Agents!NextAgent
  <2>1. /\ agent \in 1 .. Len(AgentOrder) /\ round \in 1 .. MaxRounds /\ Finals = round - 1
        /\ pipeJob \in 1 .. Jobs /\ paid[pipeJob] \in Nat /\ pipeSpent \in Nat /\ Finals \in Nat
    BY <1>0, <2>0 DEF AgentsInv, AgentsTyped, Finals
  <2>2. CASE agent' = agent + 1 /\ UNCHANGED <<pipePhase, task>> /\ ~Agents!Final(agent)
    <3>1. AgentsTyped' /\ Finals' = Finals
      BY <1>0, <2>0, <2>1, <2>2 DEF AgentsInv, AgentsTyped, Finals, Agents!Final
    <3>2. PipelineCost > 0 => /\ paid'[pipeJob'] <= pipeSpent' + CostOf(Finals')
                              /\ paid'[pipeJob'] < Upto(1 + Finals')
      BY <2>0, <3>1 DEF AgentsInv, PaidWithin
    <3> QED BY <2>0, <2>2, <3>1, <3>2 DEF AgentsInv, LeftAlone, PaidWithin, Upto, CostOf,
                                          Agents!AgentMax, Agents!Larger, Remaining
  <2>3. CASE /\ ~Agents!OverBudget(agent) /\ UNCHANGED agent
             /\ pipePhase' = IF flag THEN "idle" ELSE "running"
             /\ task' \in Agents!FirstTasks(AgentOrder[agent])
    <3>1. task' \in TasksOfAgents /\ task'.turn = 0
      <4>1. /\ Agents!NewTask \in TasksOfAgents /\ Agents!NewTask.turn = 0
            /\ [Agents!NewTask EXCEPT !.fallback = TRUE] \in TasksOfAgents
            /\ [Agents!NewTask EXCEPT !.fallback = TRUE].turn = 0
        <5>1. PICK u : u = Agents!NewTask
          OBVIOUS
        <5>2. u.turn = 0 /\ u \in TasksOfAgents
          BY <5>1, AgentsAssumption DEF Agents!NewTask, TasksOfAgents
        <5>3. [u EXCEPT !.fallback = TRUE] \in TasksOfAgents /\ [u EXCEPT !.fallback = TRUE].turn = u.turn
          BY <5>2 DEF TasksOfAgents
        <5> QED BY <5>1, <5>2, <5>3
      <4>2. task' \in {Agents!NewTask, [Agents!NewTask EXCEPT !.fallback = TRUE]}
        BY <2>3 DEF Agents!FirstTasks
      <4> QED BY <4>1, <4>2
    <3>2. AgentsTyped'
      BY <2>0, <2>1, <2>3, <3>1 DEF AgentsInv, AgentsTyped
    <3>3. LeftAlone'
      BY <2>0, <2>3 DEF AgentsInv, LeftAlone
    <3> PICK m : m = Remaining(AgentOrder[agent], task')
      OBVIOUS
    <3>4. m \in Nat /\ m <= Agents!AgentMax
      BY <2>1, <3>1, RunnerTyped, RemainingTyped
    <3>5. /\ Agents!AgentMax \in Nat /\ CostOf(Finals) \in Nat /\ Upto(Finals) \in Nat
          /\ CostOf(round) = CostOf(Finals) + Agents!AgentMax
          /\ Upto(Finals) = PipelineCost + CostOf(Finals)
          /\ Upto(1 + Finals) = Upto(Finals) + Agents!AgentMax
          /\ Upto(1 + round) = Upto(1 + Finals) + Agents!AgentMax
      <4>1. round = Finals + 1 /\ 1 + Finals = Finals + 1 /\ 1 + round = (Finals + 1) + 1 /\ Finals + 1 \in Nat
        BY <2>1
      <4>2. /\ Agents!AgentMax \in Nat /\ CostOf(Finals) \in Nat /\ Upto(Finals) \in Nat
            /\ CostOf(Finals + 1) = CostOf(Finals) + Agents!AgentMax
            /\ Upto(Finals) = PipelineCost + CostOf(Finals)
            /\ Upto(Finals + 1) = Upto(Finals) + Agents!AgentMax
            /\ Upto((Finals + 1) + 1) = Upto(Finals + 1) + Agents!AgentMax
        BY <2>1, <4>1, CostsGrow
      <4> QED BY <4>1, <4>2
    <3>6. ASSUME PipelineCost > 0
          PROVE  IF Agents!Final(agent)
                   THEN paid[pipeJob] + m < Upto(1 + round) /\ paid[pipeJob] + m <= pipeSpent + CostOf(round)
                   ELSE paid[pipeJob] + m < Upto(round) /\ paid[pipeJob] <= pipeSpent + CostOf(Finals)
      <4>1. paid[pipeJob] <= pipeSpent + CostOf(Finals) /\ paid[pipeJob] < Upto(1 + Finals)
        BY <2>0, <3>6 DEF AgentsInv, PaidWithin
      <4>2. CASE Agents!Final(agent)
        <5>1. pipeSpent + CostOf(Finals) \in Nat /\ Upto(1 + Finals) \in Nat
          <6>1. Upto(Finals) + Agents!AgentMax \in Nat /\ pipeSpent + CostOf(Finals) \in Nat
            BY SMTT(30), <2>1, <3>5
          <6> QED BY <3>5, <6>1
        <5>2. paid[pipeJob] + m < Upto(1 + Finals) + Agents!AgentMax
          BY SMTT(30), <2>1, <3>4, <3>5, <4>1, <5>1
        <5>3. paid[pipeJob] + m <= pipeSpent + CostOf(Finals) + Agents!AgentMax
          <6>1. PICK a : a = pipeSpent + CostOf(Finals)
            OBVIOUS
          <6>2. paid[pipeJob] <= a /\ a \in Nat
            BY <4>1, <5>1, <6>1
          <6>3. paid[pipeJob] + m <= a + Agents!AgentMax
            BY SMTT(30), <2>1, <3>4, <3>5, <6>2
          <6> QED BY <6>1, <6>3
        <5>4. pipeSpent + CostOf(Finals) + Agents!AgentMax = pipeSpent + CostOf(round)
          BY <2>1, <3>5
        <5>5. paid[pipeJob] + m < Upto(1 + round)
          BY <3>5, <5>2
        <5> QED BY <4>2, <5>3, <5>4, <5>5
      <4>3. CASE ~Agents!Final(agent)
        <5>1. pipeSpent < PipelineCost
          BY <1>0, <2>1, <2>3, <3>6, <4>3 DEF Agents!OverBudget
        <5>2. 1 + Finals = round
          BY <2>1
        <5>3. paid[pipeJob] + m < Upto(1 + Finals)
          BY SMTT(30), <1>0, <2>1, <3>4, <3>5, <4>1, <5>1
        <5> QED BY <4>1, <4>3, <5>2, <5>3
      <4> QED BY <4>2, <4>3
    <3>7. PipelineCost > 0 /\ pipePhase' = "running" => PaidWithin'
      <4>1. ASSUME PipelineCost > 0, pipePhase' = "running"
            PROVE  IF Agents!Final(agent')
                     THEN /\ paid'[pipeJob'] + Remaining(AgentOrder[agent'], task') < Upto(1 + round')
                          /\ paid'[pipeJob'] + Remaining(AgentOrder[agent'], task') <= pipeSpent' + CostOf(round')
                     ELSE /\ paid'[pipeJob'] + Remaining(AgentOrder[agent'], task') < Upto(round')
                          /\ paid'[pipeJob'] <= pipeSpent' + CostOf(round' - 1) + task'.turn
        <5>1. round - 1 = Finals /\ pipeSpent + CostOf(Finals) + 0 = pipeSpent + CostOf(Finals)
          BY <2>1, <3>5
        <5> QED BY <2>0, <2>3, <3>1, <3>6, <4>1, <5>1
      <4> QED BY <2>0, <2>3, <4>1 DEF AgentsInv, PaidWithin, Upto, CostOf, Agents!AgentMax, Agents!Larger,
                                      Remaining, Agents!Final
    <3>8. PipelineCost > 0 /\ pipePhase' = "idle" => PaidWithin'
      BY <2>0, <2>3 DEF AgentsInv, PaidWithin, Upto, CostOf, Agents!AgentMax, Agents!Larger, Remaining
    <3> QED BY <2>3, <3>2, <3>3, <3>7, <3>8 DEF AgentsInv
  <2> QED BY <1>4, <2>2, <2>3 DEF Agents!NextAgent, Agents!OverBudget
<1> QED BY <1>1, <1>2, <1>3, <1>4

(* An agent that runs stays within the bound of all rounds.                *)
LEMMA StaysWithin ==
  ASSUME AgentsInv, pipePhase = "running"
  PROVE  PipelineCost > 0 => paid[pipeJob] + Remaining(AgentOrder[agent], task) < Upto(1 + MaxRounds)
<1> SUFFICES ASSUME PipelineCost > 0
             PROVE  paid[pipeJob] + Remaining(AgentOrder[agent], task) < Upto(1 + MaxRounds)
  OBVIOUS
<1>1. /\ agent \in 1 .. Len(AgentOrder) /\ round \in 1 .. MaxRounds /\ MaxRounds \in Nat
      /\ pipeJob \in 1 .. Jobs /\ paid[pipeJob] \in Nat /\ task \in TasksOfAgents
  BY AgentsAssumption DEF AgentsInv, AgentsTyped
<1>2. Remaining(AgentOrder[agent], task) \in Nat
  BY <1>1, RunnerTyped, RemainingTyped
<1>3. \/ paid[pipeJob] + Remaining(AgentOrder[agent], task) < Upto(1 + round)
      \/ paid[pipeJob] + Remaining(AgentOrder[agent], task) < Upto(round)
  BY DEF AgentsInv, PaidWithin
<1>4. /\ Upto(round) \in Nat /\ Upto(1 + round) \in Nat /\ Upto(1 + MaxRounds) \in Nat
      /\ Upto(round) <= Upto(1 + MaxRounds) /\ Upto(1 + round) <= Upto(1 + MaxRounds)
  <2>1. /\ round \in Nat /\ 1 + round \in Nat /\ 1 + MaxRounds \in Nat
        /\ round <= 1 + MaxRounds /\ 1 + round <= 1 + MaxRounds
    BY <1>1
  <2> QED BY <2>1, CostsTyped, CostsRise
<1> QED BY <1>1, <1>2, <1>3, <1>4

LEMMA AgentEnds ==
  ASSUME AgentsInv, pipePhase = "running", Agents!AgentTimeout \/ Agents!AbortSeen
  PROVE  AgentsInv'
<1>0. /\ agent \in 1 .. Len(AgentOrder) /\ round \in 1 .. MaxRounds /\ pipeJob \in 1 .. Jobs
      /\ MaxRounds \in Nat \ {0} /\ round \in Nat /\ paid \in [1 .. Jobs -> Nat] /\ task \in TasksOfAgents
  BY AgentsAssumption DEF AgentsInv, AgentsTyped
<1>1. AgentOrder[agent] \in Runners
  BY <1>0, RunnerTyped
<1>2. /\ Remaining(AgentOrder[agent], task) \in Nat /\ 1 <= Remaining(AgentOrder[agent], task)
      /\ paid[pipeJob] \in Nat
  BY <1>0, <1>1, RemainingTyped
<1>3. PipelineCost > 0 => paid[pipeJob] + Remaining(AgentOrder[agent], task) < Upto(1 + MaxRounds)
  BY <1>0, <1>2, StaysWithin
<1>4. Upto(1 + MaxRounds) \in Nat
  <2>1. 1 + MaxRounds \in Nat
    BY <1>0
  <2> QED BY <2>1, CostsTyped
<1>5. CASE Agents!AgentTimeout
  <2>1. PICK c \in {0, 1} : paid' = [paid EXCEPT ![pipeJob] = @ + c]
    BY <1>5 DEF Agents!AgentTimeout
  <2>2. pipePhase' = "idle" /\ UNCHANGED <<pipeJob, task, left, pipeSpent>>
    BY <1>5 DEF Agents!AgentTimeout
  <2>3. AgentsTyped'
    <3>1. paid' \in [1 .. Jobs -> Nat]
      BY <1>0, <1>2, <2>1
    <3> QED BY <2>2, <3>1 DEF AgentsInv, AgentsTyped
  <2>4. PipelineCost > 0 => paid[pipeJob] + c < Upto(1 + MaxRounds)
    BY <1>2, <1>3, <1>4, <2>1
  <2> QED BY <2>1, <2>2, <2>3, <2>4, PipelineEnds
<1>6. CASE Agents!AbortSeen
  <2>1. /\ left' = left \cup {[job |-> pipeJob, runner |-> AgentOrder[agent], task |-> task]}
        /\ pipePhase' = "idle" /\ UNCHANGED <<pipeJob, task, pipeSpent, paid>>
    BY <1>6 DEF Agents!AbortSeen
  <2>2. AgentsTyped'
    <3>1. [job |-> pipeJob, runner |-> AgentOrder[agent], task |-> task]
            \in [job : 1 .. pipeJob, runner : Runners, task : TasksOfAgents]
      BY <1>0, <1>1
    <3> QED BY <2>1, <3>1 DEF AgentsInv, AgentsTyped
  <2>3. paid' = [paid EXCEPT ![pipeJob] = @ + 0]
    BY <1>0, <1>2, <2>1
  <2>4. PipelineCost > 0 => /\ paid[pipeJob] + 0 < Upto(1 + MaxRounds)
                            /\ paid[pipeJob] + 0 + Remaining(AgentOrder[agent], task) < Upto(1 + MaxRounds)
    BY <1>2, <1>3, <1>4
  <2>5. \E r \in Runners : \E t \in TasksOfAgents :
          /\ left' = left \cup {[job |-> pipeJob, runner |-> r, task |-> t]}
          /\ PipelineCost > 0 => paid[pipeJob] + 0 + Remaining(r, t) < Upto(1 + MaxRounds)
    BY <1>0, <1>1, <2>1, <2>4
  <2>6. 0 \in {0, 1}
    OBVIOUS
  <2> QED BY <2>1, <2>2, <2>3, <2>4, <2>5, <2>6, PipelineEnds
<1> QED BY <1>5, <1>6

(* A request of the running agent.                                         *)
LEMMA AgentRuns ==
  ASSUME AgentsInv, Agents!RunAgent
  PROVE  AgentsInv'
<1>0. /\ pipePhase = "running" /\ UNCHANGED <<pipeJob, round, left>>
      /\ agent \in 1 .. Len(AgentOrder) /\ round \in 1 .. MaxRounds /\ pipeJob \in 1 .. Jobs
      /\ MaxRounds \in Nat \ {0} /\ round \in Nat /\ round - 1 \in Nat /\ Len(AgentOrder) \in Nat
      /\ paid \in [1 .. Jobs -> Nat] /\ task \in TasksOfAgents /\ pipeSpent \in Nat
      /\ task.turn \in Nat /\ PipelineCost \in Nat
  BY SMTT(30), AgentsAssumption DEF AgentsInv, AgentsTyped, Agents!RunAgent, TasksOfAgents
<1> DEFINE R == AgentOrder[agent]
<1>1. R \in Runners /\ (~Agents!Final(agent) => R # "gemini")
  BY <1>0, RunnerTyped
<1>2. PICK s \in Agents!TaskSteps(R, task) :
        /\ paid' = [paid EXCEPT ![pipeJob] = @ + s.cost]
        /\ \/ /\ s.next.then = "request"
              /\ task' = s.next.task
              /\ UNCHANGED <<pipePhase, agent, signal, pipeSpent>>
           \/ /\ s.next.then = "answer"
              /\ pipeSpent' = pipeSpent + s.next.cost
              /\ pipePhase' = "next" /\ agent' = agent + 1
              /\ UNCHANGED task
           \/ /\ s.next.then = "failure"
              /\ pipePhase' = "idle"
              /\ UNCHANGED <<agent, task, signal, pipeSpent>>
  BY DEF Agents!RunAgent
<1> PICK c : c = s.cost
  OBVIOUS
<1>3. /\ c \in {0, 1} /\ c <= Remaining(R, task)
      /\ s.next.then \in {"request", "answer", "failure"}
      /\ s.next.then = "request" =>
           /\ s.next.task \in TasksOfAgents
           /\ c + Remaining(R, s.next.task) <= Remaining(R, task)
           /\ R # "gemini" => c = 1 /\ s.next.task.turn = task.turn + 1
      /\ s.next.then = "answer" => s.next.cost \in Nat /\ (R # "gemini" => s.next.cost = task.turn + 1)
  BY <1>0, <1>1, StepsCost
<1>4. /\ Remaining(R, task) \in Nat /\ 1 <= Remaining(R, task) /\ paid[pipeJob] \in Nat
  BY <1>0, <1>1, RemainingTyped
<1>5. PipelineCost > 0 => paid[pipeJob] + Remaining(R, task) < Upto(1 + MaxRounds)
  BY <1>0, StaysWithin
<1>6. /\ Upto(round) \in Nat /\ Upto(1 + round) \in Nat /\ Upto(1 + MaxRounds) \in Nat
      /\ CostOf(round) \in Nat /\ CostOf(round - 1) \in Nat
  <2>1. 1 + round \in Nat /\ 1 + MaxRounds \in Nat
    BY <1>0
  <2> QED BY <1>0, <2>1, CostsTyped
<1>7. PipelineCost > 0 =>
        IF Agents!Final(agent)
          THEN /\ paid[pipeJob] + Remaining(R, task) < Upto(1 + round)
               /\ paid[pipeJob] + Remaining(R, task) <= pipeSpent + CostOf(round)
          ELSE /\ paid[pipeJob] + Remaining(R, task) < Upto(round)
               /\ paid[pipeJob] <= pipeSpent + CostOf(round - 1) + task.turn
  BY <1>0 DEF AgentsInv, PaidWithin
<1>8. /\ paid' = [paid EXCEPT ![pipeJob] = @ + c] /\ paid' \in [1 .. Jobs -> Nat]
      /\ paid'[pipeJob] = paid[pipeJob] + c
      /\ \A j \in 1 .. Jobs : j # pipeJob => paid'[j] = paid[j]
  BY <1>0, <1>2, <1>3, <1>4
<1>9. \A l \in left : l.job \in 1 .. Jobs /\ l.job # pipeJob
  BY <1>0, AgentsAssumption DEF AgentsInv, AgentsTyped, LeftAlone
<1>10. paid[pipeJob] + c < Upto(1 + MaxRounds) \/ ~(PipelineCost > 0)
  BY <1>3, <1>4, <1>5, <1>6
<1>11. LeftAlone'
  <2>1. \A l \in left', m \in left' : l.job = m.job => l = m
    BY <1>0 DEF AgentsInv, LeftAlone
  <2>2. \A l \in left' : l.job # pipeJob'
    BY <1>0, <1>9
  <2>3. \A j \in pipeJob' + 1 .. Jobs : paid'[j] = 0
    <3>1. \A j \in pipeJob + 1 .. Jobs : j \in 1 .. Jobs /\ j # pipeJob /\ paid[j] = 0
      BY <1>0 DEF AgentsInv, LeftAlone
    <3> QED BY <1>0, <1>8, <3>1
  <2> QED BY <2>1, <2>2, <2>3 DEF LeftAlone
<1>12. ASSUME PipelineCost > 0
       PROVE  /\ \A j \in 1 .. Jobs : paid'[j] < Upto(1 + MaxRounds)
              /\ \A l \in left' : paid'[l.job] + Remaining(l.runner, l.task) < Upto(1 + MaxRounds)
  <2>1. /\ \A j \in 1 .. Jobs : paid[j] < Upto(1 + MaxRounds)
        /\ \A l \in left : paid[l.job] + Remaining(l.runner, l.task) < Upto(1 + MaxRounds)
    BY <1>12 DEF AgentsInv, PaidWithin
  <2>2. \A j \in 1 .. Jobs : paid'[j] < Upto(1 + MaxRounds)
    BY <1>8, <1>10, <1>12, <2>1
  <2>3. \A l \in left : paid'[l.job] = paid[l.job]
    BY <1>8, <1>9
  <2> QED BY <1>0, <2>1, <2>2, <2>3
<1> HIDE DEF R
<1>13. CASE s.next.then = "request"
  <2>1. task' = s.next.task /\ task' \in TasksOfAgents /\ UNCHANGED <<pipePhase, agent, pipeSpent>>
    BY <1>2, <1>3, <1>13
  <2>2. AgentsTyped'
    BY <1>0, <1>8, <2>1 DEF AgentsInv, AgentsTyped
  <2>3. Remaining(R, task') \in Nat
    BY <1>1, <2>1, RemainingTyped
  <2>4. ASSUME PipelineCost > 0
        PROVE  IF Agents!Final(agent)
                 THEN /\ paid'[pipeJob] + Remaining(R, task') < Upto(1 + round)
                      /\ paid'[pipeJob] + Remaining(R, task') <= pipeSpent + CostOf(round)
                 ELSE /\ paid'[pipeJob] + Remaining(R, task') < Upto(round)
                      /\ paid'[pipeJob] <= pipeSpent + CostOf(round - 1) + task'.turn
    <3>1. paid'[pipeJob] + Remaining(R, task') <= paid[pipeJob] + Remaining(R, task)
      BY <1>3, <1>4, <1>8, <1>13, <2>1, <2>3
    <3>2. paid'[pipeJob] + Remaining(R, task') \in Nat
      BY <1>3, <1>4, <1>8, <2>3
    <3>3. CASE Agents!Final(agent)
      <4>1. pipeSpent + CostOf(round) \in Nat
        BY <1>0, <1>6
      <4>2. /\ paid[pipeJob] + Remaining(R, task) < Upto(1 + round)
            /\ paid[pipeJob] + Remaining(R, task) <= pipeSpent + CostOf(round)
        BY <1>7, <2>4, <3>3
      <4> QED BY <1>4, <1>6, <3>1, <3>2, <3>3, <4>1, <4>2
    <3>4. CASE ~Agents!Final(agent)
      <4>1. c = 1 /\ task'.turn = task.turn + 1
        BY <1>1, <1>3, <1>13, <2>1, <3>4
      <4>2. /\ paid[pipeJob] + Remaining(R, task) < Upto(round)
            /\ paid[pipeJob] <= pipeSpent + CostOf(round - 1) + task.turn
        BY <1>7, <2>4, <3>4
      <4>3. paid'[pipeJob] <= pipeSpent + CostOf(round - 1) + task'.turn
        <5>1. PICK a : a = CostOf(round - 1)
          OBVIOUS
        <5>2. a \in Nat /\ paid[pipeJob] <= pipeSpent + a + task.turn
          BY <1>6, <4>2, <5>1
        <5>3. paid'[pipeJob] <= pipeSpent + a + task'.turn
          BY <1>0, <1>4, <1>8, <4>1, <5>2
        <5> QED BY <5>1, <5>3
      <4> QED BY <1>4, <1>6, <3>1, <3>2, <3>4, <4>2, <4>3
    <3> QED BY <3>3, <3>4
  <2>5. PipelineCost > 0 => PaidWithin'
    BY <1>0, <1>12, <2>1, <2>4 DEF PaidWithin, R, Upto, CostOf, Agents!AgentMax, Agents!Larger,
                                   Remaining, Agents!Final
  <2> QED BY <1>11, <2>2, <2>5 DEF AgentsInv
<1>14. CASE s.next.then = "answer"
  <2>1. /\ pipeSpent' = pipeSpent + s.next.cost /\ pipePhase' = "next" /\ agent' = agent + 1
        /\ UNCHANGED task
    BY <1>2, <1>14
  <2>2. s.next.cost \in Nat /\ pipeSpent' \in Nat
    BY <1>0, <1>3, <1>14, <2>1
  <2>3. AgentsTyped'
    BY <1>0, <1>8, <2>1, <2>2 DEF AgentsInv, AgentsTyped
  <2>4. ASSUME PipelineCost > 0
        PROVE  /\ paid'[pipeJob] <= pipeSpent' + CostOf(Finals')
               /\ paid'[pipeJob] < Upto(1 + Finals')
    <3>1. CASE Agents!Final(agent)
      <4>1. Finals' = round
        BY <1>0, <2>1, <3>1 DEF Finals, Agents!Final
      <4>2. /\ paid[pipeJob] + Remaining(R, task) < Upto(1 + round)
            /\ paid[pipeJob] + Remaining(R, task) <= pipeSpent + CostOf(round)
        BY <1>7, <2>4, <3>1
      <4>3. paid'[pipeJob] < Upto(1 + round) /\ paid'[pipeJob] <= pipeSpent' + CostOf(round)
        <5>1. PICK a : a = CostOf(round)
          OBVIOUS
        <5>2. a \in Nat /\ paid[pipeJob] + Remaining(R, task) <= pipeSpent + a
          BY <1>6, <4>2, <5>1
        <5>3. paid'[pipeJob] <= pipeSpent' + a
          <6>1. paid[pipeJob] + c <= pipeSpent + a
            <7>1. PICK k, p : k = Remaining(R, task) /\ p = paid[pipeJob]
              OBVIOUS
            <7>2. k \in Nat /\ p \in Nat /\ c \in {0, 1} /\ c <= k /\ p + k <= pipeSpent + a
              BY <1>3, <1>4, <5>2, <7>1
            <7>3. p + c <= pipeSpent + a
              BY <1>0, <5>2, <7>2
            <7> QED BY <7>1, <7>3
          <6>2. paid'[pipeJob] \in Nat /\ paid'[pipeJob] = paid[pipeJob] + c
            BY <1>3, <1>4, <1>8
          <6>3. PICK p, w : p = paid'[pipeJob] /\ w = pipeSpent'
            OBVIOUS
          <6>4. p \in Nat /\ p <= pipeSpent + a
            BY <6>1, <6>2, <6>3
          <6>5. w \in Nat /\ pipeSpent <= w
            BY <1>0, <2>1, <2>2, <6>3
          <6>6. p <= w + a
            BY <1>0, <5>2, <6>4, <6>5
          <6> QED BY <6>3, <6>6
        <5>4. paid'[pipeJob] < Upto(1 + round)
          BY <1>3, <1>4, <1>6, <1>8, <4>2
        <5> QED BY <5>1, <5>3, <5>4
      <4> QED BY <4>1, <4>3
    <3>2. CASE ~Agents!Final(agent)
      <4>1. Finals' = round - 1 /\ 1 + (round - 1) = round
        BY <1>0, <2>1, <3>2 DEF Finals, Agents!Final
      <4>2. /\ paid[pipeJob] + Remaining(R, task) < Upto(round)
            /\ paid[pipeJob] <= pipeSpent + CostOf(round - 1) + task.turn
        BY <1>7, <2>4, <3>2
      <4>3. s.next.cost = task.turn + 1
        BY <1>1, <1>3, <1>14, <3>2
      <4>4. paid'[pipeJob] < Upto(round)
        BY <1>3, <1>4, <1>6, <1>8, <4>2
      <4>5. paid'[pipeJob] <= pipeSpent' + CostOf(round - 1)
        <5>1. PICK a : a = CostOf(round - 1)
          OBVIOUS
        <5>2. a \in Nat /\ paid[pipeJob] <= pipeSpent + a + task.turn
          BY <1>6, <4>2, <5>1
        <5>3. paid'[pipeJob] <= pipeSpent' + a
          BY SMTT(30), <1>0, <1>3, <1>4, <1>8, <2>1, <4>3, <5>2
        <5> QED BY <5>1, <5>3
      <4> QED BY <4>1, <4>4, <4>5
    <3> QED BY <3>1, <3>2
  <2>5. PipelineCost > 0 => PaidWithin'
    BY <1>0, <1>12, <2>1, <2>4 DEF PaidWithin, Upto, CostOf, Agents!AgentMax, Agents!Larger, Remaining
  <2> QED BY <1>11, <2>3, <2>5 DEF AgentsInv
<1>15. CASE s.next.then = "failure"
  <2>1. pipePhase' = "idle" /\ UNCHANGED <<agent, task, pipeSpent>>
    BY <1>2, <1>15
  <2>2. AgentsTyped'
    BY <1>0, <1>8, <2>1 DEF AgentsInv, AgentsTyped
  <2> QED BY <1>0, <1>3, <1>8, <1>10, <2>1, <2>2, PipelineEnds
<1> QED BY <1>3, <1>13, <1>14, <1>15

(* A task that was left, beside the pipelines that follow.                 *)
LEMMA LeftTaskRuns ==
  ASSUME AgentsInv, NEW l \in left, Agents!LeftRuns(l)
  PROVE  AgentsInv'
<1>0. /\ pipePhase # "idle" /\ UNCHANGED <<pipePhase, pipeJob, round, agent, task, pipeSpent>>
      /\ MaxRounds \in Nat \ {0} /\ Jobs \in Nat /\ pipeJob \in 1 .. Jobs
      /\ paid \in [1 .. Jobs -> Nat] /\ PipelineCost \in Nat
  BY AgentsAssumption DEF AgentsInv, AgentsTyped, Agents!LeftRuns
<1>1. /\ l.job \in 1 .. Jobs /\ l.job \in 1 .. pipeJob /\ l.job # pipeJob
      /\ l.runner \in Runners /\ l.task \in TasksOfAgents
      /\ l \in [job : 1 .. pipeJob, runner : Runners, task : TasksOfAgents]
  BY <1>0 DEF AgentsInv, AgentsTyped, LeftAlone
<1>2. PICK s \in Agents!TaskSteps(l.runner, l.task) :
        /\ paid' = [paid EXCEPT ![l.job] = @ + s.cost]
        /\ left' = (left \ {l}) \cup
                   (IF s.next.then = "request" THEN {[l EXCEPT !.task = s.next.task]} ELSE {})
  BY DEF Agents!LeftRuns
<1> PICK c : c = s.cost
  OBVIOUS
<1>3. /\ c \in {0, 1} /\ c <= Remaining(l.runner, l.task)
      /\ s.next.then = "request" =>
           /\ s.next.task \in TasksOfAgents
           /\ c + Remaining(l.runner, s.next.task) <= Remaining(l.runner, l.task)
  BY <1>1, StepsCost
<1>4. Remaining(l.runner, l.task) \in Nat /\ paid[l.job] \in Nat
  BY <1>0, <1>1, RemainingTyped
<1>5. /\ paid' \in [1 .. Jobs -> Nat] /\ paid'[l.job] = paid[l.job] + c
      /\ \A j \in 1 .. Jobs : j # l.job => paid'[j] = paid[j]
  BY <1>0, <1>1, <1>2, <1>3, <1>4
<1>6. \A x \in left' :
        \/ x \in left /\ x # l
        \/ /\ s.next.then = "request" /\ x.job = l.job /\ x.runner = l.runner
           /\ x.task = s.next.task /\ x \in [job : 1 .. pipeJob, runner : Runners, task : TasksOfAgents]
           /\ x = [l EXCEPT !.task = s.next.task]
  <2> SUFFICES ASSUME NEW x \in left', ~(x \in left /\ x # l)
               PROVE  /\ s.next.then = "request" /\ x.job = l.job /\ x.runner = l.runner
                      /\ x.task = s.next.task
                      /\ x \in [job : 1 .. pipeJob, runner : Runners, task : TasksOfAgents]
                      /\ x = [l EXCEPT !.task = s.next.task]
    OBVIOUS
  <2>1. s.next.then = "request" /\ x = [l EXCEPT !.task = s.next.task]
    BY <1>2
  <2> QED BY <1>1, <1>3, <2>1
<1>7. AgentsTyped'
  <2>1. left' \subseteq [job : 1 .. pipeJob, runner : Runners, task : TasksOfAgents]
    BY <1>6 DEF AgentsInv, AgentsTyped
  <2> QED BY <1>0, <1>5, <2>1 DEF AgentsInv, AgentsTyped
<1>8. \A x \in left : x.job = l.job => x = l
  BY DEF AgentsInv, LeftAlone
<1>9. LeftAlone'
  <2>1. ASSUME NEW x \in left', NEW y \in left', x.job = y.job PROVE x = y
    <3>1. CASE x \in left /\ x # l
      <4>1. x.job # l.job
        BY <1>8, <3>1
      <4>2. y \in left
        BY <1>6, <2>1, <4>1
      <4> QED BY <2>1, <3>1, <4>2 DEF AgentsInv, LeftAlone
    <3>2. CASE ~(x \in left /\ x # l)
      <4>1. x.job = l.job /\ x = [l EXCEPT !.task = s.next.task]
        BY <1>6, <3>2
      <4>2. ~(y \in left /\ y # l)
        BY <1>8, <2>1, <4>1
      <4> QED BY <1>6, <4>1, <4>2
    <3> QED BY <3>1, <3>2
  <2>2. \A x \in left' : x.job # pipeJob
    BY <1>0, <1>1, <1>6 DEF AgentsInv, LeftAlone
  <2>3. \A j \in pipeJob + 1 .. Jobs : paid'[j] = 0
    <3>1. \A j \in pipeJob + 1 .. Jobs : j \in 1 .. Jobs /\ j # l.job /\ paid[j] = 0
      BY <1>0, <1>1 DEF AgentsInv, LeftAlone
    <3> QED BY <1>5, <3>1
  <2> QED BY <1>0, <2>1, <2>2, <2>3 DEF LeftAlone
<1>10. ASSUME PipelineCost > 0 PROVE PaidWithin'
  <2>1. /\ \A j \in 1 .. Jobs : paid[j] < Upto(1 + MaxRounds)
        /\ \A x \in left : paid[x.job] + Remaining(x.runner, x.task) < Upto(1 + MaxRounds)
    BY <1>10 DEF AgentsInv, PaidWithin
  <2>2. Upto(1 + MaxRounds) \in Nat
    <3>1. 1 + MaxRounds \in Nat
      BY <1>0
    <3> QED BY <3>1, CostsTyped
  <2>3. \A j \in 1 .. Jobs : paid'[j] < Upto(1 + MaxRounds)
    <3>1. paid'[l.job] < Upto(1 + MaxRounds)
      BY <1>3, <1>4, <1>5, <2>1, <2>2
    <3> QED BY <1>5, <2>1, <3>1
  <2>4. ASSUME NEW x \in left'
        PROVE  paid'[x.job] + Remaining(x.runner, x.task) < Upto(1 + MaxRounds)
    <3>1. CASE x \in left /\ x # l
      <4>1. x.job # l.job /\ x.job \in 1 .. Jobs
        BY <1>0, <1>8, <3>1 DEF AgentsInv, AgentsTyped
      <4> QED BY <1>5, <2>1, <3>1, <4>1
    <3>2. CASE ~(x \in left /\ x # l)
      <4>1. /\ s.next.then = "request" /\ x.job = l.job /\ x.runner = l.runner
            /\ x.task = s.next.task
        BY <1>6, <3>2
      <4>2. Remaining(l.runner, x.task) \in Nat
        BY <1>1, <1>3, <4>1, RemainingTyped
      <4>3. c + Remaining(l.runner, x.task) <= Remaining(l.runner, l.task)
        BY <1>3, <4>1
      <4>4. paid[l.job] + Remaining(l.runner, l.task) < Upto(1 + MaxRounds)
        BY <2>1
      <4>5. paid'[l.job] + Remaining(l.runner, x.task) < Upto(1 + MaxRounds)
        BY <1>3, <1>4, <1>5, <2>2, <4>2, <4>3, <4>4
      <4> QED BY <4>1, <4>5
    <3> QED BY <3>1, <3>2
  <2>5. paid'[pipeJob] = paid[pipeJob]
    BY <1>0, <1>1, <1>5
  <2>6. /\ pipePhase' = "next" =>
             paid'[pipeJob'] <= pipeSpent' + CostOf(Finals') /\ paid'[pipeJob'] < Upto(1 + Finals')
        /\ pipePhase' = "running" =>
             IF Agents!Final(agent')
               THEN /\ paid'[pipeJob'] + Remaining(AgentOrder[agent'], task') < Upto(1 + round')
                    /\ paid'[pipeJob'] + Remaining(AgentOrder[agent'], task') <= pipeSpent' + CostOf(round')
               ELSE /\ paid'[pipeJob'] + Remaining(AgentOrder[agent'], task') < Upto(round')
                    /\ paid'[pipeJob'] <= pipeSpent' + CostOf(round' - 1) + task'.turn
    <3>1. Finals' = Finals
      BY <1>0 DEF Finals
    <3> QED BY <1>0, <1>10, <2>5, <3>1 DEF AgentsInv, PaidWithin
  <2> QED BY <2>3, <2>4, <2>6 DEF PaidWithin, Upto, CostOf, Agents!AgentMax, Agents!Larger,
                                  Remaining, Agents!Final
<1> QED BY <1>7, <1>9, <1>10 DEF AgentsInv

LEMMA AgentsNext == AgentsInv /\ (Agents!Next \/ UNCHANGED agentVars) => AgentsInv'
<1> SUFFICES ASSUME AgentsInv, Agents!Next \/ UNCHANGED agentVars PROVE AgentsInv'
  OBVIOUS
<1>1. CASE Agents!StartPipeline \/ Agents!RequestAbort \/ Agents!NextAgent \/ Agents!EndRound
  BY <1>1, BetweenAgents
<1>2. CASE Agents!RunAgent
  BY <1>2, AgentRuns
<1>3. CASE Agents!AgentTimeout \/ Agents!AbortSeen
  <2>1. pipePhase = "running"
    BY <1>3 DEF Agents!AgentTimeout, Agents!AbortSeen
  <2> QED BY <1>3, <2>1, AgentEnds
<1>4. ASSUME NEW l \in left, Agents!LeftRuns(l) PROVE AgentsInv'
  BY <1>4, LeftTaskRuns
<1>5. CASE UNCHANGED agentVars
  BY <1>5 DEF agentVars, AgentsInv, AgentsTyped, LeftAlone, PaidWithin, Finals, Upto, CostOf,
              Agents!AgentMax, Agents!Larger, Remaining, Agents!Final
<1> QED BY <1>1, <1>2, <1>3, <1>4, <1>5 DEF Agents!Next

LEMMA AgentsBounded == AgentsInv => Agents!SpendBounded
BY DEF AgentsInv, PaidWithin, Agents!SpendBounded, Upto, CostOf

-----------------------------------------------------------------------------
(* The tools.                                                              *)

LEMMA ToolsStep ==
  ASSUME [Next]_vars, part = "tools"
  PROVE  part' = "tools" /\ (Tools!Next \/ UNCHANGED toolVars)
BY DEF Next, NextTrade, NextExplore, NextFeed, vars, exploreVars

(* The x_search calls of a response, those that run, and the traces of     *)
(* those that have returned.                                               *)
XCalls == [tool : {"x_search"}, symbol : {None}, nth : 1 .. MaxCalls]
XBusy  == {c \in DOMAIN todo : c.tool = "x_search" /\ todo[c] = "busy"}
XAsked == {t \in traces : t.tool = "x_search"}

ToolsTyped ==
  /\ \E S : rounds \in Seq(S)
  /\ reports \subseteq {"ticks", "details"}
  /\ usage \in [requests : Nat, searches : Nat, last : Nat, asked : Nat, billed : Nat]
  /\ turn \in Nat
  /\ todo = <<>> \/ todo \in [DOMAIN todo -> {"new", "busy", "done"}]

(* What is counted is what is billed, but for the searches of PydanticAI.  *)
BillsKnown ==
  /\ usage.billed = usage.requests + usage.searches
  /\ usage.asked > 0 => Tools!Runner = "pydanticai"
  /\ Tools!CostKnown

(* A search that was asked for is running or has left a trace of its own.  *)
SearchesTraced ==
  /\ IsFiniteSet(XAsked)
  /\ \A c \in DOMAIN todo : c.tool = "x_search" => c \in XCalls
  /\ \A t \in XAsked :
       \/ t.turn \in Nat /\ t.turn < turn
       \/ /\ t.turn = turn
          /\ \E c \in DOMAIN todo : c.tool = "x_search" /\ todo[c] = "done" /\ c.nth = t.nth
  /\ usage.asked <= Cardinality(XAsked) + Cardinality(XBusy)

SearchesCounted ==
  /\ XLimit > 0 => usage.asked < XLimit + MaxCalls
  /\ toolPhase \notin {"call", "over"} => DOMAIN todo = {}
  /\ DOMAIN todo # {} => Tools!Runner = "pydanticai"
  /\ Tools!Runner = "pydanticai" => SearchesTraced

ToolsInv == ToolsTyped /\ BillsKnown /\ SearchesCounted

LEMMA ToolsCardinality == \A S : Tools!Cardinality(S) = Cardinality(S)
BY DEF Tools!Cardinality, Cardinality

LEMMA XCallsFinite ==
  ASSUME NEW T \in SUBSET XCalls
  PROVE  IsFiniteSet(T) /\ Cardinality(T) \in Nat /\ Cardinality(T) <= MaxCalls
<1>1. MaxCalls \in Nat \ {0}
  BY ToolsAssumption
<1>2. IsFiniteSet(1 .. MaxCalls) /\ Cardinality(1 .. MaxCalls) = MaxCalls
  BY <1>1, FS_Interval
<1> DEFINE f == [n \in 1 .. MaxCalls |-> [tool |-> "x_search", symbol |-> None, nth |-> n]]
<1>3. f \in Surjection(1 .. MaxCalls, XCalls)
  <2>1. f \in [1 .. MaxCalls -> XCalls]
    BY DEF XCalls
  <2>2. ASSUME NEW x \in XCalls PROVE \E n \in 1 .. MaxCalls : f[n] = x
    <3>1. x.nth \in 1 .. MaxCalls /\ x = [tool |-> "x_search", symbol |-> None, nth |-> x.nth]
      BY DEF XCalls
    <3> QED BY <3>1
  <2> QED BY <2>1, <2>2 DEF Surjection
<1>4. IsFiniteSet(XCalls) /\ Cardinality(XCalls) <= MaxCalls
  <2> HIDE DEF f
  <2> QED BY <1>2, <1>3, FS_Surjection
<1>5. IsFiniteSet(T) /\ Cardinality(T) <= Cardinality(XCalls)
  BY <1>4, FS_Subset
<1>6. Cardinality(T) \in Nat /\ Cardinality(XCalls) \in Nat
  BY <1>4, <1>5, FS_CardinalityType
<1> QED BY <1>1, <1>4, <1>5, <1>6

(* Between two agents nothing is asked.                                    *)
LEMMA NothingAsked ==
  ASSUME NEW S, rounds' \in Seq(S), reports' \subseteq {"ticks", "details"},
         turn' = 0, todo' = <<>>, traces' = {}, usage' = Tools!NoUsage, Tools!CostKnown'
  PROVE  ToolsInv'
<1>1. usage' = [requests |-> 0, searches |-> 0, last |-> 0, asked |-> 0, billed |-> 0]
  BY DEF Tools!NoUsage
<1>2. /\ usage' \in [requests : Nat, searches : Nat, last : Nat, asked : Nat, billed : Nat]
      /\ usage'.billed = usage'.requests + usage'.searches /\ usage'.asked = 0
  BY <1>1
<1>3. ToolsTyped'
  BY <1>2 DEF ToolsTyped
<1>4. BillsKnown'
  BY <1>2 DEF BillsKnown
<1>5. DOMAIN todo' = {}
  OBVIOUS
<1>6. XAsked' = {} /\ XBusy' = {}
  BY <1>5 DEF XAsked, XBusy
<1>7. XLimit \in Nat /\ MaxCalls \in Nat \ {0}
  BY ToolsAssumption
<1>8. IsFiniteSet({}) /\ Cardinality({}) = 0
  BY FS_EmptySet
<1>9. SearchesTraced'
  BY <1>2, <1>5, <1>6, <1>8 DEF SearchesTraced
<1>10. XLimit > 0 => usage'.asked < XLimit + MaxCalls
  BY <1>2, <1>7
<1>11. SearchesCounted'
  BY <1>5, <1>9, <1>10 DEF SearchesCounted
<1> QED BY <1>3, <1>4, <1>11 DEF ToolsInv

LEMMA ToolsInitially == Tools!Init => ToolsInv
<1> SUFFICES ASSUME Tools!Init PROVE ToolsInv
  OBVIOUS
<1>0. /\ reports \subseteq {"ticks", "details"} /\ rounds = <<>> /\ turn = 0 /\ todo = <<>>
      /\ traces = {} /\ usage = Tools!NoUsage
  BY DEF Tools!Init
<1>1. /\ usage \in [requests : Nat, searches : Nat, last : Nat, asked : Nat, billed : Nat]
      /\ usage.billed = usage.requests + usage.searches /\ usage.asked = 0
  <2>1. usage = [requests |-> 0, searches |-> 0, last |-> 0, asked |-> 0, billed |-> 0]
    BY <1>0 DEF Tools!NoUsage
  <2> QED BY <2>1
<1>2. ToolsTyped
  <2>1. rounds \in Seq({})
    BY <1>0
  <2> QED BY <1>0, <1>1, <2>1 DEF ToolsTyped
<1>3. BillsKnown
  BY <1>0, <1>1 DEF BillsKnown, Tools!CostKnown
<1>4. DOMAIN todo = {}
  BY <1>0
<1>5. XAsked = {} /\ XBusy = {}
  BY <1>0, <1>4 DEF XAsked, XBusy
<1>6. IsFiniteSet({}) /\ Cardinality({}) = 0
  BY FS_EmptySet
<1>7. SearchesTraced
  BY <1>1, <1>4, <1>5, <1>6 DEF SearchesTraced
<1>8. XLimit > 0 => usage.asked < XLimit + MaxCalls
  BY <1>1, ToolsAssumption
<1>9. SearchesCounted
  BY <1>4, <1>7, <1>8 DEF SearchesCounted
<1> QED BY <1>2, <1>3, <1>9 DEF ToolsInv

(* A request, its response and the calls that are executed at once.        *)
LEMMA ToolsAsk ==
  ASSUME ToolsInv, Tools!Ask
  PROVE  ToolsInv'
<1>0. /\ toolPhase = "ask" /\ UNCHANGED <<pipe, reports, rounds, turn>>
      /\ DOMAIN todo = {} /\ Tools!Runner' = Tools!Runner
  BY DEF Tools!Ask, ToolsInv, SearchesCounted, Tools!Runner
<1>1. PICK cs \in Tools!Responses(Tools!Runner), n \in 0 .. MaxSearches :
        /\ Tools!Runner = "pydanticai" => n = 0
        /\ todo' = IF Tools!Runner = "pydanticai" THEN [c \in cs |-> "new"] ELSE <<>>
        /\ usage' = [Tools!Count(usage, n) EXCEPT !.billed = @ + 1 + n]
        /\ traces' = traces \cup Tools!Searched(n)
        /\ toolPhase' = IF cs = {} \/ (Tools!Runner # "pydanticai" /\ turn = MaxTurns)
                          THEN "answer" ELSE "call"
  BY DEF Tools!Ask
<1>2. n \in Nat /\ usage \in [requests : Nat, searches : Nat, last : Nat, asked : Nat, billed : Nat]
  BY <1>1, ToolsAssumption DEF ToolsInv, ToolsTyped
<1>3. usage' = [requests |-> usage.requests + 1, searches |-> usage.searches + n, last |-> n,
                asked |-> usage.asked, billed |-> usage.billed + 1 + n]
  <2>1. PICK u : u = Tools!Count(usage, n)
    OBVIOUS
  <2>2. u = [requests |-> usage.requests + 1, searches |-> usage.searches + n, last |-> n,
             asked |-> usage.asked, billed |-> usage.billed]
    BY <1>2, <2>1 DEF Tools!Count
  <2>3. usage' = [u EXCEPT !.billed = @ + 1 + n]
    BY <1>1, <2>1
  <2> QED BY <1>2, <2>2, <2>3
<1>4. /\ usage' \in [requests : Nat, searches : Nat, last : Nat, asked : Nat, billed : Nat]
      /\ usage'.asked = usage.asked
      /\ usage.billed = usage.requests + usage.searches => usage'.billed = usage'.requests + usage'.searches
  BY <1>2, <1>3
<1>5. todo' = <<>> \/ todo' \in [DOMAIN todo' -> {"new", "busy", "done"}]
  BY <1>1
<1>6. ToolsTyped'
  BY <1>0, <1>4, <1>5 DEF ToolsInv, ToolsTyped
<1>7. BillsKnown'
  BY <1>0, <1>4 DEF ToolsInv, BillsKnown, Tools!CostKnown
<1>8. /\ toolPhase' \notin {"call", "over"} => DOMAIN todo' = {}
      /\ DOMAIN todo' # {} => Tools!Runner' = "pydanticai"
  BY <1>0, <1>1
<1>9. ASSUME Tools!Runner' = "pydanticai" PROVE SearchesTraced'
  <2>1. todo' = [c \in cs |-> "new"] /\ SearchesTraced
    BY <1>0, <1>1, <1>9 DEF ToolsInv, SearchesCounted
  <2>2. \A t \in Tools!Searched(n) : t.tool # "x_search"
    BY DEF Tools!Searched, Tools!Trace
  <2>3. XAsked' = XAsked
    BY <1>1, <2>2 DEF XAsked
  <2>4. XBusy' = {} /\ XBusy = {}
    BY <1>0, <2>1 DEF XBusy
  <2>5. \A c \in cs : c.tool = "x_search" => c \in XCalls
    <3> SUFFICES ASSUME NEW c \in cs, c.tool = "x_search" PROVE c \in XCalls
      OBVIOUS
    <3> PICK tools : tools = Tools!Offered(Tools!Runner) \cap Used
      OBVIOUS
    <3>1. c \in Tools!CallsOf(tools)
      BY DEF Tools!Responses
    <3>2. "x_search" \in Tools!WithoutSymbol
      BY DEF Tools!WithoutSymbol
    <3>3. \/ c \in [tool : tools \cap Tools!WithoutSymbol, symbol : {None}, nth : {1}]
          \/ c \in [tool : tools \cap {"x_search"}, symbol : {None}, nth : 1 .. MaxCalls]
          \/ c \in [tool : tools \ Tools!WithoutSymbol, nth : {1},
                    symbol : {ArticleSymbols[i] : i \in DOMAIN ArticleSymbols} \cup Peers]
      BY <3>1 DEF Tools!CallsOf
    <3>4. 1 \in 1 .. MaxCalls
      BY ToolsAssumption
    <3> QED BY <3>2, <3>3, <3>4 DEF XCalls
  <2>6. \A t \in XAsked' : t.turn \in Nat /\ t.turn < turn'
    BY <1>0, <2>1, <2>3 DEF SearchesTraced
  <2>7. usage'.asked <= Cardinality(XAsked') + Cardinality(XBusy')
    BY <1>4, <2>1, <2>3, <2>4 DEF SearchesTraced
  <2>8. IsFiniteSet(XAsked')
    BY <2>1, <2>3 DEF SearchesTraced
  <2>9. DOMAIN todo' = cs
    BY <2>1
  <2> QED BY <2>5, <2>6, <2>7, <2>8, <2>9 DEF SearchesTraced, XCalls
<1>10. XLimit > 0 => usage'.asked < XLimit + MaxCalls
  BY <1>4 DEF ToolsInv, SearchesCounted
<1>11. SearchesCounted'
  BY <1>8, <1>9, <1>10 DEF SearchesCounted
<1> QED BY <1>6, <1>7, <1>11 DEF ToolsInv

LEMMA CallsExecuted ==
  ASSUME ToolsInv, Tools!ExecuteCalls \/ Tools!CallsAnswered
  PROVE  ToolsInv'
<1>0. /\ toolPhase = "call" /\ toolPhase' = "ask" /\ turn' = turn + 1
      /\ UNCHANGED <<pipe, reports, rounds, usage>>
      /\ Tools!Runner' = Tools!Runner
  BY DEF Tools!ExecuteCalls, Tools!CallsAnswered, Tools!Runner
<1>1. DOMAIN todo' = {} /\ (todo' = <<>> \/ todo' = todo)
  <2>1. CASE Tools!ExecuteCalls
    BY <2>1 DEF Tools!ExecuteCalls, ToolsInv, SearchesCounted
  <2>2. CASE Tools!CallsAnswered
    BY <2>2 DEF Tools!CallsAnswered
  <2> QED BY <2>1, <2>2
<1>2. ToolsTyped'
  BY <1>0, <1>1 DEF ToolsInv, ToolsTyped
<1>3. BillsKnown'
  BY <1>0 DEF ToolsInv, BillsKnown, Tools!CostKnown
<1>4. ASSUME Tools!Runner' = "pydanticai" PROVE SearchesTraced'
  <2>1. /\ Tools!CallsAnswered /\ SearchesTraced
        /\ UNCHANGED traces /\ \A c \in DOMAIN todo : todo[c] = "done"
    BY <1>0, <1>4 DEF Tools!ExecuteCalls, Tools!CallsAnswered, ToolsInv, SearchesCounted
  <2>2. XAsked' = XAsked /\ XBusy' = {} /\ XBusy = {}
    BY <1>1, <2>1 DEF XAsked, XBusy
  <2>3. turn \in Nat
    BY DEF ToolsInv, ToolsTyped
  <2>4. \A t \in XAsked' : t.turn \in Nat /\ t.turn < turn'
    BY <1>0, <2>1, <2>2, <2>3 DEF SearchesTraced
  <2>5. usage'.asked <= Cardinality(XAsked') + Cardinality(XBusy') /\ IsFiniteSet(XAsked')
    BY <1>0, <2>1, <2>2 DEF SearchesTraced
  <2> QED BY <1>1, <2>4, <2>5 DEF SearchesTraced
<1>5. SearchesCounted'
  BY <1>0, <1>1, <1>4 DEF ToolsInv, SearchesCounted
<1> QED BY <1>2, <1>3, <1>5 DEF ToolsInv

(* A call of PydanticAI's is started.                                      *)
LEMMA CallStarts ==
  ASSUME ToolsInv, NEW c \in DOMAIN todo, Tools!StartCall(c)
  PROVE  ToolsInv'
<1>0. /\ toolPhase = "call" /\ Tools!Runner = "pydanticai" /\ todo[c] = "new"
      /\ todo' = [todo EXCEPT ![c] = "busy"]
      /\ UNCHANGED <<pipe, reports, rounds, toolPhase, turn, traces>>
      /\ Tools!Runner' = Tools!Runner
  BY DEF Tools!StartCall, Tools!Runner
<1>1. /\ todo \in [DOMAIN todo -> {"new", "busy", "done"}] /\ turn \in Nat
      /\ usage \in [requests : Nat, searches : Nat, last : Nat, asked : Nat, billed : Nat]
  <2>1. todo # <<>>
    OBVIOUS
  <2> QED BY <2>1 DEF ToolsInv, ToolsTyped
<1>2. /\ DOMAIN todo' = DOMAIN todo /\ todo'[c] = "busy"
      /\ todo' \in [DOMAIN todo' -> {"new", "busy", "done"}]
      /\ \A d \in DOMAIN todo : d # c => todo'[d] = todo[d]
  BY <1>0, <1>1
<1>3. SearchesTraced
  BY <1>0 DEF ToolsInv, SearchesCounted
<1>4. XAsked' = XAsked /\ IsFiniteSet(XAsked) /\ Cardinality(XAsked) \in Nat
  <2>1. XAsked' = XAsked /\ IsFiniteSet(XAsked)
    BY <1>0, <1>3 DEF XAsked, SearchesTraced
  <2> QED BY <2>1, FS_CardinalityType
<1>5. \A d \in DOMAIN todo : d.tool = "x_search" => d \in XCalls
  BY <1>3 DEF SearchesTraced
<1>6. XBusy \subseteq XCalls /\ XBusy' \subseteq XCalls
  BY <1>2, <1>5 DEF XBusy
<1>7. /\ IsFiniteSet(XBusy) /\ Cardinality(XBusy) \in Nat
      /\ Cardinality(XBusy') \in Nat /\ Cardinality(XBusy') <= MaxCalls
  <2> PICK B : B = XBusy'
    OBVIOUS
  <2>1. B \in SUBSET XCalls /\ XBusy \in SUBSET XCalls
    BY <1>6
  <2>2. Cardinality(B) \in Nat /\ Cardinality(B) <= MaxCalls
    BY <2>1, XCallsFinite
  <2> QED BY <2>1, <2>2, XCallsFinite
<1>8. Cardinality(XBusy') = IF c.tool = "x_search" THEN Cardinality(XBusy) + 1 ELSE Cardinality(XBusy)
  <2>1. CASE c.tool = "x_search"
    <3>1. XBusy' = XBusy \cup {c} /\ c \notin XBusy
      BY <1>0, <1>2, <2>1 DEF XBusy
    <3> QED BY <1>7, <2>1, <3>1, FS_AddElement
  <2>2. CASE c.tool # "x_search"
    <3>1. XBusy' = XBusy
      BY <1>0, <1>2, <2>2 DEF XBusy
    <3> QED BY <2>2, <3>1
  <2> QED BY <2>1, <2>2
<1>9. \/ usage' = usage
      \/ /\ c.tool = "x_search" /\ usage' = [usage EXCEPT !.asked = @ + 1]
         /\ XLimit = 0 \/ Cardinality(XAsked) < XLimit
  BY <1>0, ToolsCardinality DEF Tools!StartCall, Tools!SearchesLeft, Tools!Prior, XAsked
<1>10. /\ usage' \in [requests : Nat, searches : Nat, last : Nat, asked : Nat, billed : Nat]
       /\ usage'.requests = usage.requests /\ usage'.searches = usage.searches
       /\ usage'.billed = usage.billed
       /\ \/ usage'.asked = usage.asked
          \/ /\ usage'.asked = usage.asked + 1 /\ c.tool = "x_search"
             /\ XLimit = 0 \/ Cardinality(XAsked) < XLimit
  BY <1>1, <1>9
<1>11. ToolsTyped'
  BY <1>0, <1>2, <1>10 DEF ToolsInv, ToolsTyped
<1>12. BillsKnown'
  BY <1>0, <1>10 DEF ToolsInv, BillsKnown, Tools!CostKnown
<1>13. usage.asked \in Nat /\ usage'.asked \in Nat
       /\ usage.asked <= Cardinality(XAsked) + Cardinality(XBusy)
  BY <1>1, <1>3, <1>10 DEF SearchesTraced
<1>14. usage'.asked <= Cardinality(XAsked') + Cardinality(XBusy')
  BY <1>4, <1>7, <1>8, <1>10, <1>13
<1>15. XLimit > 0 => usage'.asked < XLimit + MaxCalls
  <2>1. XLimit > 0 => usage.asked < XLimit + MaxCalls
    BY DEF ToolsInv, SearchesCounted
  <2>2. XLimit \in Nat /\ MaxCalls \in Nat
    BY ToolsAssumption
  <2> QED BY <1>4, <1>7, <1>10, <1>13, <1>14, <2>1, <2>2
<1>16. \A t \in XAsked' :
         \/ t.turn \in Nat /\ t.turn < turn'
         \/ /\ t.turn = turn'
            /\ \E d \in DOMAIN todo' : d.tool = "x_search" /\ todo'[d] = "done" /\ d.nth = t.nth
  <2> SUFFICES ASSUME NEW t \in XAsked,
                      NEW d \in DOMAIN todo, d.tool = "x_search", todo[d] = "done", d.nth = t.nth
               PROVE  d \in DOMAIN todo' /\ todo'[d] = "done"
    BY <1>0, <1>3, <1>4 DEF SearchesTraced
  <2>1. d # c
    BY <1>0
  <2> QED BY <1>2, <2>1
<1>17. SearchesTraced'
  BY <1>2, <1>4, <1>5, <1>14, <1>16 DEF SearchesTraced, XCalls
<1>18. SearchesCounted'
  BY <1>0, <1>15, <1>17 DEF SearchesCounted
<1> QED BY <1>11, <1>12, <1>18 DEF ToolsInv

(* A call of PydanticAI's has returned, and leaves its trace.              *)
LEMMA CallEnds ==
  ASSUME ToolsInv, NEW c \in DOMAIN todo, Tools!EndCall(c)
  PROVE  ToolsInv'
<1>0. /\ toolPhase = "call" /\ Tools!Runner = "pydanticai" /\ todo[c] = "busy"
      /\ todo' = [todo EXCEPT ![c] = "done"] /\ traces' = traces \cup {Tools!Trace(c)}
      /\ UNCHANGED <<pipe, reports, rounds, toolPhase, turn, usage>>
      /\ Tools!Runner' = Tools!Runner
  BY DEF Tools!EndCall, Tools!Runner
<1>1. /\ todo \in [DOMAIN todo -> {"new", "busy", "done"}] /\ turn \in Nat
      /\ usage \in [requests : Nat, searches : Nat, last : Nat, asked : Nat, billed : Nat]
  <2>1. todo # <<>>
    OBVIOUS
  <2> QED BY <2>1 DEF ToolsInv, ToolsTyped
<1>2. /\ DOMAIN todo' = DOMAIN todo /\ todo'[c] = "done"
      /\ todo' \in [DOMAIN todo' -> {"new", "busy", "done"}]
      /\ \A d \in DOMAIN todo : d # c => todo'[d] = todo[d]
  BY <1>0, <1>1
<1>3. SearchesTraced
  BY <1>0 DEF ToolsInv, SearchesCounted
<1>4. IsFiniteSet(XAsked) /\ Cardinality(XAsked) \in Nat
  BY <1>3, FS_CardinalityType DEF SearchesTraced
<1>5. \A d \in DOMAIN todo : d.tool = "x_search" => d \in XCalls
  BY <1>3 DEF SearchesTraced
<1>6. IsFiniteSet(XBusy) /\ Cardinality(XBusy) \in Nat
  <2>1. XBusy \in SUBSET XCalls
    BY <1>5 DEF XBusy
  <2> QED BY <2>1, XCallsFinite
<1>7. /\ Tools!Trace(c).tool = c.tool /\ Tools!Trace(c).turn = turn /\ Tools!Trace(c).nth = c.nth
  BY DEF Tools!Trace
<1>8. c.tool = "x_search" => Tools!Trace(c) \notin XAsked
  <2> SUFFICES ASSUME c.tool = "x_search", Tools!Trace(c) \in XAsked PROVE FALSE
    OBVIOUS
  <2>1. PICK d \in DOMAIN todo : d.tool = "x_search" /\ todo[d] = "done" /\ d.nth = c.nth
    BY <1>1, <1>3, <1>7 DEF SearchesTraced
  <2>2. c \in XCalls /\ d \in XCalls
    BY <1>5, <2>1
  <2>3. c = d
    BY <2>1, <2>2 DEF XCalls
  <2> QED BY <1>0, <2>1, <2>3
<1>9. /\ IsFiniteSet(XAsked')
      /\ Cardinality(XAsked') + Cardinality(XBusy') = Cardinality(XAsked) + Cardinality(XBusy)
  <2>1. CASE c.tool = "x_search"
    <3>1. XAsked' = XAsked \cup {Tools!Trace(c)}
      BY <1>0, <1>7, <2>1 DEF XAsked
    <3>2. XBusy' = XBusy \ {c} /\ c \in XBusy
      BY <1>0, <1>2, <2>1 DEF XBusy
    <3>3. /\ IsFiniteSet(XAsked \cup {Tools!Trace(c)})
          /\ Cardinality(XAsked \cup {Tools!Trace(c)}) = Cardinality(XAsked) + 1
      BY <1>4, <1>8, <2>1, FS_AddElement
    <3>4. Cardinality(XBusy \ {c}) = Cardinality(XBusy) - 1
      BY <1>6, <3>2, FS_RemoveElement
    <3> QED BY <1>4, <1>6, <3>1, <3>2, <3>3, <3>4
  <2>2. CASE c.tool # "x_search"
    <3>1. XAsked' = XAsked
      BY <1>0, <1>7, <2>2 DEF XAsked
    <3>2. XBusy' = XBusy
      BY <1>0, <1>2, <2>2 DEF XBusy
    <3> QED BY <1>4, <3>1, <3>2
  <2> QED BY <2>1, <2>2
<1>10. ToolsTyped'
  BY <1>0, <1>2 DEF ToolsInv, ToolsTyped
<1>11. BillsKnown'
  BY <1>0 DEF ToolsInv, BillsKnown, Tools!CostKnown
<1>12. \A t \in XAsked' :
         \/ t.turn \in Nat /\ t.turn < turn'
         \/ /\ t.turn = turn'
            /\ \E d \in DOMAIN todo' : d.tool = "x_search" /\ todo'[d] = "done" /\ d.nth = t.nth
  <2> SUFFICES ASSUME NEW t \in XAsked'
               PROVE  \/ t.turn \in Nat /\ t.turn < turn
                      \/ /\ t.turn = turn
                         /\ \E d \in DOMAIN todo : d.tool = "x_search" /\ todo'[d] = "done" /\ d.nth = t.nth
    BY <1>0, <1>2
  <2>1. CASE t \in XAsked
    <3>1. \A d \in DOMAIN todo : todo[d] = "done" => todo'[d] = "done"
      BY <1>2
    <3> QED BY <1>3, <2>1, <3>1 DEF SearchesTraced
  <2>2. CASE t \notin XAsked
    <3>1. t = Tools!Trace(c) /\ t.tool = "x_search"
      BY <1>0, <2>2 DEF XAsked
    <3> QED BY <1>2, <1>7, <3>1
  <2> QED BY <2>1, <2>2
<1>13. usage'.asked <= Cardinality(XAsked') + Cardinality(XBusy')
  BY <1>0, <1>3, <1>9 DEF SearchesTraced
<1>14. SearchesTraced'
  BY <1>2, <1>5, <1>9, <1>12, <1>13 DEF SearchesTraced, XCalls
<1>15. SearchesCounted'
  BY <1>0, <1>14 DEF ToolsInv, SearchesCounted
<1> QED BY <1>10, <1>11, <1>15 DEF ToolsInv

(* An agent answers, and its costs are recorded.                           *)
LEMMA AnswersKnown ==
  ASSUME ToolsInv, Tools!Answer
  PROVE  ToolsInv'
<1>1. PICK x : x = [runner |-> Tools!Runner, real |-> Tools!Real, cost |-> Tools!AgentCost(Tools!Runner),
                    results |-> {[tool |-> t.tool, symbol |-> t.symbol] : t \in traces}]
  OBVIOUS
<1>2. /\ rounds' = Append(rounds, x) /\ turn' = 0 /\ todo' = <<>> /\ traces' = {}
      /\ usage' = Tools!NoUsage /\ UNCHANGED <<pipe, reports>>
  BY <1>1 DEF Tools!Answer
<1>3. x.runner = Tools!Runner /\ x.real = Tools!Real /\ x.cost = Tools!AgentCost(Tools!Runner)
  BY <1>1
<1>4. PICK S : rounds \in Seq(S)
  BY DEF ToolsInv, ToolsTyped
<1> DEFINE T == S \cup {x}
<1>5. rounds \in Seq(T) /\ x \in T
  <2>1. Len(rounds) \in Nat /\ rounds \in [1 .. Len(rounds) -> S]
    BY <1>4
  <2>2. rounds \in [1 .. Len(rounds) -> T]
    BY <2>1
  <2> QED BY <2>1, <2>2
<1>6. /\ rounds' \in Seq(T) /\ DOMAIN rounds' = 1 .. Len(rounds) + 1 /\ DOMAIN rounds = 1 .. Len(rounds)
      /\ Len(rounds) \in Nat
      /\ rounds'[Len(rounds) + 1] = x /\ \A i \in 1 .. Len(rounds) : rounds'[i] = rounds[i]
  <2> HIDE DEF T
  <2> QED BY <1>2, <1>5
<1>7. ASSUME x.runner \in Priced \ {"pydanticai"}, x.runner = "grok" => reports # {"details"}
      PROVE  x.cost = x.real
  <2>1. /\ usage \in [requests : Nat, searches : Nat, last : Nat, asked : Nat, billed : Nat]
        /\ usage.billed = usage.requests + usage.searches
        /\ usage.asked > 0 => Tools!Runner = "pydanticai" /\ reports \subseteq {"ticks", "details"}
    BY DEF ToolsInv, ToolsTyped, BillsKnown
  <2>2. usage.asked = 0
    BY <1>3, <1>7, <2>1
  <2>3. Tools!Real = usage.requests + usage.searches
    BY <2>1, <2>2 DEF Tools!Real
  <2>4. Tools!TokenCost(Tools!Runner) = usage.requests
    BY <1>3, <1>7 DEF Tools!TokenCost
  <2>5. CASE Tools!Runner = "grok"
    <3>1. "ticks" \in reports \/ "details" \notin reports
      BY <1>3, <1>7, <2>5 DEF ToolsInv, ToolsTyped
    <3>2. "details" \notin reports => Tools!Searches(Tools!Runner) = usage.searches
      BY <2>5 DEF Tools!Searches
    <3> QED BY <1>3, <2>3, <2>4, <2>5, <3>1, <3>2 DEF Tools!AgentCost
  <2>6. CASE Tools!Runner # "grok"
    <3>1. Tools!Searches(Tools!Runner) = usage.searches
      BY <1>3, <1>7, <2>6 DEF Tools!Searches
    <3> QED BY <1>3, <2>3, <2>4, <2>6, <3>1 DEF Tools!AgentCost
  <2> QED BY <2>5, <2>6
<1>8. Tools!CostKnown'
  <2> SUFFICES ASSUME NEW i \in DOMAIN rounds',
                      rounds'[i].runner \in Priced \ {"pydanticai"},
                      rounds'[i].runner = "grok" => reports # {"details"}
               PROVE  rounds'[i].cost = rounds'[i].real
    BY <1>2 DEF Tools!CostKnown
  <2>1. CASE i \in 1 .. Len(rounds)
    BY <1>6, <2>1 DEF ToolsInv, BillsKnown, Tools!CostKnown
  <2>2. CASE i = Len(rounds) + 1
    BY <1>6, <1>7, <2>2
  <2> QED BY <1>6, <2>1, <2>2
<1>9. reports' \subseteq {"ticks", "details"}
  BY <1>2 DEF ToolsInv, ToolsTyped
<1> QED BY <1>2, <1>6, <1>8, <1>9, NothingAsked

LEMMA ToolsNext == ToolsInv /\ (Tools!Next \/ UNCHANGED toolVars) => ToolsInv'
<1> SUFFICES ASSUME ToolsInv, Tools!Next \/ UNCHANGED toolVars PROVE ToolsInv'
  OBVIOUS
<1>1. CASE Tools!NextAgent
  <2>1. /\ turn' = 0 /\ todo' = <<>> /\ traces' = {} /\ usage' = Tools!NoUsage
        /\ UNCHANGED <<reports, rounds>>
    BY <1>1 DEF Tools!NextAgent
  <2>2. PICK S : rounds' \in Seq(S)
    BY <2>1 DEF ToolsInv, ToolsTyped
  <2>3. Tools!CostKnown' /\ reports' \subseteq {"ticks", "details"}
    BY <2>1 DEF ToolsInv, ToolsTyped, BillsKnown, Tools!CostKnown
  <2> QED BY <2>1, <2>2, <2>3, NothingAsked
<1>2. CASE Tools!Ask
  BY <1>2, ToolsAsk
<1>3. CASE Tools!ExecuteCalls \/ Tools!CallsAnswered
  BY <1>3, CallsExecuted
<1>4. CASE Tools!Fail
  <2>1. /\ toolPhase' = "over" /\ UNCHANGED <<pipe, reports, rounds, turn, todo, traces, usage>>
    BY <1>4 DEF Tools!Fail
  <2> QED BY <2>1 DEF ToolsInv, ToolsTyped, BillsKnown, SearchesCounted, SearchesTraced, Tools!CostKnown,
                      Tools!Runner, XAsked, XBusy, XCalls
<1>5. CASE Tools!Answer
  BY <1>5, AnswersKnown
<1>6. ASSUME NEW c \in DOMAIN todo, Tools!StartCall(c) \/ Tools!EndCall(c) PROVE ToolsInv'
  BY <1>6, CallStarts, CallEnds
<1>7. CASE UNCHANGED toolVars
  BY <1>7 DEF toolVars, ToolsInv, ToolsTyped, BillsKnown, SearchesCounted, SearchesTraced,
              Tools!CostKnown, Tools!Runner, XAsked, XBusy, XCalls
<1> QED BY <1>1, <1>2, <1>3, <1>4, <1>5, <1>6, <1>7 DEF Tools!Next

LEMMA ToolsBounded == ToolsInv => Tools!XSearchesBounded /\ Tools!CostKnown
BY DEF ToolsInv, BillsKnown, SearchesCounted, Tools!XSearchesBounded

-----------------------------------------------------------------------------
SpendingInv ==
  /\ part = "follow_ups" => FollowUpsInv
  /\ part = "agents" => AgentsInv
  /\ part = "tools" => ToolsInv

(* Whatever is aborted, lost, late or asked for at once, what follow-ups   *)
(* and pipelines really cost exceeds their limits (max_cost_usd) by no     *)
(* more than what was under way, an agent asks for as many searches as its *)
(* limit and one response allow, and the budget counts what an agent cost. *)
THEOREM SpendingIsBounded == Spec => []SpendingBounded
<1>1. Init => SpendingInv
  BY FollowUpsInitially, AgentsInitially, ToolsInitially DEF Init, SpendingInv
<1>2. SpendingInv /\ [Next]_vars => SpendingInv'
  <2> SUFFICES ASSUME SpendingInv, [Next]_vars PROVE SpendingInv'
    OBVIOUS
  <2>0. part' = part
    BY DEF Next, vars
  <2>1. part = "follow_ups" => FollowUpsInv'
    BY FollowUpsStep, FollowUpsNext DEF SpendingInv
  <2>2. part = "agents" => AgentsInv'
    BY AgentsStep, AgentsNext DEF SpendingInv
  <2>3. part = "tools" => ToolsInv'
    BY ToolsStep, ToolsNext DEF SpendingInv
  <2> QED BY <2>0, <2>1, <2>2, <2>3 DEF SpendingInv
<1>3. SpendingInv => SpendingBounded
  BY FollowUpsBounded, AgentsBounded, ToolsBounded DEF SpendingInv, SpendingBounded
<1> QED BY <1>1, <1>2, <1>3, PTL DEF Spec

-----------------------------------------------------------------------------
(* The first explorer.                                                     *)

(* What a step of the composition is for the first explorer.               *)
LEMMA PhasesStep ==
  ASSUME [Next]_vars, part = "two_phase"
  PROVE  part' = "two_phase" /\ (TwoPhases!Next \/ UNCHANGED phaseVars)
BY DEF Next, NextTrade, NextExplore, NextFeed, vars, exploreVars

ToolNames == {"google_search", "x_search", "price_check", "volume_check", "web_search", "none"}

Bills == [tool : ToolNames, cost : Nat]

CostsOf(q) == [i \in 1 .. Len(q) |-> q[i].cost]

PhasesTyped ==
  /\ trace \in Seq(Bills) /\ total \in Nat /\ billed \in Nat
  /\ \E S : followed \in Seq(S)

(* What the exploration reports is what it was billed and what its traces  *)
(* say, unless it has failed.                                              *)
Reported == pc # "failed" => total = billed /\ total = Total(CostsOf(trace))

(* The tools of the follow-ups, none of which is made before the second    *)
(* phase, are the used ones; and the follow-ups are orthogonal.            *)
ToolsBefore(j) == {TwoPhases!Tool(followed[i].did) : i \in 1 .. j - 1}

FollowedUp ==
  /\ pc \in {"choose", "phase1"} => followed = <<>>
  /\ usedTools = ToolsBefore(Len(followed) + 1)
  /\ \A j \in DOMAIN followed :
       TwoPhases!Tool(followed[j].did) \in ToolsBefore(j) =>
         \A a \in idea[followed[j].hypothesis] \cap TwoPhases!ToSet(TwoPhases!Menu2) :
           TwoPhases!Tool(a) \in ToolsBefore(j)

PhasesInv == PhasesTyped /\ Reported /\ FollowedUp

(* They are numbers, one for each trace.                                   *)
LEMMA TraceCostsTyped ==
  ASSUME NEW q \in Seq(Bills)
  PROVE  CostsOf(q) \in Seq(Int) /\ Len(CostsOf(q)) = Len(q)
<1>1. Len(q) \in Nat
  BY LenProperties
<1>2. \A i \in 1 .. Len(q) : q[i].cost \in Int
  <2>1. \A i \in 1 .. Len(q) : q[i] \in Bills
    BY ElementOfSeq
  <2> QED BY <2>1 DEF Bills
<1>3. CostsOf(q) \in [1 .. Len(q) -> Int]
  BY <1>2 DEF CostsOf
<1> QED BY <1>1, <1>3

(* The sum of the property as a sum over a function.                       *)
LEMMA CostsAreSum ==
  ASSUME NEW S
  PROVE  TwoPhases!MapThenSumSet(LAMBDA i : trace[i].cost, S) = SumOver([i \in S |-> trace[i].cost], S)
<1>0. PICK f : f = [i \in S |-> trace[i].cost]
  OBVIOUS
<1>2. \A h : [s \in SUBSET S |-> IF s = {} THEN 0 ELSE trace[Chosen(s)].cost + h[s \ {Chosen(s)}]]
           = [s \in SUBSET S |-> IF s = {} THEN 0 ELSE f[Chosen(s)] + h[s \ {Chosen(s)}]]
  BY <1>0 DEF Chosen
<1>3. (CHOOSE h : h = [s \in SUBSET S |-> IF s = {} THEN 0
                           ELSE trace[Chosen(s)].cost + h[s \ {Chosen(s)}]])
    = (CHOOSE h : h = [s \in SUBSET S |-> IF s = {} THEN 0
                           ELSE f[Chosen(s)] + h[s \ {Chosen(s)}]])
  BY <1>2, Zenon
<1>4. SumOver(f, S) = (CHOOSE h : h = [s \in SUBSET S |-> IF s = {} THEN 0
                           ELSE f[Chosen(s)] + h[s \ {Chosen(s)}]])[S]
  BY DEF SumOver, Summing
<1>5. TwoPhases!MapThenSumSet(LAMBDA i : trace[i].cost, S) =
        (CHOOSE h : h = [s \in SUBSET S |-> IF s = {} THEN 0
                           ELSE trace[Chosen(s)].cost + h[s \ {Chosen(s)}]])[S]
  BY DEF Chosen, TwoPhases!MapThenSumSet, TwoPhases!MapThenFoldSet
<1> QED BY <1>0, <1>3, <1>4, <1>5

(* The invariant has what the property says.                               *)
LEMMA PhasesOrthogonal == PhasesInv => TwoPhases!Orthogonal
<1> SUFFICES ASSUME PhasesInv PROVE TwoPhases!Orthogonal
  OBVIOUS
<1>1. \A j \in DOMAIN followed :
        LET before == {TwoPhases!Tool(followed[i].did) : i \in 1..(j - 1)}
        IN TwoPhases!Tool(followed[j].did) \in before
             => \A a \in idea[followed[j].hypothesis] \cap TwoPhases!ToSet(TwoPhases!Menu2) :
                  TwoPhases!Tool(a) \in before
  BY DEF PhasesInv, FollowedUp, ToolsBefore
<1>2. PICK q \in Seq(Bills) : q = trace
  BY DEF PhasesInv, PhasesTyped
<1>3. DOMAIN trace = 1 .. Len(q) /\ Len(CostsOf(q)) = Len(q)
  BY <1>2, TraceCostsTyped
<1>4. TwoPhases!MapThenSumSet(LAMBDA i : trace[i].cost, DOMAIN trace)
        = SumOver([i \in DOMAIN trace |-> trace[i].cost], DOMAIN trace)
  <2> PICK W : W = DOMAIN trace
    OBVIOUS
  <2>1. TwoPhases!MapThenSumSet(LAMBDA i : trace[i].cost, W) = SumOver([i \in W |-> trace[i].cost], W)
    BY CostsAreSum
  <2> QED BY <2>1
<1>5. SumOver([i \in DOMAIN trace |-> trace[i].cost], DOMAIN trace) = Total(CostsOf(trace))
  BY <1>2, <1>3 DEF Total, CostsOf
<1> QED BY <1>1, <1>4, <1>5 DEF TwoPhases!Orthogonal, PhasesInv, Reported

(* Initially nothing is traced, billed or followed up.                     *)
LEMMA PhasesInitially == TwoPhases!Init => PhasesInv
<1> SUFFICES ASSUME TwoPhases!Init PROVE PhasesInv
  OBVIOUS
<1>1. /\ pc = "choose" /\ trace = <<>> /\ total = 0 /\ billed = 0
      /\ followed = <<>> /\ usedTools = {}
  BY DEF TwoPhases!Init
<1>2. PhasesTyped
  <2>1. followed \in Seq({}) /\ trace \in Seq(Bills)
    BY <1>1
  <2> QED BY <1>1, <2>1 DEF PhasesTyped
<1>3. CostsOf(trace) = <<>>
  BY <1>1 DEF CostsOf
<1>4. Reported
  BY <1>1, <1>3, TotalOfNone DEF Reported
<1>5. FollowedUp
  <2>1. Len(followed) = 0 /\ DOMAIN followed = {} /\ 1 .. 0 + 1 - 1 = {}
    BY <1>1
  <2> QED BY <1>1, <2>1 DEF FollowedUp, ToolsBefore
<1> QED BY <1>2, <1>4, <1>5 DEF PhasesInv

(* Every action has one of these tools.                                    *)
LEMMA ToolNamed ==
  /\ \A a : TwoPhases!Tool(a) \in ToolNames /\ TwoPhases!RunTool(TwoPhases!Tool(a)) \in ToolNames
  /\ TwoPhases!OwnSearch \in ToolNames
<1>1. \A a : TwoPhases!Tool(a) \in ToolNames
  BY DEF TwoPhases!Tool, ToolNames
<1>2. TwoPhases!OwnSearch \in ToolNames
  BY DEF TwoPhases!OwnSearch, ToolNames
<1>3. \A t \in ToolNames : TwoPhases!RunTool(t) \in ToolNames
  BY DEF TwoPhases!RunTool, ToolNames
<1> QED BY <1>1, <1>2, <1>3

(* A call that is answered costs what its trace says.                      *)
LEMMA PaysIt ==
  ASSUME PhasesTyped, Reported, pc # "failed", NEW tool \in ToolNames, NEW fee \in Nat,
         TwoPhases!Pay(tool, fee)
  PROVE  /\ trace' \in Seq(Bills) /\ total' \in Nat /\ billed' \in Nat
         /\ total' = billed' /\ total' = Total(CostsOf(trace'))
<1>0. PICK b : b = [tool |-> tool, cost |-> fee]
  OBVIOUS
<1>1. PICK q \in Seq(Bills) : q = trace
  BY DEF PhasesTyped
<1>2. /\ b \in Bills /\ b.cost = fee /\ trace' = Append(q, b)
      /\ total' = total + fee /\ billed' = billed + fee
  BY <1>0, <1>1 DEF TwoPhases!Pay, Bills
<1>3. PICK r \in Seq(Bills) : r = Append(q, b)
  BY <1>2, AppendProperties
<1>4. /\ Len(r) = Len(q) + 1 /\ Len(q) \in Nat /\ \A i \in 1 .. Len(q) : r[i] = q[i]
      /\ r[Len(q) + 1] = b
  BY <1>2, <1>3, AppendProperties, LenProperties
<1>5. PICK c \in Seq(Int) : c = CostsOf(q) /\ Len(c) = Len(q)
  BY TraceCostsTyped
<1>6. PICK d \in Seq(Int) : d = CostsOf(r) /\ Len(d) = Len(r)
  BY TraceCostsTyped
<1>7. PICK e : e = <<fee>> /\ e \in Seq(Int) /\ Len(e) = 1 /\ e[1] = fee
  <2>1. <<fee>> \in Seq(Int) /\ Len(<<fee>>) = 1 /\ <<fee>>[1] = fee
    OBVIOUS
  <2> QED BY <2>1
<1>8. d = c \o e
  <2>1. \A i \in 1 .. Len(q) : c[i] = q[i].cost
    BY <1>5 DEF CostsOf
  <2>2. \A i \in 1 .. Len(r) : d[i] = r[i].cost
    BY <1>6 DEF CostsOf
  <2>3. PICK g : g = c \o e
    OBVIOUS
  <2>4. /\ g \in Seq(Int) /\ Len(g) = Len(c) + 1
        /\ \A i \in 1 .. Len(c) : g[i] = c[i]
        /\ g[Len(c) + 1] = fee
    <3>1. Len(c) \in Nat /\ g \in Seq(Int) /\ Len(g) = Len(c) + 1
      BY <1>5, <1>7, <2>3, ConcatProperties, LenProperties
    <3>2. \A i \in 1 .. Len(c) + 1 : g[i] = IF i <= Len(c) THEN c[i] ELSE e[i - Len(c)]
      BY <1>5, <1>7, <2>3, ConcatProperties
    <3>3. ASSUME NEW i \in 1 .. Len(c) PROVE g[i] = c[i]
      <4>1. i \in 1 .. Len(c) + 1 /\ i <= Len(c)
        BY <3>1
      <4> QED BY <3>2, <4>1
    <3>4. Len(c) + 1 \in 1 .. Len(c) + 1 /\ ~(Len(c) + 1 <= Len(c)) /\ (Len(c) + 1) - Len(c) = 1
      BY <3>1
    <3>5. g[Len(c) + 1] = e[(Len(c) + 1) - Len(c)]
      BY <3>2, <3>4
    <3> QED BY <1>7, <3>1, <3>3, <3>4, <3>5
  <2>5. \A i \in 1 .. Len(d) : d[i] = g[i]
    <3> SUFFICES ASSUME NEW i \in 1 .. Len(d) PROVE d[i] = g[i]
      OBVIOUS
    <3>1. CASE i \in 1 .. Len(q)
      BY <1>4, <1>5, <1>6, <2>1, <2>2, <2>4, <3>1
    <3>2. CASE i = Len(q) + 1
      BY <1>2, <1>4, <1>5, <1>6, <2>2, <2>4, <3>2
    <3> QED BY <1>4, <1>6, <3>1, <3>2
  <2>6. d \in Seq(Int) /\ Len(d) = Len(g)
    BY <1>4, <1>5, <1>6, <2>4
  <2> QED BY <2>3, <2>4, <2>5, <2>6, SeqEqual
<1>9. Total(d) = Total(c) + Total(e) /\ Total(e) = fee
  <2>1. Total(d) = Total(c) + Total(e)
    BY <1>5, <1>7, <1>8, TotalAdds
  <2>2. Total(<<fee>>) = fee
    BY TotalOfOne
  <2> QED BY <1>7, <2>1, <2>2
<1>10. total = Total(c) /\ total = billed /\ total \in Nat /\ billed \in Nat
  BY <1>1, <1>5 DEF Reported, PhasesTyped
<1>11. total' \in Nat /\ billed' \in Nat /\ total' = billed' /\ total' = Total(d)
  BY <1>2, <1>9, <1>10
<1> QED BY <1>2, <1>3, <1>6, <1>11

(* A step that leaves the follow-ups alone, before the second phase or     *)
(* with the ideas unchanged.                                               *)
LEMMA FollowUpsStand ==
  ASSUME FollowedUp, UNCHANGED <<followed, usedTools>>, UNCHANGED idea \/ followed = <<>>,
         pc' \in {"choose", "phase1"} => pc \in {"choose", "phase1"}
  PROVE  FollowedUp'
<1>1. /\ Len(followed') = Len(followed) /\ DOMAIN followed' = DOMAIN followed
      /\ \A j : ToolsBefore(j)' = ToolsBefore(j)
  BY DEF ToolsBefore
<1>2. pc' \in {"choose", "phase1"} => followed' = <<>>
  BY DEF FollowedUp
<1>3. usedTools' = ToolsBefore(Len(followed) + 1)
  BY DEF FollowedUp
<1>4. CASE UNCHANGED idea
  BY <1>1, <1>2, <1>3, <1>4 DEF FollowedUp, ToolsBefore
<1>5. CASE followed = <<>>
  <2>1. DOMAIN followed' = {}
    BY <1>5
  <2> QED BY <1>1, <1>2, <1>3, <2>1 DEF FollowedUp, ToolsBefore
<1> QED BY <1>4, <1>5

(* Where the tool of the action that is taken has been used, the hypothesis *)
(* suggests no other.                                                      *)
LEMMA NoOther ==
  ASSUME NEW h, NEW a, TwoPhases!Tool(TwoPhases!Instead(h, a)) \in usedTools
  PROVE  \A b \in idea[h] \cap TwoPhases!ToSet(TwoPhases!Menu2) : TwoPhases!Tool(b) \in usedTools
<1> DEFINE S == TwoPhases!Alternatives(h)
<1>1. S \subseteq 1 .. 6 /\ \A i \in S : TwoPhases!Tool(TwoPhases!Menu2[i]) \notin usedTools
  <2>1. DOMAIN TwoPhases!Menu2 = 1 .. 6
    BY DEF TwoPhases!Menu2
  <2> QED BY <2>1 DEF TwoPhases!Alternatives
<1>2. ASSUME S # {} PROVE TwoPhases!Min(S) \in S
  <2>1. \E i \in S : \A j \in S : i <= j
    <3> HIDE DEF S
    <3>1. S \subseteq Nat
      BY <1>1
    <3> QED BY <1>2, <3>1, LeastNat
  <2> HIDE DEF S
  <2> QED BY <2>1 DEF TwoPhases!Min
<1>3. S = {}
  <2> SUFFICES ASSUME S # {} PROVE FALSE
    OBVIOUS
  <2>1. CASE TwoPhases!Tool(a) \in usedTools
    BY <1>1, <1>2, <2>1 DEF TwoPhases!Instead
  <2>2. CASE TwoPhases!Tool(a) \notin usedTools
    BY <2>2 DEF TwoPhases!Instead
  <2> QED BY <2>1, <2>2
<1> QED BY <1>3 DEF TwoPhases!Alternatives, TwoPhases!ToSet

(* A follow-up is made.                                                    *)
LEMMA FollowsUp ==
  ASSUME PhasesInv, NEW h, NEW a, TwoPhases!FollowUp(h, a)
  PROVE  PhasesInv'
<1>1. PICK did : did = TwoPhases!Instead(h, a)
  OBVIOUS
<1>2. PICK f : f = [hypothesis |-> h, did |-> did]
  OBVIOUS
<1>3. PICK fee \in ActionFees : TwoPhases!Pay(TwoPhases!RunTool(TwoPhases!Tool(did)), fee)
  BY <1>1 DEF TwoPhases!FollowUp
<1>4. /\ pc = "phase2" /\ pc' \in {"phase2", "done"} /\ UNCHANGED idea
      /\ usedTools' = usedTools \cup {TwoPhases!Tool(did)} /\ followed' = Append(followed, f)
      /\ f.did = did /\ f.hypothesis = h
  BY <1>1, <1>2 DEF TwoPhases!FollowUp, TwoPhases!MayFollow, TwoPhases!MarkUsed
<1>5. PICK S : followed \in Seq(S)
  BY DEF PhasesInv, PhasesTyped
<1>6. PICK T : T = S \cup {f}
  OBVIOUS
<1>7. followed \in Seq(T) /\ f \in T
  <2>1. Len(followed) \in Nat /\ followed \in [1 .. Len(followed) -> S]
    BY <1>5
  <2>2. followed \in [1 .. Len(followed) -> T]
    BY <1>6, <2>1
  <2> QED BY <1>6, <2>1, <2>2
<1>8. PICK n \in Nat : n = Len(followed)
  BY <1>7
<1>9. /\ followed' \in Seq(T) /\ DOMAIN followed' = 1 .. n + 1 /\ DOMAIN followed = 1 .. n
      /\ Len(followed') = n + 1 /\ followed'[n + 1] = f
      /\ \A i \in 1 .. n : followed'[i] = followed[i]
  BY <1>4, <1>7, <1>8
<1>10. fee \in Nat /\ TwoPhases!RunTool(TwoPhases!Tool(did)) \in ToolNames
  BY PhasesAssumption, ToolNamed
<1>11. PhasesTyped' /\ Reported'
  <2>1. PICK tool \in ToolNames : tool = TwoPhases!RunTool(TwoPhases!Tool(did))
    BY <1>10
  <2>2. /\ trace' \in Seq(Bills) /\ total' \in Nat /\ billed' \in Nat
        /\ total' = billed' /\ total' = Total(CostsOf(trace'))
    BY <1>3, <1>4, <1>10, <2>1, PaysIt DEF PhasesInv
  <2> QED BY <1>9, <2>2 DEF PhasesTyped, Reported
<1>12. \A j \in 1 .. n + 1 : ToolsBefore(j)' = ToolsBefore(j)
  <2> SUFFICES ASSUME NEW j \in 1 .. n + 1 PROVE ToolsBefore(j)' = ToolsBefore(j)
    OBVIOUS
  <2>1. \A i \in 1 .. j - 1 : followed'[i] = followed[i]
    BY <1>8, <1>9
  <2> QED BY <2>1 DEF ToolsBefore
<1>13. usedTools = ToolsBefore(n + 1)
  BY <1>8 DEF PhasesInv, FollowedUp
<1>14. usedTools' = ToolsBefore(Len(followed) + 1)'
  <2>1. 1 .. (n + 1) + 1 - 1 = (1 .. n + 1 - 1) \cup {n + 1}
    BY <1>8
  <2>2. \A i \in 1 .. n + 1 - 1 : followed'[i] = followed[i]
    BY <1>8, <1>9
  <2>3. {TwoPhases!Tool(followed'[i].did) : i \in 1 .. (n + 1) + 1 - 1}
          = {TwoPhases!Tool(followed[i].did) : i \in 1 .. n + 1 - 1} \cup {TwoPhases!Tool(did)}
    BY <1>4, <1>9, <2>1, <2>2
  <2> QED BY <1>4, <1>9, <1>13, <2>3 DEF ToolsBefore
<1>15. ASSUME NEW j \in 1 .. n + 1, TwoPhases!Tool(followed'[j].did) \in ToolsBefore(j)
       PROVE  \A b \in idea[followed'[j].hypothesis] \cap TwoPhases!ToSet(TwoPhases!Menu2) :
                TwoPhases!Tool(b) \in ToolsBefore(j)
  <2>1. CASE j = n + 1
    <3>1. TwoPhases!Tool(TwoPhases!Instead(h, a)) \in usedTools
      BY <1>1, <1>4, <1>9, <1>13, <1>15, <2>1
    <3> QED BY <1>4, <1>9, <1>13, <2>1, <3>1, NoOther
  <2>2. CASE j \in 1 .. n
    BY <1>9, <1>15, <2>2 DEF PhasesInv, FollowedUp
  <2> QED BY <1>8, <2>1, <2>2
<1>16. \A j \in DOMAIN followed' :
         TwoPhases!Tool(followed'[j].did) \in ToolsBefore(j)' =>
           \A b \in idea'[followed'[j].hypothesis] \cap TwoPhases!ToSet(TwoPhases!Menu2) :
             TwoPhases!Tool(b) \in ToolsBefore(j)'
  BY <1>4, <1>9, <1>12, <1>15
<1>17. FollowedUp'
  BY <1>4, <1>14, <1>16 DEF FollowedUp
<1> QED BY <1>11, <1>17 DEF PhasesInv

(* Every step of the first explorer keeps its invariant.                   *)
LEMMA PhasesNext == PhasesInv /\ (TwoPhases!Next \/ UNCHANGED phaseVars) => PhasesInv'
<1> SUFFICES ASSUME PhasesInv, TwoPhases!Next \/ UNCHANGED phaseVars PROVE PhasesInv'
  OBVIOUS
<1>1. ASSUME NEW tool \in ToolNames, NEW fee \in ActionFees \cup {0}, TwoPhases!Pay(tool, fee),
             pc # "failed", UNCHANGED followed
      PROVE  PhasesTyped' /\ Reported'
  <2>1. fee \in Nat
    BY PhasesAssumption
  <2>2. /\ trace' \in Seq(Bills) /\ total' \in Nat /\ billed' \in Nat
        /\ total' = billed' /\ total' = Total(CostsOf(trace'))
    BY <1>1, <2>1, PaysIt DEF PhasesInv
  <2> QED BY <1>1, <2>2 DEF PhasesInv, PhasesTyped, Reported
<1>2. ASSUME UNCHANGED <<trace, total, billed, followed>>, pc' # "failed" => pc # "failed"
      PROVE  PhasesTyped' /\ Reported'
  BY <1>2 DEF PhasesInv, PhasesTyped, Reported, CostsOf
<1>3. CASE TwoPhases!Choose
  <2>1. PhasesTyped' /\ Reported'
    BY <1>2, <1>3 DEF TwoPhases!Choose
  <2>2. FollowedUp'
    BY <1>3, FollowUpsStand DEF TwoPhases!Choose, PhasesInv
  <2> QED BY <2>1, <2>2 DEF PhasesInv
<1>4. CASE TwoPhases!Broad
  <2>1. PICK a : a = Head(picked)
    OBVIOUS
  <2>2. PICK tool \in ToolNames, fee \in ActionFees \cup {0} : TwoPhases!Pay(tool, fee)
    BY <1>4, <2>1, ToolNamed DEF TwoPhases!Broad
  <2>3. PhasesTyped' /\ Reported'
    BY <1>1, <1>4, <2>2 DEF TwoPhases!Broad
  <2>4. FollowedUp'
    BY <1>4, FollowUpsStand DEF TwoPhases!Broad, PhasesInv
  <2> QED BY <2>3, <2>4 DEF PhasesInv
<1>5. CASE TwoPhases!Propose
  <2>1. PICK fee \in ActionFees : TwoPhases!Pay(TwoPhases!OwnSearch, fee)
    BY <1>5 DEF TwoPhases!Propose
  <2>2. pc = "phase1" /\ pc' \in {"done", "rank"} /\ UNCHANGED <<followed, usedTools>>
    BY <1>5 DEF TwoPhases!Propose
  <2>3. PhasesTyped' /\ Reported'
    BY <1>1, <2>1, <2>2, ToolNamed
  <2>4. followed = <<>>
    BY <2>2 DEF PhasesInv, FollowedUp
  <2>5. FollowedUp'
    BY <2>2, <2>4, FollowUpsStand DEF PhasesInv
  <2> QED BY <2>3, <2>5 DEF PhasesInv
<1>6. CASE TwoPhases!Rank
  <2>1. PICK fee \in ActionFees : TwoPhases!Pay(TwoPhases!OwnSearch, fee)
    BY <1>6 DEF TwoPhases!Rank
  <2>2. pc = "rank" /\ pc' = "phase2" /\ UNCHANGED <<idea, followed, usedTools>>
    BY <1>6 DEF TwoPhases!Rank
  <2>3. PhasesTyped' /\ Reported'
    BY <1>1, <2>1, <2>2, ToolNamed
  <2>4. FollowedUp'
    BY <2>2, FollowUpsStand DEF PhasesInv
  <2> QED BY <2>3, <2>4 DEF PhasesInv
<1>7. CASE TwoPhases!SkipItem \/ TwoPhases!Finish
  <2>1. /\ UNCHANGED <<trace, total, billed, idea, followed, usedTools>>
        /\ pc = "phase2" /\ pc' \in {"phase2", "done"}
    BY <1>7 DEF TwoPhases!SkipItem, TwoPhases!Finish, TwoPhases!MayFollow
  <2>2. PhasesTyped' /\ Reported'
    BY <1>2, <2>1
  <2>3. FollowedUp'
    BY <2>1, FollowUpsStand DEF PhasesInv
  <2> QED BY <2>2, <2>3 DEF PhasesInv
<1>8. CASE TwoPhases!Raise
  <2>1. PICK fee \in ActionFees \cup {0} : billed' = billed + fee
    BY <1>8 DEF TwoPhases!Raise
  <2>2. /\ pc' = "failed" /\ trace' = <<>> /\ total' = 0
        /\ UNCHANGED <<idea, followed, usedTools>>
    BY <1>8 DEF TwoPhases!Raise
  <2>3. fee \in Nat /\ trace' \in Seq(Bills)
    BY <2>2, PhasesAssumption
  <2>4. PhasesTyped' /\ Reported'
    BY <2>1, <2>2, <2>3 DEF PhasesInv, PhasesTyped, Reported
  <2>5. FollowedUp'
    BY <2>2, FollowUpsStand DEF PhasesInv
  <2> QED BY <2>4, <2>5 DEF PhasesInv
<1>9. ASSUME NEW h \in DOMAIN idea, NEW a \in TwoPhases!ToSet(TwoPhases!Menu2), TwoPhases!FollowUp(h, a)
      PROVE  PhasesInv'
  BY <1>9, FollowsUp
<1>10. CASE UNCHANGED phaseVars
  <2>1. PhasesTyped' /\ Reported'
    BY <1>2, <1>10 DEF phaseVars
  <2>2. FollowedUp'
    BY <1>10, FollowUpsStand DEF phaseVars, PhasesInv
  <2> QED BY <2>1, <2>2 DEF PhasesInv
<1> QED BY <1>3, <1>4, <1>5, <1>6, <1>7, <1>8, <1>9, <1>10 DEF TwoPhases!Next

-----------------------------------------------------------------------------
(* What agents are told.                                                   *)

(* What a call or a result can be about.                                   *)
Known(r) == \/ r.tool = "search"
            \/ r.tool \in Tools!WithoutSymbol /\ r.symbol = None
            \/ /\ r.tool \notin Tools!WithoutSymbol
               /\ r.symbol \in {ArticleSymbols[i] : i \in DOMAIN ArticleSymbols} \cup Peers

(* Of agents that answered and of the running one.  Its prompt has what    *)
(* they have found.                                                        *)
Told ==
  /\ \A i \in DOMAIN rounds : \A r \in rounds[i].results : Known(r)
  /\ \A c \in traces \cup calls \cup DOMAIN todo : Known(c)
  /\ toolPhase \notin {"next", "over"} => prompt = Tools!Prompt

(* The invariant has what the property says.                               *)
LEMMA FindingsAreTold == Told => Tools!FindingsTold
<1> SUFFICES ASSUME Told, toolPhase \notin {"next", "over"}, NEW i \in DOMAIN rounds,
                    NEW r \in rounds[i].results, r.tool # "search", r \notin prompt
             PROVE  /\ r.tool \in DOMAIN Tools!SectionOf
                    /\ [section |-> Tools!SectionOf[r.tool], symbol |-> r.symbol] \in Tools!Tried
  BY DEF Tools!FindingsTold
<1>1. r \notin Tools!Ledger(rounds[i].results)
  BY DEF Told, Tools!Prompt
<1>2. Tools!Omitted(r)
  BY <1>1 DEF Tools!Ledger
<1>3. Known(r)
  BY DEF Told
<1>4. /\ r.tool \in {"check_price", "get_fundamentals", "get_technical_indicators",
                     "check_options_activity", "check_volume_regime", "check_price_spike",
                     "check_insider_activity", "get_company_news", "get_analyst_ratings",
                     "get_price_history", "check_market_context"}
      /\ r.tool \in DOMAIN Tools!SectionOf
  BY <1>2 DEF Tools!Omitted, Tools!SectionOf
<1>5. CASE r.tool = "check_market_context"
  <2>1. r.symbol = None
    BY <1>3, <1>5 DEF Known, Tools!WithoutSymbol
  <2>2. Tools!SectionOf[r.tool] = "context"
    BY <1>5 DEF Tools!SectionOf
  <2> QED BY <1>4, <2>1, <2>2 DEF Tools!Tried, Tools!Market
<1>6. CASE r.tool # "check_market_context"
  <2>1. r.symbol # None
    BY <1>3, <1>4, <1>6, ToolsAssumption DEF Known, Tools!WithoutSymbol
  <2>2. r.symbol \in Tools!First(Few)
    BY <1>2, <2>1 DEF Tools!Omitted
  <2>3. Tools!SectionOf[r.tool] \in Tools!Sections
    BY <1>4, <1>6 DEF Tools!SectionOf, Tools!Sections, Tools!PriceSections, Tools!TechnicalSections,
       Tools!ActivitySections, Tools!AnalystSections, Tools!NewsSections
  <2> QED BY <1>4, <2>2, <2>3 DEF Tools!Tried
<1> QED BY <1>5, <1>6

(* Initially nothing is found.                                             *)
LEMMA ToldInitially == Tools!Init => Told
BY DEF Tools!Init, Told

(* A call and its trace are about the same.                                *)
LEMMA TracesKnown ==
  /\ \A c : Known(c) => Known(Tools!Trace(c))
  /\ \A n : \A t \in Tools!Searched(n) : Known(t)
<1>1. \A c : Known(c) => Known(Tools!Trace(c))
  BY DEF Known, Tools!Trace
<1>2. \A n : \A t \in Tools!Searched(n) : t.tool = "search"
  BY DEF Tools!Searched, Tools!Trace
<1> QED BY <1>1, <1>2 DEF Known

(* Every call of a response is about a symbol, or is one without.          *)
LEMMA CallsKnown ==
  ASSUME NEW runner, NEW cs \in Tools!Responses(runner), NEW c \in cs
  PROVE  Known(c)
<1> PICK tools : tools = Tools!Offered(runner) \cap Used
  OBVIOUS
<1>1. c \in Tools!CallsOf(tools)
  BY DEF Tools!Responses
<1>2. "x_search" \in Tools!WithoutSymbol
  BY DEF Tools!WithoutSymbol
<1>3. \/ c \in [tool : tools \cap Tools!WithoutSymbol, symbol : {None}, nth : {1}]
      \/ c \in [tool : tools \cap {"x_search"}, symbol : {None}, nth : 1 .. MaxCalls]
      \/ c \in [tool : tools \ Tools!WithoutSymbol, nth : {1},
                symbol : {ArticleSymbols[i] : i \in DOMAIN ArticleSymbols} \cup Peers]
  BY <1>1 DEF Tools!CallsOf
<1> QED BY <1>2, <1>3 DEF Known

(* Every step of the tools keeps it.                                       *)
LEMMA ToldNext ==
  ASSUME ToolsInv, Told, Tools!Next \/ UNCHANGED toolVars
  PROVE  Told'
<1>0. ASSUME UNCHANGED <<base, rounds, prompt>>, toolPhase' \notin {"next", "over"} => toolPhase \notin {"next", "over"},
             \A c \in traces' \cup calls' \cup DOMAIN todo' : Known(c)
      PROVE  Told'
  BY <1>0 DEF Told, Tools!Prompt, Known
<1>1. CASE Tools!NextAgent
  <2>1. /\ UNCHANGED <<base, rounds>> /\ prompt' = Tools!Prompt
        /\ traces' = {} /\ calls' = {} /\ todo' = <<>> /\ DOMAIN todo' = {}
    BY <1>1 DEF Tools!NextAgent
  <2>2. Tools!Prompt' = Tools!Prompt
    BY <2>1 DEF Tools!Prompt
  <2> QED BY <2>1, <2>2 DEF Told, Known
<1>2. CASE Tools!Ask
  <2>1. PICK cs \in Tools!Responses(Tools!Runner), n \in 0 .. MaxSearches :
          /\ calls' = cs
          /\ todo' = IF Tools!Runner = "pydanticai" THEN [c \in cs |-> "new"] ELSE <<>>
          /\ traces' = traces \cup Tools!Searched(n)
    BY <1>2 DEF Tools!Ask
  <2>2. DOMAIN todo' \subseteq cs
    BY <2>1
  <2>3. \A c \in traces' \cup calls' \cup DOMAIN todo' : Known(c)
    BY <2>1, <2>2, CallsKnown, TracesKnown DEF Told
  <2> QED BY <1>0, <1>2, <2>3 DEF Tools!Ask
<1>3. CASE Tools!ExecuteCalls
  <2>1. /\ traces' = traces \cup Tools!Executed /\ calls' = {} /\ UNCHANGED todo
        /\ toolPhase = "call" /\ UNCHANGED <<base, rounds, prompt>>
    BY <1>3 DEF Tools!ExecuteCalls
  <2>2. \A t \in Tools!Executed : Known(t)
    BY TracesKnown DEF Told, Tools!Executed
  <2>3. \A c \in traces' \cup calls' \cup DOMAIN todo' : Known(c)
    BY <2>1, <2>2 DEF Told
  <2> QED BY <1>0, <2>1, <2>3
<1>4. ASSUME NEW c \in DOMAIN todo, Tools!StartCall(c) PROVE Told'
  <2>1. /\ toolPhase = "call" /\ UNCHANGED <<base, rounds, prompt, calls, traces>>
        /\ todo' = [todo EXCEPT ![c] = "busy"]
    BY <1>4 DEF Tools!StartCall
  <2>2. DOMAIN todo' = DOMAIN todo
    BY <2>1 DEF ToolsInv, ToolsTyped
  <2>3. \A d \in traces' \cup calls' \cup DOMAIN todo' : Known(d)
    BY <2>1, <2>2 DEF Told
  <2> QED BY <1>0, <2>1, <2>3
<1>5. ASSUME NEW c \in DOMAIN todo, Tools!EndCall(c) PROVE Told'
  <2>1. /\ toolPhase = "call" /\ UNCHANGED <<base, rounds, prompt, calls>>
        /\ todo' = [todo EXCEPT ![c] = "done"] /\ traces' = traces \cup {Tools!Trace(c)}
    BY <1>5 DEF Tools!EndCall
  <2>2. DOMAIN todo' = DOMAIN todo
    BY <2>1 DEF ToolsInv, ToolsTyped
  <2>3. \A d \in traces' \cup calls' \cup DOMAIN todo' : Known(d)
    BY <2>1, <2>2, TracesKnown DEF Told
  <2> QED BY <1>0, <2>1, <2>3
<1>6. CASE Tools!CallsAnswered
  <2>1. /\ toolPhase = "call" /\ UNCHANGED <<base, rounds, prompt, traces>> /\ calls' = {}
        /\ todo' = <<>> /\ DOMAIN todo' = {}
    BY <1>6 DEF Tools!CallsAnswered
  <2>3. \A d \in traces' \cup calls' \cup DOMAIN todo' : Known(d)
    BY <2>1 DEF Told
  <2> QED BY <1>0, <2>1, <2>3
<1>7. CASE Tools!Fail
  <2>1. /\ toolPhase' = "over" /\ UNCHANGED <<base, rounds, prompt, traces, calls, todo>>
    BY <1>7 DEF Tools!Fail
  <2> QED BY <1>0, <2>1 DEF Told
<1>8. CASE Tools!Answer
  <2>1. PICK x : x = [runner |-> Tools!Runner, real |-> Tools!Real, cost |-> Tools!AgentCost(Tools!Runner),
                      results |-> {[tool |-> t.tool, symbol |-> t.symbol] : t \in traces}]
    OBVIOUS
  <2>2. /\ rounds' = Append(rounds, x) /\ traces' = {} /\ calls' = {} /\ todo' = <<>>
        /\ DOMAIN todo' = {} /\ toolPhase' = "next"
    BY <1>8, <2>1 DEF Tools!Answer
  <2>3. \A r \in x.results : Known(r)
    BY <2>1 DEF Told, Known
  <2>4. PICK S : rounds \in Seq(S)
    BY DEF ToolsInv, ToolsTyped
  <2> DEFINE T == S \cup {x}
  <2>5. rounds \in Seq(T) /\ x \in T
    <3>1. Len(rounds) \in Nat /\ rounds \in [1 .. Len(rounds) -> S]
      BY <2>4
    <3>2. rounds \in [1 .. Len(rounds) -> T]
      BY <3>1
    <3> QED BY <3>1, <3>2
  <2>6. /\ DOMAIN rounds' = 1 .. Len(rounds) + 1 /\ DOMAIN rounds = 1 .. Len(rounds)
        /\ rounds'[Len(rounds) + 1] = x /\ \A i \in 1 .. Len(rounds) : rounds'[i] = rounds[i]
        /\ Len(rounds) \in Nat
    <3> HIDE DEF T
    <3> QED BY <2>2, <2>5
  <2>7. \A i \in DOMAIN rounds' : \A r \in rounds'[i].results : Known(r)
    BY <2>3, <2>6 DEF Told
  <2> QED BY <2>2, <2>7 DEF Told, Known
<1>9. CASE UNCHANGED toolVars
  BY <1>0, <1>9 DEF toolVars, Told
<1> QED BY <1>1, <1>2, <1>3, <1>4, <1>5, <1>6, <1>7, <1>8, <1>9 DEF Tools!Next

(* Follow-ups of the first explorer repeat a tool only for want of another, *)
(* it reports what it was billed, and what an agent found is told to the   *)
(* agents after it or was to be fetched for them.                          *)
THEOREM FindingsAreKept == Spec => []FindingsKept
<1> DEFINE Inv == /\ part = "two_phase" => PhasesInv
                  /\ part = "tools" => ToolsInv /\ Told
<1>1. Init => Inv
  BY PhasesInitially, ToolsInitially, ToldInitially DEF Init
<1>2. Inv /\ [Next]_vars => Inv'
  <2> SUFFICES ASSUME Inv, [Next]_vars PROVE Inv'
    OBVIOUS
  <2>1. part' = part
    BY DEF Next, vars
  <2>2. CASE part = "two_phase"
    BY <2>1, <2>2, PhasesStep, PhasesNext
  <2>3. CASE part = "tools"
    BY <2>1, <2>3, ToolsStep, ToolsNext, ToldNext
  <2> QED BY <2>1, <2>2, <2>3
<1>3. Inv => FindingsKept
  BY PhasesOrthogonal, FindingsAreTold DEF FindingsKept
<1> QED BY <1>1, <1>2, <1>3, PTL DEF Spec

=============================================================================
