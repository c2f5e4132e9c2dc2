---------------------------- MODULE TradeStreams ----------------------------
(***************************************************************************)
(* Which Alpaca trade streams run.  sync_alpaca_trade_streams compares the *)
(* accounts linked to active configs with the dictionary of streams, stops *)
(* those no longer linked and starts those missing.  It is called after    *)
(* every change of a link by the thread that made it: a handler of the     *)
(* dashboard or an archiving or deleting thread, and once by the watch     *)
(* loop when it has connected the broker pool.  Nothing locks the          *)
(* dictionary.  A stream is a thread that never ends: stop() ends its      *)
(* connection, and its loop connects again.                                *)
(***************************************************************************)
EXTENDS Naturals, FiniteSets

CONSTANTS Accounts,
          Startup,    \* the watch loop's thread
          Callers,    \* threads that change links: handlers, archiving
          Streams,    \* stream objects (a bound)
          MaxLinks,   \* bound: changes of a link
          None

VARIABLES
  pool,      \* has the watch loop connected the broker pool
  linked,    \* accounts linked to an active config
  registry,  \* _alpaca_streams: per account, its stream or None
  stream,    \* per stream object, its account and what its thread does
  caller,    \* per thread, where it is in sync_alpaca_trade_streams
  links

vars == <<pool, linked, registry, stream, caller, links>>

Threads == Callers \cup {Startup}

Unused == [account |-> None, state |-> "unused"]
NoSync == [pc |-> "idle", want |-> {}, todo |-> {}, new |-> None]

TypeOK ==
  /\ pool \in BOOLEAN
  /\ linked \subseteq Accounts
  /\ registry \in [Accounts -> Streams \cup {None}]
  /\ stream \in [Streams -> [account : Accounts \cup {None},
                             state : {"unused", "starting", "connected", "broken", "ended"}]]
  /\ caller \in [Threads -> [pc : {"idle", "read", "stop", "start", "store"},
                             want : SUBSET Accounts, todo : SUBSET Accounts,
                             new : Streams \cup {None}]]
  /\ links \in 0 .. MaxLinks

Init ==
  /\ pool = FALSE
  /\ linked = {}
  /\ registry = [a \in Accounts |-> None]
  /\ stream = [s \in Streams |-> Unused]
  /\ caller = [t \in Threads |-> NoSync]
  /\ links = 0

(* A config is activated, deactivated, archived or deleted; the same       *)
(* thread then syncs.                                                      *)
ChangeLinks(t) ==
  /\ t \in Callers /\ caller[t].pc = "idle" /\ links < MaxLinks
  /\ \E a \in Accounts :
       linked' = IF a \in linked THEN linked \ {a} ELSE linked \cup {a}
  /\ links' = links + 1
  /\ caller' = [caller EXCEPT ![t].pc = "read"]
  /\ UNCHANGED <<pool, registry, stream>>

(* run_watch_loop: the pool is there, the links are synced once.           *)
ConnectPool ==
  /\ ~pool
  /\ pool' = TRUE
  /\ caller' = [caller EXCEPT ![Startup].pc = "read"]
  /\ UNCHANGED <<linked, registry, stream, links>>

(* The linked accounts and the keys of the dictionary are read.            *)
SyncRead(t) ==
  /\ caller[t].pc = "read"
  /\ caller' = [caller EXCEPT ![t] =
       [NoSync EXCEPT !.pc = "stop", !.want = linked,
                      !.todo = {a \in Accounts : registry[a] # None} \ linked]]
  /\ UNCHANGED <<pool, linked, registry, stream, links>>

(* Mutant: a stopped stream ends.                                          *)
StopStreamForGood(s) ==
  stream' = IF stream[s].state = "connected"
              THEN [stream EXCEPT ![s].state = "ended"] ELSE stream

(* stop() does nothing before the thread has made its connection object;   *)
(* else run() returns, and the loop of _run calls it again.                *)
StopStream(s) ==
  stream' = IF stream[s].state = "connected"
              THEN [stream EXCEPT ![s].state = "broken"] ELSE stream

(* The stream is popped, unless another thread has, and stopped.           *)
SyncStop(t, a) ==
  /\ caller[t].pc = "stop" /\ a \in caller[t].todo
  /\ IF registry[a] = None
       THEN UNCHANGED <<registry, stream>>
       ELSE /\ registry' = [registry EXCEPT ![a] = None]
            /\ StopStream(registry[a])
  /\ caller' = [caller EXCEPT ![t].todo = @ \ {a}]
  /\ UNCHANGED <<pool, linked, links>>

(* Without a pool nothing is started.                                      *)
SyncStopped(t) ==
  /\ caller[t].pc = "stop" /\ caller[t].todo = {}
  /\ caller' = [caller EXCEPT ![t] =
       IF pool THEN [NoSync EXCEPT !.pc = "start", !.todo = caller[t].want] ELSE NoSync]
  /\ UNCHANGED <<pool, linked, registry, stream, links>>

(* An account in the dictionary is passed over; for another the stream is  *)
(* made and its thread started ...                                         *)
SyncStart(t, a) ==
  /\ caller[t].pc = "start" /\ a \in caller[t].todo
  /\ IF registry[a] # None
       THEN /\ caller' = [caller EXCEPT ![t].todo = @ \ {a}]
            /\ UNCHANGED stream
       ELSE \E s \in Streams :
              /\ stream[s] = Unused
              /\ stream' = [stream EXCEPT ![s] = [account |-> a, state |-> "starting"]]
              /\ caller' = [caller EXCEPT ![t].pc = "store", ![t].new = s]
  /\ UNCHANGED <<pool, linked, registry, links>>

(* ... and then it is entered, over what another thread may have entered.  *)
SyncStore(t) ==
  /\ caller[t].pc = "store"
  /\ LET a == stream[caller[t].new].account IN
     /\ registry' = [registry EXCEPT ![a] = caller[t].new]
     /\ caller' = [caller EXCEPT ![t].pc = "start", ![t].todo = @ \ {a}, ![t].new = None]
  /\ UNCHANGED <<pool, linked, stream, links>>

SyncDone(t) ==
  /\ caller[t].pc = "start" /\ caller[t].todo = {}
  /\ caller' = [caller EXCEPT ![t] = NoSync]
  /\ UNCHANGED <<pool, linked, registry, stream, links>>

(* The thread of a stream: it connects, and connects again.                *)
Connect(s) ==
  /\ stream[s].state \in {"starting", "broken"}
  /\ stream' = [stream EXCEPT ![s].state = "connected"]
  /\ UNCHANGED <<pool, linked, registry, caller, links>>

Disconnect(s) ==
  /\ stream[s].state = "connected"
  /\ stream' = [stream EXCEPT ![s].state = "broken"]
  /\ UNCHANGED <<pool, linked, registry, caller, links>>

SyncStep(t) ==
  \/ SyncRead(t)
  \/ SyncStopped(t)
  \/ SyncStore(t)
  \/ SyncDone(t)
  \/ \E a \in Accounts : SyncStop(t, a) \/ SyncStart(t, a)

Next ==
  \/ \E t \in Threads : ChangeLinks(t) \/ SyncStep(t)
  \/ ConnectPool
  \/ \E s \in Streams : Connect(s) \/ Disconnect(s)

Spec == Init /\ [][Next]_vars

-----------------------------------------------------------------------------
Served(a) == {s \in Streams : stream[s].account = a /\ stream[s].state # "ended"}

(* Once the pool is connected and no sync is under way, fills of every     *)
(* linked account are delivered: concurrent syncs, one of which has read   *)
(* the links before they changed, do not leave a linked account without    *)
(* the thread of a stream.                                                 *)
LinkedIsServed ==
  (pool /\ \A t \in Threads : caller[t].pc = "idle")
    => \A a \in linked : Served(a) # {}

(* The head of alpaca_stream.py: one stream per account.                   *)
OneStreamPerAccount == \A a \in Accounts : Cardinality(Served(a)) <= 1
=============================================================================
