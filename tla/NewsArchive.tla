------------------------------ MODULE NewsArchive -----------------------------
(***************************************************************************)
(* News files from the feed that writes them to the archive of their day   *)
(* and its pruning.  (Snapshots go the same way, with settings of their    *)
(* own.)  The archiver takes every file of an earlier day, adds it to the  *)
(* ZIP of that day and deletes it; what a ZIP contains is only listed when *)
(* it is closed.  The process is killed with its group, at any moment.     *)
(*                                                                         *)
(* Time passes in days, NEWS_ARCHIVE_HOT_HOURS being 24.                   *)
(***************************************************************************)
EXTENDS Integers, FiniteSets

CONSTANTS Articles,
          Retention,   \* news_archive_retention_days
          Horizon,     \* bound: the last day
          MaxKills,    \* bound: restarts
          None

VARIABLES
  now,
  hot,                 \* files in the feed's directory
  day,                 \* per article, the day its file was written
  whole,               \* history: files that were written to their end
  zip,                 \* per day, the articles its archive lists
  pc, todo,            \* the archiver: days left of a cycle
  open, left, session, \* the day whose archive is open, files left, files added to it
  lost,                \* history: what a damaged archive held
  kills

cycleVars == <<pc, todo, open, left, session>>
vars == <<now, hot, day, whole, zip, cycleVars, lost, kills>>

Days == 0 .. Horizon

TypeOK ==
  /\ now \in Days /\ hot \subseteq Articles /\ whole \subseteq Articles
  /\ day \in [Articles -> Days \cup {None}] /\ zip \in [Days -> SUBSET Articles]
  /\ pc \in {"sleep", "cycle", "add"} /\ todo \subseteq Days /\ open \in Days \cup {None}
  /\ left \subseteq Articles /\ session \subseteq Articles
  /\ lost \subseteq Articles /\ kills \in 0 .. MaxKills

Sleeping == pc' = "sleep" /\ todo' = {} /\ open' = None /\ left' = {} /\ session' = {}

Init ==
  /\ now = 0 /\ hot = {} /\ day = [a \in Articles |-> None] /\ whole = {}
  /\ zip = [d \in Days |-> {}]
  /\ pc = "sleep" /\ todo = {} /\ open = None /\ left = {} /\ session = {}
  /\ lost = {} /\ kills = 0

TimePasses ==
  /\ now < Horizon
  /\ now' = now + 1
  /\ UNCHANGED <<hot, day, whole, zip, cycleVars, lost, kills>>

(* The feed's subprocess writes a file; ended by a toggle, it leaves half. *)
Write(a) ==
  /\ day[a] = None
  /\ hot' = hot \cup {a} /\ day' = [day EXCEPT ![a] = now]
  /\ whole' \in {whole, whole \cup {a}}
  /\ UNCHANGED <<now, zip, cycleVars, lost, kills>>

StaleOf(d) == {a \in hot : day[a] = d /\ d < now}

(* run_news_archive_once begins: the files of earlier days, by day.        *)
BeginCycle ==
  /\ pc = "sleep"
  /\ pc' = "cycle" /\ todo' = {d \in Days : StaleOf(d) # {}}
  /\ UNCHANGED <<now, hot, day, whole, zip, open, left, session, lost, kills>>

(* The archive of a day is opened to be added to.  A damaged one lists     *)
(* nothing and is added to all the same.                                   *)
OpenArchive(d) ==
  /\ pc = "cycle" /\ d \in todo
  /\ pc' = "add" /\ todo' = todo \ {d} /\ open' = d /\ left' = StaleOf(d)
  /\ UNCHANGED <<now, hot, day, whole, zip, session, lost, kills>>

(* A file that is listed already, or has been added, is deleted; that can  *)
(* fail.                                                                   *)
Archive(a) ==
  /\ pc = "add" /\ a \in left
  /\ left' = left \ {a}
  /\ session' = IF a \in zip[open] THEN session ELSE session \cup {a}
  /\ hot' \in {hot, hot \ {a}}
  /\ UNCHANGED <<now, day, whole, zip, pc, todo, open, lost, kills>>

(* Mutant: the file is deleted whether or not it could be added.           *)
DeleteUnarchived(a) ==
  /\ pc = "add" /\ a \in left \ zip[open]
  /\ left' = left \ {a} /\ hot' = hot \ {a}
  /\ UNCHANGED <<now, day, whole, zip, pc, todo, open, session, lost, kills>>

(* It cannot be added and is left for a later cycle.  When its reading     *)
(* breaks off, the archive lists a part of it, for which the next cycle    *)
(* deletes the file.                                                       *)
NotArchived(a) ==
  /\ pc = "add" /\ a \in left \ zip[open]
  /\ left' = left \ {a}
  /\ \/ UNCHANGED <<session, lost>>
     \/ session' = session \cup {a} /\ lost' = lost \cup {a}
  /\ UNCHANGED <<now, hot, day, whole, zip, pc, todo, open, kills>>

CloseArchive ==
  /\ pc = "add" /\ left = {}
  /\ pc' = "cycle" /\ zip' = [zip EXCEPT ![open] = @ \cup session]
  /\ open' = None /\ session' = {}
  /\ UNCHANGED <<now, hot, day, whole, todo, left, lost, kills>>

(* What was added is gone; what was listed too, if any of it was written.  *)
Damage ==
  IF pc # "add" \/ session = {} THEN UNCHANGED <<zip, lost>>
  ELSE \/ zip' = zip /\ lost' = lost \cup session
       \/ zip' = [zip EXCEPT ![open] = {}] /\ lost' = lost \cup session \cup zip[open]

(* The disk is full when the archive is closed, or a directory cannot be   *)
(* made: the loop waits for its next turn.                                 *)
CycleFails ==
  /\ pc \in {"cycle", "add"}
  /\ pc = "add" => left = {}
  /\ Damage /\ Sleeping
  /\ UNCHANGED <<now, hot, day, whole, kills>>

(* _kill_group, and the start after it.                                    *)
Kill ==
  /\ kills < MaxKills
  /\ kills' = kills + 1
  /\ Damage /\ Sleeping
  /\ UNCHANGED <<now, hot, day, whole>>

(* Archives past their retention are deleted, if that works.               *)
Prune ==
  /\ pc = "cycle" /\ todo = {}
  /\ \E kept \in SUBSET {d \in Days : d < now - Retention} :
       zip' = [d \in Days |-> IF d \in kept \/ d >= now - Retention THEN zip[d] ELSE {}]
  /\ Sleeping
  /\ UNCHANGED <<now, hot, day, whole, lost, kills>>

Next == \/ TimePasses \/ BeginCycle \/ CloseArchive \/ Prune \/ CycleFails \/ Kill
        \/ \E a \in Articles : Write(a) \/ Archive(a) \/ NotArchived(a)
        \/ \E d \in Days : OpenArchive(d)

Spec == Init /\ [][Next]_vars

-----------------------------------------------------------------------------
Kept(a) == a \in hot \/ a \in zip[day[a]] \/ (open = day[a] /\ a \in session)

(* Until its retention is over, every article is in the feed's directory   *)
(* or in the archive of its day, through failures of every step and kills; *)
(* only what was in the very archive that was being written, or could not  *)
(* be read to its end, is lost (_archive_feed_dir, which deletes a file    *)
(* before the archive that holds it is closed).                            *)
ArticlesKept == \A a \in whole \ lost : day[a] >= now - Retention => Kept(a)
=============================================================================
