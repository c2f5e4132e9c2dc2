---------------------------- MODULE SnapshotFields ----------------------------
(***************************************************************************)
(* Snapshots in the database and their JSON files, from the seal on.  What  *)
(* comes later is added by several programs: prices at offsets after the    *)
(* snapshot (price_10min.py, backfill_price_10min.py), field by field, and  *)
(* decision metrics (backfill_snapshot_decision_time.py), as whole rows and *)
(* whole files, while the archiver moves the files into an archive.  An     *)
(* update of a field is a read and a write: SQLite begins the transaction   *)
(* with the write.                                                          *)
(***************************************************************************)
EXTENDS Integers, Sequences

CONSTANTS Ids, Collectors,    \* snapshots; runs that add prices
          MaxRewrites,        \* runs of the decision script
          MaxPrices,          \* prices added
          None

VARIABLES sealed,      \* how far a seal is, and the decision metric it captured
          row,         \* decision metric, price_at and price_10min
          live, zip,   \* the metric in the file, and in the archive's member
          adding,      \* a collector's snapshot, fields still to add and row read
          archiver,    \* the archive it has open, and the file it moves
          script,      \* the decision script
          rewrites, prices,
          clash        \* an archive was replaced while it was being written

snapshotVars == <<sealed, row, live, zip, adding, archiver, script, rewrites, prices, clash>>

Absent == [is |-> "absent"]
Doc(m) == [is |-> "doc", metric |-> m]
Free == [pc |-> "free"]

Init == /\ sealed = [s \in Ids |-> [pc |-> "open", metric |-> None]]
        /\ row = [s \in Ids |-> None]
        /\ live = [s \in Ids |-> Absent] /\ zip = live
        /\ adding = [c \in Collectors |-> Free] /\ archiver = Free /\ script = Free
        /\ rewrites = 0 /\ prices = 0 /\ clash = FALSE

(***************************************************************************)
(* The seal: metrics that may not be found, the row, then the file.         *)
(***************************************************************************)
Insert(s) == /\ sealed[s].pc = "open"
             /\ \E m \in {None, "captured"} :
                  /\ sealed' = [sealed EXCEPT ![s] = [pc |-> "stored", metric |-> m]]
                  /\ row' = [row EXCEPT ![s] = [metric |-> m, at |-> FALSE, ten |-> FALSE]]
             /\ UNCHANGED <<live, zip, adding, archiver, script, rewrites, prices, clash>>

Persist(s) == /\ sealed[s].pc = "stored" /\ sealed' = [sealed EXCEPT ![s].pc = "done"]
              /\ live' = [live EXCEPT ![s] = Doc(sealed[s].metric)]
              /\ UNCHANGED <<row, zip, adding, archiver, script, rewrites, prices, clash>>

(***************************************************************************)
(* Prices.  A live capture writes whatever it gets, a reconciliation rows   *)
(* without price_at; the answer may lack the offset of ten minutes.  The    *)
(* backfill goes through the rows it has read and adds the ten minutes to   *)
(* those that lacked them.                                                  *)
(***************************************************************************)
Plans == {<<"at">>, <<"at", "ten">>}

Adds(c, s, plans) ==
  /\ row[s] # None /\ adding[c] = Free
  /\ prices < MaxPrices /\ prices' = prices + 1
  /\ \E p \in plans : adding' = [adding EXCEPT ![c] = [pc |-> "read", id |-> s, plan |-> p]]
  /\ UNCHANGED <<sealed, row, live, zip, archiver, script, rewrites, clash>>

Begin(c, s) == Adds(c, s, Plans)

Backfill(c, s) == /\ row[s] # None /\ ~row[s].ten
                  /\ Adds(c, s, {<<"ten">>})

(* update_snapshot_field.                                                   *)
ReadRow(c) == /\ adding[c].pc = "read"
              /\ adding' = [adding EXCEPT ![c] = [pc |-> "write", id |-> @.id, plan |-> @.plan,
                                                  copy |-> row[@.id]]]
              /\ UNCHANGED <<sealed, row, live, zip, archiver, script, rewrites, prices, clash>>

WriteField(c) ==
  /\ adding[c].pc = "write"
  /\ row' = [row EXCEPT ![adding[c].id] = [adding[c].copy EXCEPT ![Head(adding[c].plan)] = TRUE]]
  /\ adding' = [adding EXCEPT ![c] = IF Tail(@.plan) = <<>> THEN Free
                                     ELSE [pc |-> "read", id |-> @.id, plan |-> Tail(@.plan)]]
  /\ UNCHANGED <<sealed, live, zip, archiver, script, rewrites, prices, clash>>

(***************************************************************************)
(* The archiver opens the archive, adds a file unless it has a member of    *)
(* its name, deletes it, and closes the archive in the end.                 *)
(***************************************************************************)
OpenArchive == /\ archiver = Free /\ \E s \in Ids : live[s] # Absent
               /\ archiver' = [pc |-> "open", zip |-> zip, file |-> None, replaced |-> FALSE]
               /\ UNCHANGED <<sealed, row, live, zip, adding, script, rewrites, prices, clash>>

Add(s) == /\ archiver.pc = "open" /\ archiver.file = None /\ live[s] # Absent
          /\ archiver' = [archiver EXCEPT !.file = s,
                                          !.zip[s] = IF @ = Absent THEN live[s] ELSE @]
          /\ UNCHANGED <<sealed, row, live, zip, adding, script, rewrites, prices, clash>>

Unlink == /\ archiver.pc = "open" /\ archiver.file # None
          /\ live' = [live EXCEPT ![archiver.file] = Absent]
          /\ archiver' = [archiver EXCEPT !.file = None]
          /\ UNCHANGED <<sealed, row, zip, adding, script, rewrites, prices, clash>>

(* An archive that was replaced meanwhile keeps nothing of it, and one that *)
(* is being copied is replaced by a copy without it.                        *)
Close == /\ archiver.pc = "open" /\ archiver.file = None /\ archiver' = Free
         /\ zip' = IF archiver.replaced THEN zip ELSE archiver.zip
         /\ clash' = (clash \/ archiver.replaced \/ script.pc = "replace")
         /\ UNCHANGED <<sealed, row, live, adding, script, rewrites, prices>>

(***************************************************************************)
(* The decision script reads every row and looks for the files; it fills    *)
(* what is missing, writes the row and the file, and in the end replaces    *)
(* the archive by a copy with the members it has changed.                   *)
(***************************************************************************)
Place(s) == IF live[s] # Absent THEN "live" ELSE IF zip[s] # Absent THEN "zip" ELSE "none"

ReadAll == /\ script = Free /\ rewrites < MaxRewrites /\ rewrites' = rewrites + 1
           /\ script' = [pc |-> "rows", copy |-> row, place |-> [s \in Ids |-> Place(s)],
                         todo |-> {s \in Ids : row[s] # None}, zip |-> [s \in {} |-> Absent]]
           /\ UNCHANGED <<sealed, row, live, zip, adding, archiver, prices, clash>>

(* Mutant: what is known is looked up again.                                *)
FilledAnew(metric) == "historical"

Filled(metric) == IF metric = None THEN "historical" ELSE metric

Updated(s) == Doc(Filled(script.copy[s].metric))

(* A price may not be found; a row that has its metric is written too when  *)
(* its decision time was missing.                                           *)
RewriteRow(s) ==
  /\ script.pc = "rows" /\ s \in script.todo
  /\ row' = [row EXCEPT ![s] = [script.copy[s] EXCEPT !.metric = Filled(@)]]
  /\ live' = IF script.place[s] = "live" THEN [live EXCEPT ![s] = Updated(s)] ELSE live
  /\ script' = [script EXCEPT !.todo = @ \ {s},
                  !.zip = IF script.place[s] # "zip" THEN @
                          ELSE [t \in DOMAIN @ \cup {s} |-> IF t = s THEN Updated(s) ELSE @[t]]]
  /\ UNCHANGED <<sealed, zip, adding, archiver, rewrites, prices, clash>>

SkipRow(s) == /\ script.pc = "rows" /\ s \in script.todo
              /\ script' = [script EXCEPT !.todo = @ \ {s}]
              /\ UNCHANGED <<sealed, row, live, zip, adding, archiver, rewrites, prices, clash>>

CopyArchive ==
  /\ script.pc = "rows" /\ script.todo = {}
  /\ script' = IF DOMAIN script.zip = {} THEN Free
               ELSE [pc |-> "replace",
                     zip |-> [s \in Ids |-> IF s \in DOMAIN script.zip THEN script.zip[s] ELSE zip[s]]]
  /\ UNCHANGED <<sealed, row, live, zip, adding, archiver, rewrites, prices, clash>>

ReplaceArchive ==
  /\ script.pc = "replace" /\ script' = Free
  /\ zip' = script.zip
  /\ archiver' = IF archiver = Free THEN Free ELSE [archiver EXCEPT !.replaced = TRUE]
  /\ UNCHANGED <<sealed, row, live, adding, rewrites, prices, clash>>

Next == \/ \E s \in Ids : \/ Insert(s) \/ Persist(s) \/ Add(s) \/ RewriteRow(s) \/ SkipRow(s)
                          \/ \E c \in Collectors : Begin(c, s) \/ Backfill(c, s)
        \/ \E c \in Collectors : ReadRow(c) \/ WriteField(c)
        \/ OpenArchive \/ Unlink \/ Close \/ ReadAll \/ CopyArchive \/ ReplaceArchive

Spec == Init /\ [][Next]_snapshotVars

(* However the writes of rows and files overlap: a metric captured at the   *)
(* decision is never replaced by one looked up later, in the row or in the  *)
(* files; and no file is lost but by an archive that was replaced while it  *)
(* was being written (backfill_snapshot_decision_time.py:215).              *)
SealedStands ==
  \A s \in Ids : row[s] # None =>
    /\ sealed[s].metric # None =>
         /\ row[s].metric = sealed[s].metric
         /\ \A doc \in {live[s], zip[s]} : doc = Absent \/ doc.metric = sealed[s].metric
    /\ sealed[s].pc = "done" /\ ~clash =>
         \/ live[s] # Absent \/ zip[s] # Absent
         \/ archiver # Free /\ (archiver.replaced \/ archiver.zip[s] # Absent)
===============================================================================
