------------------------------- MODULE Knowledge -------------------------------
(***************************************************************************)
(* The knowledge files that the program learns into: skip patterns, which  *)
(* the reviewer and the reflection page append, and symbol lists, which    *)
(* the news workers append.  An append holds the file's lock over its read *)
(* and its write; triage and the symbol filter read without it; the        *)
(* dashboard replaces a file by what its page holds, without it too.  A    *)
(* write truncates the file first: a reader in between raises, a kill in   *)
(* between leaves it so, and two writes at once can leave neither.         *)
(***************************************************************************)
EXTENDS Integers, FiniteSets

CONSTANTS Appenders,      \* threads that append: workers, the reviewer, a page's apply
          Pages,          \* pages of the dashboard that hold a file's content
          Words, Proper,  \* patterns, and those that validate_skip_pattern accepts
          LongOnly,       \* long_only_skip_keywords
          Shorting,       \* ENABLE_SHORTING
          Symbols, Odd,   \* symbols, and those of a format no equity has
          Kind,           \* the list that yfinance would put a symbol on
          MaxKills, None

VARIABLES file,    \* items, whether it can be parsed, and who is writing it
          lock,    \* _file_lock of the two modules
          proc, page,
          told,    \* items whose append has returned, less what a page removed
          kills

knowledgeVars == <<file, lock, proc, page, told, kills>>

Files == {"skip", "lists"}
Out == [pc |-> "out"]

Init == /\ file = [f \in Files |-> [items |-> {}, whole |-> TRUE, writers |-> {}, mixed |-> FALSE]]
        /\ lock = [f \in Files |-> None]
        /\ proc = [p \in Appenders |-> Out] /\ page = [g \in Pages |-> Out]
        /\ told = [f \in Files |-> {}] /\ kills = 0

(* load_skip_patterns merges the long-only patterns; so does the append,   *)
(* which writes back what it has loaded.                                   *)
Load(f) == file[f].items \cup (IF f = "skip" /\ ~Shorting THEN LongOnly ELSE {})

-----------------------------------------------------------------------------
(* A write: truncated, then filled.  Writes that overlap may leave a mix.  *)
Truncated(f, w) == [file EXCEPT ![f] = [items |-> {}, whole |-> FALSE,
                                        writers |-> @.writers \cup {w},
                                        mixed |-> @.mixed \/ @.writers # {}]]

Fill(f, w, items) ==
  \E whole \in (IF file[f].mixed THEN BOOLEAN ELSE {TRUE}) :
    LET left == file[f].writers \ {w}
    IN file' = [file EXCEPT ![f] = [items |-> items, whole |-> whole, writers |-> left,
                                    mixed |-> @.mixed /\ left # {}]]

(* Proposals of the reviewer or the reflection page, by the quality gate.  *)
Learn(p) == /\ proc[p] = Out
            /\ \E proposed \in SUBSET Words :
                 /\ proposed \cap Proper # {}
                 /\ proc' = [proc EXCEPT ![p] = [pc |-> "lock", file |-> "skip",
                                                 adds |-> proposed \cap Proper]]
            /\ UNCHANGED <<file, lock, page, told, kills>>

On(list, s) == <<list, s>> \in file["lists"].items

(* What the filter remembers of a symbol: a known exchange goes before the *)
(* lists, the lists before the format, and yfinance comes last.            *)
Remembers(s, exchange) ==
  CASE On("blacklist", s) -> {}
    [] exchange = "us" -> {<<"verified", s>>}
    [] exchange = "foreign" -> {}
    [] \E list \in {"verified", "crypto", "rejected"} : On(list, s) -> {}
    [] s \in Odd -> {<<"rejected", s>>}
    [] OTHER -> {<<Kind[s], s>>}

(* One symbol of an article, by the lists as they are; a lookup that fails *)
(* remembers nothing.                                                      *)
FilterSymbol(p) ==
  /\ proc[p] = Out /\ file["lists"].whole
  /\ \E s \in Symbols, exchange \in {"none", "us", "foreign"} :
       /\ Remembers(s, exchange) # {}
       /\ proc' = [proc EXCEPT ![p] = [pc |-> "lock", file |-> "lists",
                                       adds |-> Remembers(s, exchange)]]
  /\ UNCHANGED <<file, lock, page, told, kills>>

(* Mutant: the lock covers the write and not the read.                     *)
MayReadBeside(f) == TRUE

MayRead(f) == lock[f] = None

(* Under the lock: the file is read; one that cannot be parsed raises.     *)
Read(p) ==
  /\ proc[p].pc = "lock" /\ MayRead(proc[p].file)
  /\ LET f == proc[p].file
     IN IF ~file[f].whole
        THEN proc' = [proc EXCEPT ![p] = Out] /\ UNCHANGED lock
        ELSE /\ proc' = [proc EXCEPT ![p] = [pc |-> "read", file |-> f, adds |-> @.adds,
                                             data |-> Load(f)]]
             /\ lock' = [lock EXCEPT ![f] = p]
  /\ UNCHANGED <<file, page, told, kills>>

Release(p, f) == /\ proc' = [proc EXCEPT ![p] = Out] /\ lock' = [lock EXCEPT ![f] = None]

NothingNew(p) == /\ proc[p].pc = "read" /\ proc[p].adds \subseteq proc[p].data
                 /\ Release(p, proc[p].file) /\ UNCHANGED <<file, page, told, kills>>

Open(p) == /\ proc[p].pc = "read" /\ ~(proc[p].adds \subseteq proc[p].data)
           /\ file' = Truncated(proc[p].file, p)
           /\ proc' = [proc EXCEPT ![p].pc = "open"]
           /\ UNCHANGED <<lock, page, told, kills>>

Append(p) == /\ proc[p].pc = "open"
             /\ LET f == proc[p].file
                IN /\ Fill(f, p, proc[p].data \cup proc[p].adds)
                   /\ told' = [told EXCEPT ![f] = @ \cup proc[p].adds]
                   /\ Release(p, f)
             /\ UNCHANGED <<page, kills>>

-----------------------------------------------------------------------------
(* A page shows a file, its user edits the text and saves it later.         *)
LoadPage(g) == /\ page[g] = Out
               /\ \E f \in Files : /\ file[f].whole
                                   /\ page' = [page EXCEPT ![g] = [pc |-> "shown", file |-> f,
                                                                   text |-> file[f].items]]
               /\ UNCHANGED <<file, lock, proc, told, kills>>

SavePage(g) == /\ page[g].pc = "shown"
               /\ \E removed \in SUBSET page[g].text :
                    page' = [page EXCEPT ![g].pc = "open", ![g].text = @ \ removed]
               /\ file' = Truncated(page[g].file, g)
               /\ UNCHANGED <<lock, proc, told, kills>>

PageSaved(g) == /\ page[g].pc = "open"
                /\ Fill(page[g].file, g, page[g].text)
                /\ told' = [told EXCEPT ![page[g].file] = @ \cap page[g].text]
                /\ page' = [page EXCEPT ![g] = Out]
                /\ UNCHANGED <<lock, proc, kills>>

(* The process is killed and started again: files stay as they are.        *)
Kill == /\ kills < MaxKills /\ kills' = kills + 1
        /\ file' = [f \in Files |-> [file[f] EXCEPT !.writers = {}, !.mixed = FALSE]]
        /\ lock' = [f \in Files |-> None]
        /\ proc' = [p \in Appenders |-> Out]
        /\ page' = [g \in Pages |-> IF page[g].pc = "open" THEN Out ELSE page[g]]
        /\ UNCHANGED told

Next == \/ \E p \in Appenders : Learn(p) \/ FilterSymbol(p) \/ Read(p) \/ NothingNew(p)
                                \/ Open(p) \/ Append(p)
        \/ \E g \in Pages : LoadPage(g) \/ SavePage(g) \/ PageSaved(g)
        \/ Kill

Spec == Init /\ [][Next]_knowledgeVars

(* Whatever threads append and whatever is killed, a file that can be read *)
(* has everything that was learned, but what a saved page left out: the    *)
(* lock covers the read with the write (store.py:243, symbol_filter.py:140). *)
AppendsKept == \A f \in Files : file[f].whole => told[f] \subseteq file[f].items
=============================================================================
