------------------------------- MODULE TwoPhase -------------------------------
(***************************************************************************)
(* Explorer v1 (explore_two_phase): a few broad actions from a fixed menu, *)
(* one call that proposes hypotheses, one that ranks them, and one         *)
(* follow-up for each selected hypothesis, which avoids tools that a       *)
(* follow-up has used.  What a model answers is any choice; a selected     *)
(* item is drawn when the loop reaches it.                                 *)
(***************************************************************************)
EXTENDS Integers, Sequences, SequencesExt, FiniteSets

CONSTANTS Research, XSearch,    \* the providers configured for the two kinds of search
          MaxActions, MaxBranches, MaxHops,
          Fees,                 \* what a call can cost
          Hypotheses,
          Suggestions           \* sets of actions that a hypothesis can suggest

VARIABLES pc, picked, trace, total, billed,
          idea,        \* the hypotheses proposed, with the actions they suggest
          followed,    \* the follow-ups so far: hypothesis and action
          usedTools, items

phaseVars == <<pc, picked, trace, total, billed, idea, followed, usedTools, items>>

Menu1 == <<"breaking_followup", "google_broad_search", "x_realtime_rumor",
           "price_spike_check", "volume_regime_shift">>
Menu2 == <<"news_confirmation", "filing_check", "analyst_reaction", "google_sentiment",
           "x_volume_alerts", "x_insider_accounts">>

Tool(a) == CASE a \in {"google_broad_search", "google_sentiment"} -> "google_search"
             [] a \in {"x_realtime_rumor", "x_volume_alerts", "x_insider_accounts"} -> "x_search"
             [] a = "price_spike_check" -> "price_check"
             [] a = "volume_regime_shift" -> "volume_check"
             [] OTHER -> "web_search"

OfTools(menu, tools) == SelectSeq(menu, LAMBDA a : Tool(a) \in tools)

(* _choose_phase1_actions: a market check, a search and X; then the actions *)
(* of other tools in any order.  The list is cut last.                      *)
Fixed == LET sure == <<Head(OfTools(Menu1, {"price_check", "volume_check"})),
                       Head(OfTools(Menu1, {"web_search", "google_search"}))>>
         IN IF Len(sure) < MaxActions THEN sure \o SubSeq(OfTools(Menu1, {"x_search"}), 1, 1)
            ELSE sure

Rest == {a \in ToSet(Menu1) : \A b \in ToSet(Fixed) : Tool(a) # Tool(b)}

Chosen == {SubSeq(Fixed \o p, 1, IF Len(Fixed \o p) < MaxActions THEN Len(Fixed \o p)
                                 ELSE MaxActions) : p \in SetToSeqs(Rest)}

(* The provider that an action goes to, and the tool that its client turns  *)
(* on: OpenAI only searches the web, Grok the web and X, Gemini Google.      *)
Provider(tool) == IF tool = "x_search" THEN XSearch ELSE Research

Runs(provider) == CASE provider = "openai" -> {"web_search"}
                    [] provider = "grok"   -> {"web_search", "x_search"}
                    [] OTHER               -> {"google_search"}

RunTool(tool) == IF tool \in Runs(Provider(tool)) THEN tool ELSE "none"

OwnSearch == IF Research \in {"openai", "grok"} THEN "web_search" ELSE "google_search"

Init == /\ pc = "choose" /\ picked = <<>> /\ trace = <<>> /\ total = 0 /\ billed = 0
        /\ idea = <<>> /\ followed = <<>> /\ usedTools = {} /\ items = 0

Choose == /\ pc = "choose" /\ \E s \in Chosen : picked' = s
          /\ pc' = "phase1"
          /\ UNCHANGED <<trace, total, billed, idea, followed, usedTools, items>>

Hop == Len(trace) + 1

(* One call that is answered and traced, and one that raises, in the call  *)
(* or in reading its answer: nothing is returned, the traces are gone.     *)
Pay(tool, fee) == /\ total' = total + fee /\ billed' = billed + fee
                  /\ trace' = Append(trace, [tool |-> tool, cost |-> fee])

Raise == /\ pc \in {"phase1", "rank", "phase2"}
         /\ pc' = "failed" /\ trace' = <<>> /\ total' = 0
         /\ \E fee \in Fees \cup {0} : billed' = billed + fee
         /\ UNCHANGED <<picked, idea, followed, usedTools, items>>

Phase1Over == picked = <<>> \/ Hop > MaxHops

Broad == /\ pc = "phase1" /\ ~Phase1Over
         /\ LET a == Head(picked)
            IN IF Tool(a) \in {"price_check", "volume_check"} THEN Pay(Tool(a), 0)
               ELSE \E fee \in Fees : Pay(RunTool(Tool(a)), fee)
         /\ picked' = Tail(picked)
         /\ UNCHANGED <<pc, idea, followed, usedTools, items>>

Propose == /\ pc = "phase1" /\ Phase1Over
           /\ \E fee \in Fees : Pay(OwnSearch, fee)
           /\ \E H \in SUBSET Hypotheses :
                /\ idea' \in [H -> Suggestions]
                /\ pc' = IF H = {} THEN "done" ELSE "rank"
           /\ UNCHANGED <<picked, followed, usedTools, items>>

Rank == /\ pc = "rank" /\ \E fee \in Fees : Pay(OwnSearch, fee)
        /\ pc' = "phase2" /\ UNCHANGED <<picked, idea, followed, usedTools, items>>

(* The actions of the menu that a hypothesis suggests and whose tool has   *)
(* not been used, by their places in it.  An action whose tool has been    *)
(* used is replaced by the first of them.                                  *)
Alternatives(h) == {i \in DOMAIN Menu2 : Menu2[i] \in idea[h] /\ Tool(Menu2[i]) \notin usedTools}

Instead(h, a) == IF Tool(a) \in usedTools /\ Alternatives(h) # {}
                 THEN Menu2[Min(Alternatives(h))] ELSE a

(* Mutant: the tool of the assigned action is marked, whichever was taken. *)
MarkAssigned(asked, did) == usedTools \cup {Tool(asked)}

MarkUsed(asked, did) == usedTools \cup {Tool(did)}

MayFollow == pc = "phase2" /\ items < MaxBranches /\ Hop <= MaxHops

(* One selected item: skipped when it names no known hypothesis or action. *)
SkipItem == MayFollow /\ items' = items + 1
            /\ UNCHANGED <<pc, picked, trace, total, billed, idea, followed, usedTools>>

FollowUp(h, a) ==
  /\ MayFollow /\ items' = items + 1
  /\ LET did == Instead(h, a)
     IN /\ \E fee \in Fees : Pay(RunTool(Tool(did)), fee)
        /\ usedTools' = MarkUsed(a, did)
        /\ followed' = Append(followed, [hypothesis |-> h, did |-> did])
  /\ pc' \in {"phase2", "done"}          \* the answer may say to stop
  /\ UNCHANGED <<picked, idea>>

Finish == pc = "phase2" /\ pc' = "done"
          /\ UNCHANGED <<picked, trace, total, billed, idea, followed, usedTools, items>>

Next == \/ Choose \/ Broad \/ Propose \/ Rank \/ SkipItem \/ Finish \/ Raise
        \/ \E h \in DOMAIN idea, a \in ToSet(Menu2) : FollowUp(h, a)

Spec == Init /\ [][Next]_phaseVars

(* A follow-up repeats a tool only when its hypothesis suggests no action   *)
(* of the menu with another, and what a finished exploration reports as its *)
(* cost is what its traces say and what was billed (explorer.py:525-535,    *)
(* 586).                                                                    *)
Orthogonal ==
  /\ \A j \in DOMAIN followed :
       LET before == {Tool(followed[i].did) : i \in 1..(j - 1)}
       IN Tool(followed[j].did) \in before
            => \A a \in idea[followed[j].hypothesis] \cap ToSet(Menu2) : Tool(a) \in before
  /\ pc = "done" => total = billed /\ total = MapThenSumSet(LAMBDA i : trace[i].cost, DOMAIN trace)
=============================================================================
