------------------------------ MODULE Pipeline -------------------------------
(***************************************************************************)
(* The agents of an exploration.  run_pipeline runs them one after the     *)
(* other on the event loop of its worker thread, in rounds, until a final  *)
(* agent is confident enough; an agent is a task that sends requests to a  *)
(* model and answers its tool calls.  An agent that fails or times out     *)
(* ends the pipeline.  An abort ends it too, and leaves the agent's task   *)
(* on the loop, where it goes on while the thread's next pipelines run.    *)
(* A request costs one unit.                                               *)
(***************************************************************************)
EXTENDS Naturals, Sequences

CONSTANTS Agents,     \* a sequence of runners; the last agent is the final one
          MaxRounds,
          MaxTurns,   \* request_limit
          MaxCost,    \* max_cost_usd, 0 for no limit
          Fallback,   \* has Gemini a fallback model
          Jobs        \* bound: pipelines of the thread

VARIABLES
  phase,          \* idle, next agent, or an agent's task is running
  job, round, agent,
  task,           \* the running agent's turn, and is it on the fallback model
  signal,         \* of the latest final agent whose answer could be parsed
  flag,           \* an abort is requested for the job
  left,           \* tasks of aborted jobs
  spent,          \* cumulative_cost of the job
  paid            \* per job, what its requests really cost

vars == <<phase, job, round, agent, task, signal, flag, left, spent, paid>>

NewTask == [turn |-> 0, fallback |-> FALSE]

(* Gemini's preflight may choose the fallback model at once.               *)
FirstTasks(runner) ==
  {NewTask} \cup
  (IF runner = "gemini" /\ Fallback THEN {[NewTask EXCEPT !.fallback = TRUE]} ELSE {})

Init ==
  /\ phase = "idle" /\ job = 0 /\ round = 0 /\ agent = 0
  /\ task = NewTask
  /\ signal = "none"
  /\ flag = FALSE
  /\ left = {}
  /\ spent = 0
  /\ paid = [j \in 1 .. Jobs |-> 0]

Final(a) == a = Len(Agents)

(* A worker takes the next news.                                           *)
StartPipeline ==
  /\ phase = "idle" /\ job < Jobs
  /\ phase' = "next" /\ job' = job + 1 /\ round' = 1 /\ agent' = 1
  /\ signal' = "none" /\ flag' = FALSE /\ spent' = 0
  /\ UNCHANGED <<task, left, paid>>

(* The dashboard's button, at any time.                                    *)
RequestAbort ==
  /\ phase # "idle" /\ ~flag
  /\ flag' = TRUE
  /\ UNCHANGED <<phase, job, round, agent, task, signal, left, spent, paid>>

(* Mutant: the final agent is the only one that is limited.                *)
OverBudgetFinal(a) == Final(a) /\ MaxCost > 0 /\ spent >= MaxCost

OverBudget(a) == ~Final(a) /\ MaxCost > 0 /\ spent >= MaxCost

(* The next agent is passed over for its cost, or started, unless the job  *)
(* is to be aborted.                                                       *)
NextAgent ==
  /\ phase = "next" /\ agent <= Len(Agents)
  /\ \/ /\ OverBudget(agent)
        /\ agent' = agent + 1
        /\ UNCHANGED <<phase, task>>
     \/ /\ ~OverBudget(agent)
        /\ phase' = IF flag THEN "idle" ELSE "running"
        /\ task' \in FirstTasks(Agents[agent])
        /\ UNCHANGED agent
  /\ UNCHANGED <<job, round, signal, flag, left, spent, paid>>

EndRound ==
  /\ phase = "next" /\ agent > Len(Agents)
  /\ IF signal = "confident" \/ round = MaxRounds
       THEN phase' = "idle" /\ UNCHANGED <<round, agent>>
       ELSE round' = round + 1 /\ agent' = 1 /\ UNCHANGED phase
  /\ UNCHANGED <<job, task, signal, flag, left, spent, paid>>

(* What a request that was answered or lost leads to: another request, or  *)
(* the end of the task, of which only what is recorded counts.             *)
Continue(t)    == [then |-> "request", task |-> t]
Answer(cost)   == [then |-> "answer", cost |-> cost]
Failure        == [then |-> "failure"]

(* Grok and OpenAI: tool calls are executed and the model asked again, up  *)
(* to max_turns; all the requests are recorded.                            *)
GrokAnswers(t) ==
  {Answer(t.turn + 1)} \cup
  (IF t.turn < MaxTurns THEN {Continue([t EXCEPT !.turn = @ + 1])} ELSE {})

OpenAIAnswers(t) ==
  {Answer(t.turn + 1)} \cup
  (IF t.turn < MaxTurns THEN {Continue([t EXCEPT !.turn = @ + 1])} ELSE {})

(* Gemini: one request, and if it is lost a second one to the fallback     *)
(* model.                                                                  *)
GeminiAnswers(t) == {Answer(1)}

GeminiLost(t) ==
  IF Fallback /\ ~t.fallback THEN {Continue([t EXCEPT !.fallback = TRUE])} ELSE {Failure}

Answers(runner, t) ==
  CASE runner = "grok"   -> GrokAnswers(t)
    [] runner = "openai" -> OpenAIAnswers(t)
    [] runner = "gemini" -> GeminiAnswers(t)

Lost(runner, t) == IF runner = "gemini" THEN GeminiLost(t) ELSE {Failure}

(* The possible next steps of a task and what they cost: a lost request    *)
(* may have been charged.                                                  *)
TaskSteps(runner, t) ==
  {[next |-> n, cost |-> 1] : n \in Answers(runner, t)} \cup
  {[next |-> n, cost |-> c] : n \in Lost(runner, t), c \in {0, 1}}

(* A final agent's answer is a signal if it can be parsed.                 *)
Signals == IF Final(agent) THEN {signal, "weak", "confident"} ELSE {signal}

RunAgent ==
  /\ phase = "running"
  /\ \E s \in TaskSteps(Agents[agent], task) :
       /\ paid' = [paid EXCEPT ![job] = @ + s.cost]
       /\ \/ /\ s.next.then = "request"
             /\ task' = s.next.task
             /\ UNCHANGED <<phase, agent, signal, spent>>
          \/ /\ s.next.then = "answer"
             /\ spent' = spent + s.next.cost
             /\ signal' \in Signals
             /\ phase' = "next" /\ agent' = agent + 1
             /\ UNCHANGED task
          \/ /\ s.next.then = "failure"
             /\ phase' = "idle"
             /\ UNCHANGED <<agent, task, signal, spent>>
  /\ UNCHANGED <<job, round, flag, left>>

(* The time of an agent is over: its task is cancelled, the request it has *)
(* sent may be charged, and the pipeline ends.                             *)
AgentTimeout ==
  /\ phase = "running"
  /\ \E c \in {0, 1} : paid' = [paid EXCEPT ![job] = @ + c]
  /\ phase' = "idle"
  /\ UNCHANGED <<job, round, agent, task, signal, flag, left, spent>>

(* The poll finds the flag: JobAborted leaves the task as it is.           *)
AbortSeen ==
  /\ phase = "running" /\ flag
  /\ left' = left \cup {[job |-> job, runner |-> Agents[agent], task |-> task]}
  /\ phase' = "idle"
  /\ UNCHANGED <<job, round, agent, task, signal, flag, spent, paid>>

(* A task that was left runs on while another pipeline runs the loop.      *)
LeftRuns(l) ==
  /\ phase # "idle"
  /\ \E s \in TaskSteps(l.runner, l.task) :
       /\ paid' = [paid EXCEPT ![l.job] = @ + s.cost]
       /\ left' = (left \ {l}) \cup
                  (IF s.next.then = "request" THEN {[l EXCEPT !.task = s.next.task]} ELSE {})
  /\ UNCHANGED <<phase, job, round, agent, task, signal, flag, spent>>

Next ==
  \/ StartPipeline \/ RequestAbort \/ NextAgent \/ EndRound
  \/ RunAgent \/ AgentTimeout \/ AbortSeen
  \/ \E l \in left : LeftRuns(l)

Spec == Init /\ [][Next]_vars

-----------------------------------------------------------------------------
Larger(a, b) == IF a > b THEN a ELSE b

(* The most an agent can cost: its turns, or two models.                   *)
AgentMax == Larger(MaxTurns + 1, 2)

(* What a job really costs exceeds max_cost_usd by one agent, which is     *)
(* started while there is a remainder, and by the final agent of every     *)
(* round, which is always started: also when attempts are lost, time out   *)
(* or are aborted, when nothing is recorded of them, and when a task that  *)
(* was left goes on in the next job.                                       *)
SpendBounded ==
  MaxCost > 0 =>
    \A j \in 1 .. Jobs : paid[j] < MaxCost + (1 + MaxRounds) * AgentMax

(* What _run_with_abort_poll says: when a job is aborted, its task is      *)
(* cancelled.                                                              *)
AbortedIsCancelled == left = {}
=============================================================================
