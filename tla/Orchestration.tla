---------------------------- MODULE Orchestration ----------------------------
(***************************************************************************)
(* One root task of the orchestrator: OrchestratorRuntime.handle_task      *)
(* (orchestrator/orchestrator.py), the Dispatcher that runs a plan's steps *)
(* in dependency order (dispatcher.py), the Aggregator, and the legacy RPC *)
(* client (a2anats/compatibility.py) through which steps reach agents.     *)
(*                                                                         *)
(* handle_task, the dispatcher's loop and one _run_step per started step   *)
(* are coroutines on one event loop; a step of the model is the code       *)
(* between two awaits.  RPC goes over core NATS: requests and replies may  *)
(* be lost (they stay on the wire for ever) or arrive after the caller     *)
(* gave up, when a retry under the same task id may be under way.  A       *)
(* request given up takes its inbox with it: a late reply is dropped.      *)
(*                                                                         *)
(* Abstractions.  The agent is what AgentTasks shows of it: a task id is   *)
(* claimed once, later requests with that id join it, its final state      *)
(* stays, and it need never finish.  Step ids are unique across agents, so *)
(* the agents are one table; "failed" is any final state but completed.    *)
(* Output text is left out.  A plan that is None stands for everything     *)
(* else that raises before the dispatch: discovery, the planner giving up, *)
(* duplicate ids, unknown dependencies, steps not pending.                 *)
(***************************************************************************)
EXTENDS Naturals, FiniteSets

CONSTANTS
    Calls,          \* message/send calls that name the root task
    Texts,          \* prompts: what handle_task fingerprints
    Steps,          \* step ids
    MaxAttempts,    \* Dispatcher.max_attempts
    None            \* Python's None

ASSUME AttemptsAssumption == MaxAttempts \in Nat \ {0}
ASSUME NoneAssumption == None \notin Texts

Final == {"completed", "failed"}
Attempt == 1 .. MaxAttempts

\* Step.depends_on, for the steps of a plan (the schema allows none)
Plan == UNION {[S -> SUBSET S] : S \in SUBSET Steps}

Request == [kind : {"request"}, step : Steps, attempt : Attempt]
Reply == [kind : {"reply"}, step : Steps, attempt : Attempt,
          state : Final \cup {"error"}]

VARIABLES
    text,           \* what each call asks for (never changes)
    call,           \* where each call is
    answer,         \* what it was told
    fingerprint,    \* _fingerprints of the root task
    root,           \* _tasks of the root task, its state
    future,         \* _futures of the root task
    phase,          \* where the owner of the root task is
    plan,           \* the plan it works on
    status,         \* Step.status ("absent": not in the plan)
    results,        \* Dispatcher.run's results
    running,        \* the steps whose coroutine was not collected yet
    runner,         \* where a step's coroutine is
    attempt,        \* its attempt
    wire,           \* messages under way, or lost
    waiting,        \* requests the agent has accepted and not answered
    agent,          \* the agent's task of a step
    runs            \* how often the agent started it

callVars == <<text, call, answer, fingerprint>>
rootVars == <<root, future, phase, plan>>
stepVars == <<status, results, running, runner, attempt>>
agentVars == <<waiting, agent, runs>>
vars == <<callVars, rootVars, stepVars, wire, agentVars>>

-----------------------------------------------------------------------------
(* handle_task *)

CallConflicts(c) ==
    /\ call[c] = "idle"
    /\ fingerprint \notin {None, text[c]}
    /\ call' = [call EXCEPT ![c] = "done"]
    /\ answer' = [answer EXCEPT ![c] = "conflict"]
    /\ UNCHANGED <<text, fingerprint, rootVars, stepVars, wire, agentVars>>

CallJoins(c) ==
    /\ call[c] = "idle"
    /\ fingerprint = text[c]
    /\ call' = [call EXCEPT ![c] = "join"]
    /\ UNCHANGED <<text, answer, fingerprint, rootVars, stepVars, wire,
                   agentVars>>

CallClaims(c) ==
    /\ call[c] = "idle"
    /\ fingerprint = None
    /\ call' = [call EXCEPT ![c] = "own"]
    /\ fingerprint' = text[c]
    /\ future' = "pending"
    /\ root' = "working"
    /\ phase' = "planning"
    /\ UNCHANGED <<text, answer, plan, stepVars, wire, agentVars>>

\* The future is resolved with a task or with the owner's exception.
CallAnswered(c) ==
    /\ call[c] \in {"join", "own"}
    /\ future # "pending"
    /\ call' = [call EXCEPT ![c] = "done"]
    /\ answer' = [answer EXCEPT ![c] = future]
    /\ UNCHANGED <<text, fingerprint, rootVars, stepVars, wire, agentVars>>

\* Mutant: the owner raises and leaves the future pending.
RaiseAlone ==
    /\ phase' = "raised"
    /\ UNCHANGED <<root, future>>

\* except BaseException: the waiters are told, the stored task is not touched.
Raise ==
    /\ future' = "raised"
    /\ phase' = "raised"
    /\ UNCHANGED root

-----------------------------------------------------------------------------
(* Dispatcher.run *)

\* validate_plan's visit: every set of steps has one that needs no other.
Acyclic(deps) ==
    \A S \in (SUBSET DOMAIN deps) \ {{}} : \E s \in S : deps[s] \cap S = {}

\* Mutant: a dependency only has to be over.
ReadyWhenOver(deps, st) ==
    {s \in DOMAIN deps :
        st[s] = "pending" /\ \A d \in deps[s] : st[d] \notin {"pending", "running"}}

\* ready_steps
Ready(deps, st) ==
    {s \in DOMAIN deps :
        st[s] = "pending" /\ \A d \in deps[s] : st[d] = "succeeded"}

\* Aggregator.collect
Collect(deps, st) ==
    IF \A s \in DOMAIN deps : st[s] = "succeeded" THEN "completed" ELSE "failed"

\* Start what is ready, then wait for the first coroutine to end.
StartReady(deps, st, run) ==
    LET ready == Ready(deps, st)
    IN  /\ ready \cup run # {}
        /\ status' = [s \in Steps |-> IF s \in ready THEN "running" ELSE st[s]]
        /\ running' = run \cup ready
        /\ runner' = [s \in Steps |->
                IF s \in ready THEN "start" ELSE runner[s]]
        /\ phase' = "waiting"
        /\ UNCHANGED <<root, future, results>>

\* Nothing runs and nothing is ready: what is left is blocked.  The result is
\* aggregated, stored and handed to the waiters without another await.
Return(deps, st, run) ==
    LET blocked == {s \in DOMAIN deps : st[s] = "pending"}
    IN  /\ Ready(deps, st) \cup run = {}
        /\ status' = [s \in Steps |-> IF s \in blocked THEN "failed" ELSE st[s]]
        /\ results' = [s \in Steps |->
                IF s \in blocked THEN "blocked" ELSE results[s]]
        /\ running' = run
        /\ phase' = "returned"
        /\ root' = Collect(deps, status')
        /\ future' = root'
        /\ UNCHANGED runner

\* The planner has answered.
Planned(deps) ==
    /\ phase = "planning"
    /\ plan' = deps
    /\ IF deps = None
       THEN Raise /\ UNCHANGED <<status, results, running, runner>>
       ELSE IF ~Acyclic(deps)
       THEN Raise /\ UNCHANGED <<status, results, running, runner>>
       ELSE LET st == [s \in Steps |->
                        IF s \in DOMAIN deps THEN "pending" ELSE "absent"]
            IN  StartReady(deps, st, {}) \/ Return(deps, st, {})
    /\ UNCHANGED <<callVars, attempt, wire, agentVars>>

\* asyncio.wait(FIRST_COMPLETED) returned: forget every coroutine that ended.
Collected ==
    LET run == {s \in running : runner[s] # "done"}
    IN  /\ phase = "waiting"
        /\ run # running
        /\ StartReady(plan, status, run) \/ Return(plan, status, run)
        /\ UNCHANGED <<callVars, plan, attempt, wire, agentVars>>

-----------------------------------------------------------------------------
(* _run_step *)

Send(s, n) ==
    /\ runner' = [runner EXCEPT ![s] = "rpc"]
    /\ attempt' = [attempt EXCEPT ![s] = n]
    /\ wire' = wire \cup {[kind |-> "request", step |-> s, attempt |-> n]}
    /\ UNCHANGED <<callVars, rootVars, status, results, running, agentVars>>

FirstAttempt(s) == runner[s] = "start" /\ Send(s, 1)

\* After 2 ** (attempt - 1) seconds.
NextAttempt(s) == runner[s] = "backoff" /\ Send(s, attempt[s] + 1)

\* Mutant: one attempt too many.
AttemptFailsLate(s) ==
    /\ results' = [results EXCEPT ![s] = "failed"]
    /\ IF attempt[s] <= MaxAttempts
       THEN runner' = [runner EXCEPT ![s] = "backoff"] /\ UNCHANGED status
       ELSE /\ runner' = [runner EXCEPT ![s] = "done"]
            /\ status' = [status EXCEPT ![s] = "failed"]

\* Any exception, a task that is not completed included.
AttemptFails(s) ==
    /\ results' = [results EXCEPT ![s] = "failed"]
    /\ IF attempt[s] < MaxAttempts
       THEN runner' = [runner EXCEPT ![s] = "backoff"] /\ UNCHANGED status
       ELSE /\ runner' = [runner EXCEPT ![s] = "done"]
            /\ status' = [status EXCEPT ![s] = "failed"]

AttemptSucceeds(s) ==
    /\ results' = [results EXCEPT ![s] = "completed"]
    /\ runner' = [runner EXCEPT ![s] = "done"]
    /\ status' = [status EXCEPT ![s] = "succeeded"]

RepliesTo(s) == {m \in wire : m.kind = "reply" /\ m.step = s}

\* Mutant: a reply to any attempt is taken, at any time.
InboxOfStep(s, n) == attempt[s] >= n

\* Somebody waits for the reply to attempt n.
Inbox(s, n) == runner[s] = "rpc" /\ attempt[s] = n

\* The RPC times out, has no responders or loses its connection.
RpcFails(s) ==
    /\ runner[s] = "rpc"
    /\ AttemptFails(s)
    /\ wire' = wire \ RepliesTo(s)
    /\ UNCHANGED <<callVars, rootVars, running, attempt, agentVars>>

\* Mutant: any task the agent returns is a success.
CompletedIfAnswered(m) == m.state # "error"

CompletedReply(m) == m.state = "completed"

\* The reply to the request that is waited for.
ReceiveReply(s) ==
    /\ \E m \in RepliesTo(s) :
        /\ Inbox(s, m.attempt)
        /\ wire' = wire \ {m}
        /\ IF CompletedReply(m) THEN AttemptSucceeds(s) ELSE AttemptFails(s)
    /\ UNCHANGED <<callVars, rootVars, running, attempt, agentVars>>

-----------------------------------------------------------------------------
(* The agents, as AgentTasks shows them *)

\* Mutant: the agent forgets a task that is over.
NewToAgentOrOver(s) == agent[s] # "working"

NewToAgent(s) == agent[s] = "absent"

AgentAccepts(m) ==
    /\ m.kind = "request"
    /\ wire' = wire \ {m}
    /\ waiting' = waiting \cup {m}
    /\ IF NewToAgent(m.step)
       THEN /\ agent' = [agent EXCEPT ![m.step] = "working"]
            /\ runs' = [runs EXCEPT ![m.step] = @ + 1]
       ELSE UNCHANGED <<agent, runs>>
    /\ UNCHANGED <<callVars, rootVars, stepVars>>

\* A reply reaches the wire only while its inbox exists.
Answers(m, state) ==
    {r \in {[kind |-> "reply", step |-> m.step, attempt |-> m.attempt,
             state |-> state]} : Inbox(m.step, m.attempt)}

\* An unknown runtime, an agent that is overloaded.
AgentRefuses(m) ==
    /\ m.kind = "request"
    /\ wire' = (wire \ {m}) \cup Answers(m, "error")
    /\ UNCHANGED <<callVars, rootVars, stepVars, agentVars>>

AgentFinishes(s, state) ==
    /\ agent[s] = "working"
    /\ agent' = [agent EXCEPT ![s] = state]
    /\ UNCHANGED <<callVars, rootVars, stepVars, wire, waiting, runs>>

AgentReplies(m) ==
    /\ agent[m.step] \in Final
    /\ waiting' = waiting \ {m}
    /\ wire' = wire \cup Answers(m, agent[m.step])
    /\ UNCHANGED <<callVars, rootVars, stepVars, agent, runs>>

-----------------------------------------------------------------------------
Init ==
    /\ text \in [Calls -> Texts]
    /\ call = [c \in Calls |-> "idle"]
    /\ answer = [c \in Calls |-> "none"]
    /\ fingerprint = None
    /\ root = "absent"
    /\ future = "absent"
    /\ phase = "idle"
    /\ plan = None
    /\ status = [s \in Steps |-> "absent"]
    /\ results = [s \in Steps |-> "none"]
    /\ running = {}
    /\ runner = [s \in Steps |-> "idle"]
    /\ attempt = [s \in Steps |-> 0]
    /\ wire = {}
    /\ waiting = {}
    /\ agent = [s \in Steps |-> "absent"]
    /\ runs = [s \in Steps |-> 0]

Caller(c) == CallConflicts(c) \/ CallJoins(c) \/ CallClaims(c)

\* The steps of the orchestrator's event loop, timers included.
Loop ==
    \/ \E c \in Calls : CallAnswered(c)
    \/ \E deps \in Plan \cup {None} : Planned(deps)
    \/ Collected

RunStep(s) ==
    FirstAttempt(s) \/ NextAttempt(s) \/ RpcFails(s) \/ ReceiveReply(s)

Agents ==
    \/ \E m \in wire : AgentAccepts(m) \/ AgentRefuses(m)
    \/ \E m \in waiting : AgentReplies(m)
    \/ \E s \in Steps, state \in Final : AgentFinishes(s, state)

Next ==
    \/ \E c \in Calls : Caller(c)
    \/ Loop
    \/ \E s \in Steps : RunStep(s)
    \/ Agents

\* The event loop runs what can run and the RPC timeout fires.  Nothing is
\* assumed of the network, the agents or the callers.
Fairness ==
    /\ WF_vars(\E deps \in Plan \cup {None} : Planned(deps))
    /\ WF_vars(Collected)
    /\ \A c \in Calls : WF_vars(CallAnswered(c))
    /\ \A s \in Steps : WF_vars(RunStep(s))

Spec == Init /\ [][Next]_vars /\ Fairness

-----------------------------------------------------------------------------
(* Properties *)

\* What the root task, its steps and the wire may hold; no attempt is made
\* beyond max_attempts.
TypeOK ==
    /\ text \in [Calls -> Texts]
    /\ call \in [Calls -> {"idle", "join", "own", "done"}]
    /\ answer \in [Calls -> {"none", "conflict", "raised", "completed", "failed"}]
    /\ fingerprint \in Texts \cup {None}
    /\ root \in {"absent", "working", "completed", "failed"}
    /\ future \in {"absent", "pending", "raised", "completed", "failed"}
    /\ phase \in {"idle", "planning", "waiting", "raised", "returned"}
    /\ plan \in Plan \cup {None}
    /\ status \in [Steps -> {"absent", "pending", "running", "succeeded", "failed"}]
    /\ results \in [Steps -> {"none", "completed", "failed", "blocked"}]
    /\ running \subseteq Steps
    /\ runner \in [Steps -> {"idle", "start", "rpc", "backoff", "done"}]
    /\ attempt \in [Steps -> 0 .. MaxAttempts]
    /\ wire \subseteq Request \cup Reply
    /\ waiting \subseteq Request
    /\ agent \in [Steps -> Final \cup {"absent", "working"}]
    /\ runs \in [Steps -> Nat]

\* No agent starts a step before every step it depends on has completed at its
\* own agent, whatever was lost, late or retried (Dispatcher.run).
DependenciesFirst ==
    \A s \in Steps : runs[s] > 0 =>
        \A d \in plan[s] : agent[d] = "completed"

\* However often a step is sent again, with replies lost or late, it is
\* started once: every attempt carries the same task id (_run_step).
StepRunsOnce == \A s \in Steps : runs[s] <= 1

\* A root task that is reported completed had every step of its plan run to
\* completion, and one that failed has a step that failed or was blocked by a
\* step that failed; nothing is left pending or running (run, collect).
VerdictIsTrue ==
    phase = "returned" =>
        /\ root = "completed" =>
            \A s \in DOMAIN plan : agent[s] = "completed"
        /\ root = "failed" => \E s \in DOMAIN plan : results[s] = "failed"
        /\ \A s \in DOMAIN plan :
            /\ status[s] = "succeeded" <=> results[s] = "completed"
            /\ status[s] \in {"succeeded", "failed"}
            /\ results[s] = "blocked" =>
                runs[s] = 0 /\ \E d \in plan[s] : status[d] = "failed"

\* A step that is settled stays settled: a late reply does not revive it.
SettledStays ==
    [][\A s \in Steps : status[s] \in {"succeeded", "failed"} =>
            status'[s] = status[s]]_vars

\* handle_task always ends and answers every caller, though agents may never
\* answer: a cyclic plan is refused, and attempts are bounded and timed.
EveryCallEnds == \A c \in Calls : call[c] # "idle" ~> call[c] = "done"

\* A plan that is not a DAG is refused and its root task has failed
\* (docs/specs, the table of failures: "Task FAILED").
RefusedPlanFails == phase = "raised" /\ plan # None => root = "failed"
=============================================================================
