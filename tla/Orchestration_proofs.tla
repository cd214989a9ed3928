------------------------ MODULE Orchestration_proofs ------------------------
(***************************************************************************)
(* Proofs about Orchestration, for every set of calls, prompts and steps,  *)
(* every plan and every number of attempts.                                *)
(***************************************************************************)
EXTENDS Orchestration, TLAPS

\* A call waits only for a root task that was claimed.
CallInv ==
    /\ phase = "idle" <=> fingerprint = None
    /\ future = "absent" <=> phase = "idle"
    /\ \A c \in Calls : call[c] \in {"join", "own"} => fingerprint # None

\* A plan was accepted, and the dispatcher works on it or is through with it.
Dispatched == phase \in {"waiting", "returned"}

\* Before that nothing of any step exists.
QuietInv ==
    /\ Dispatched => plan \in Plan /\ Acyclic(plan)
    /\ ~Dispatched => \A s \in Steps : status[s] = "absent" /\ runner[s] = "idle"

\* The dispatcher waits only for coroutines it has started, and for at least one.
WaitInv ==
    /\ \A s \in running : runner[s] # "idle"
    /\ phase = "waiting" => running # {}

\* A step whose coroutine was never started has reached nobody.
UnsentInv ==
    /\ \A s \in Steps : runner[s] = "idle" =>
        agent[s] = "absent" /\ results[s] \in {"none", "blocked"}
    /\ \A m \in wire \cup waiting : runner[m.step] # "idle"

\* Coroutine, status and collected result of a step agree.
StepInv ==
    \A s \in Steps :
        /\ runner[s] \in {"start", "rpc", "backoff"} =>
            /\ status[s] = "running"
            /\ s \in running
            /\ results[s] \in {"none", "failed"}
        /\ runner[s] = "backoff" => attempt[s] < MaxAttempts
        /\ runner[s] = "done" =>
            \/ status[s] = "succeeded" /\ results[s] = "completed"
            \/ status[s] = "failed" /\ results[s] = "failed"
        /\ runner[s] = "idle" =>
            \/ status[s] \in {"absent", "pending"} /\ results[s] = "none"
            \/ status[s] = "failed" /\ results[s] = "blocked" /\ phase = "returned"
        /\ Dispatched => (status[s] = "absent" <=> s \notin DOMAIN plan)

\* A step is started after all it needs has succeeded at its agent, and what an
\* agent says of a step is so.
AgentInv ==
    /\ \A s \in Steps : runner[s] # "idle" =>
        \A d \in plan[s] : status[d] = "succeeded"
    /\ \A s \in Steps : status[s] = "succeeded" => agent[s] = "completed"
    /\ \A s \in Steps : runs[s] = IF agent[s] = "absent" THEN 0 ELSE 1
    /\ \A m \in wire : m.kind = "reply" /\ m.state # "error" => agent[m.step] = m.state

\* When the dispatcher is through, the steps are settled and the verdict is theirs.
ReturnInv ==
    phase = "returned" =>
        /\ running = {}
        /\ root = Collect(plan, status)
        /\ \A s \in DOMAIN plan : status[s] \in {"succeeded", "failed"}
        /\ \A s \in DOMAIN plan : results[s] = "blocked" =>
            \E d \in plan[s] : status[d] = "failed"

\* The inductive invariant.
IInv ==
    /\ TypeOK
    /\ CallInv
    /\ QuietInv
    /\ WaitInv
    /\ UnsentInv
    /\ StepInv
    /\ AgentInv
    /\ ReturnInv

-----------------------------------------------------------------------------
(* Plans *)

\* A plan gives some of the steps dependencies among themselves.
LEMMA PlanType ==
    ASSUME NEW deps \in Plan
    PROVE  /\ DOMAIN deps \subseteq Steps
           /\ \A s \in DOMAIN deps : deps[s] \subseteq DOMAIN deps
<1>1. PICK S \in SUBSET Steps : deps \in [S -> SUBSET S]
  BY DEF Plan
<1>. QED
  BY <1>1

\* Of the steps of a DAG that have a property, one depends on none of the others.
LEMMA FirstOfDag ==
    ASSUME NEW deps \in Plan, Acyclic(deps), NEW S \in SUBSET DOMAIN deps, S # {}
    PROVE  \E s \in S : deps[s] \cap S = {}
BY DEF Acyclic

\* A message names a step.
LEMMA MessageType ==
    ASSUME wire \subseteq Request \cup Reply, waiting \subseteq Request,
           NEW m \in wire \cup waiting
    PROVE  /\ m.step \in Steps
           /\ m.attempt \in Attempt
           /\ m.kind = "request" => m \in Request
           /\ m.kind = "reply" => m \in Reply /\ m.state \in Final \cup {"error"}
BY DEF Request, Reply

-----------------------------------------------------------------------------
(* The steps of a call *)

\* Initially there is no root task, no step and no message.
LEMMA InitInv == Init => IInv
<1>. SUFFICES ASSUME Init PROVE IInv
  OBVIOUS
<1>1. TypeOK
  BY AttemptsAssumption DEF Init, TypeOK, Final
<1>2. CallInv
  BY DEF Init, CallInv
<1>3. QuietInv /\ WaitInv /\ ReturnInv
  BY DEF Init, QuietInv, WaitInv, Dispatched, ReturnInv
<1>4. UnsentInv /\ StepInv /\ AgentInv
  BY DEF Init, UnsentInv, StepInv, Dispatched, AgentInv
<1>. QED
  BY <1>1, <1>2, <1>3, <1>4 DEF IInv

\* What the invariant says of plan, steps and agents is about these variables.
LEMMA StepFrame ==
    ASSUME QuietInv, WaitInv, UnsentInv, StepInv, AgentInv, ReturnInv,
           UNCHANGED <<rootVars, stepVars, wire, agentVars>>
    PROVE  QuietInv' /\ WaitInv' /\ UnsentInv' /\ StepInv' /\ AgentInv' /\ ReturnInv'
<1>. USE DEF rootVars, stepVars, agentVars
<1>1. QuietInv' /\ WaitInv' /\ UnsentInv'
  BY DEF QuietInv, WaitInv, Dispatched, UnsentInv
<1>2. StepInv' /\ AgentInv'
  BY DEF StepInv, Dispatched, AgentInv
<1>3. ReturnInv'
  BY DEF ReturnInv, Collect
<1>. QED
  BY <1>1, <1>2, <1>3

\* A call that is refused, joins, claims the root task or is answered.
LEMMA CallerPreserves ==
    ASSUME IInv, NEW c \in Calls, Caller(c) \/ CallAnswered(c)
    PROVE  IInv'
<1>. USE DEF IInv
<1>1. CASE CallConflicts(c)
  <2>1. TypeOK'
    BY <1>1 DEF CallConflicts, TypeOK, rootVars, stepVars, agentVars
  <2>2. CallInv'
    BY <1>1 DEF CallConflicts, TypeOK, CallInv, rootVars
  <2>. QED
    BY <1>1, <2>1, <2>2, StepFrame DEF CallConflicts
<1>2. CASE CallJoins(c)
  <2>1. TypeOK'
    BY <1>2 DEF CallJoins, TypeOK, rootVars, stepVars, agentVars
  <2>2. CallInv'
    BY <1>2, NoneAssumption DEF CallJoins, TypeOK, CallInv, rootVars
  <2>. QED
    BY <1>2, <2>1, <2>2, StepFrame DEF CallJoins
<1>3. CASE CallClaims(c)
  <2>1. TypeOK'
    BY <1>3 DEF CallClaims, TypeOK, stepVars, agentVars
  <2>2. CallInv'
    BY <1>3, NoneAssumption DEF CallClaims, TypeOK, CallInv
  <2>3. phase = "idle"
    BY <1>3 DEF CallClaims, CallInv
  <2>4. QuietInv' /\ WaitInv' /\ ReturnInv'
    BY <1>3, <2>3 DEF CallClaims, QuietInv, WaitInv, ReturnInv, Dispatched, stepVars
  <2>5. UnsentInv' /\ AgentInv'
    BY <1>3 DEF CallClaims, UnsentInv, AgentInv, stepVars, agentVars
  <2>6. StepInv'
    BY <1>3, <2>3 DEF CallClaims, StepInv, Dispatched, stepVars
  <2>. QED
    BY <2>1, <2>2, <2>4, <2>5, <2>6
<1>4. CASE CallAnswered(c)
  <2>1. future # "absent"
    BY <1>4 DEF CallAnswered, CallInv
  <2>2. TypeOK'
    BY <1>4, <2>1 DEF CallAnswered, TypeOK, rootVars, stepVars, agentVars
  <2>3. CallInv'
    BY <1>4 DEF CallAnswered, TypeOK, CallInv, rootVars
  <2>. QED
    BY <1>4, <2>2, <2>3, StepFrame DEF CallAnswered
<1>. QED
  BY <1>1, <1>2, <1>3, <1>4 DEF Caller

-----------------------------------------------------------------------------
(* The dispatcher *)

\* What holds each time the dispatcher looks for work: deps is a DAG, st the
\* statuses it sees and run the coroutines it has not seen the end of.
LoopInv(deps, st, run) ==
    /\ deps \in Plan
    /\ Acyclic(deps)
    /\ st \in [Steps -> {"absent", "pending", "running", "succeeded", "failed"}]
    /\ run \subseteq Steps
    /\ \A s \in run : runner[s] # "idle"
    /\ \A s \in Steps :
        /\ runner[s] \in {"start", "rpc", "backoff"} =>
            st[s] = "running" /\ s \in run /\ results[s] \in {"none", "failed"}
        /\ runner[s] = "backoff" => attempt[s] < MaxAttempts
        /\ runner[s] = "done" =>
            \/ st[s] = "succeeded" /\ results[s] = "completed"
            \/ st[s] = "failed" /\ results[s] = "failed"
        /\ runner[s] = "idle" =>
            st[s] \in {"absent", "pending"} /\ results[s] = "none"
        /\ st[s] = "absent" <=> s \notin DOMAIN deps
        /\ runner[s] # "idle" => \A d \in deps[s] : st[d] = "succeeded"
        /\ st[s] = "succeeded" => agent[s] = "completed"

\* Starting what is ready preserves the invariant: a ready step was idle and
\* has only dependencies that have succeeded.
LEMMA StartReadyPreserves ==
    ASSUME IInv, NEW deps, NEW st, NEW run, LoopInv(deps, st, run),
           phase \in {"planning", "waiting"}, plan' = deps,
           StartReady(deps, st, run),
           UNCHANGED <<callVars, attempt, wire, agentVars>>
    PROVE  IInv'
<1>. DEFINE ready == Ready(deps, st)
<1>. USE DEF IInv
<1>1. /\ status' = [s \in Steps |-> IF s \in ready THEN "running" ELSE st[s]]
      /\ running' = run \cup ready /\ ready \cup run # {}
      /\ runner' = [s \in Steps |-> IF s \in ready THEN "start" ELSE runner[s]]
      /\ phase' = "waiting"
      /\ UNCHANGED <<root, future, results>>
  BY DEF StartReady
<1>2. DOMAIN deps \subseteq Steps /\ \A s \in DOMAIN deps : deps[s] \subseteq DOMAIN deps
  BY PlanType DEF LoopInv
<1>3. /\ ready \subseteq DOMAIN deps
      /\ \A s \in ready : st[s] = "pending" /\ \A d \in deps[s] : st[d] = "succeeded"
      /\ \A s \in Steps : st[s] = "succeeded" => s \notin ready
  BY DEF Ready
<1>4. \A s \in ready : runner[s] = "idle" /\ results[s] = "none"
  BY <1>2, <1>3 DEF LoopInv, TypeOK
<1>. HIDE DEF ready
<1>5. TypeOK'
  BY <1>1, <1>2, <1>3 DEF TypeOK, LoopInv, callVars, agentVars
<1>6. CallInv'
  BY <1>1 DEF CallInv, callVars
<1>7. QuietInv' /\ WaitInv' /\ ReturnInv'
  BY <1>1, <1>2, <1>3 DEF QuietInv, WaitInv, ReturnInv, Dispatched, LoopInv
<1>8. UnsentInv'
  <2>1. \A s \in Steps : runner'[s] = "idle" => runner[s] = "idle"
    BY <1>1
  <2>2. \A m \in wire \cup waiting : m.step \in Steps
    BY MessageType DEF TypeOK
  <2>. QED
    BY <1>1, <2>1, <2>2 DEF UnsentInv, agentVars
<1>9. StepInv'
  <2>. SUFFICES ASSUME NEW s \in Steps PROVE StepInv!(s)'
    BY DEF StepInv
  <2>1. CASE s \in ready
    BY <2>1, <1>1, <1>2, <1>3, <1>4 DEF Dispatched
  <2>2. CASE s \notin ready
    BY <2>2, <1>1 DEF LoopInv, TypeOK, Dispatched
  <2>. QED
    BY <2>1, <2>2
<1>10. AgentInv'
  <2>1. \A s \in Steps : runner'[s] # "idle" => \A d \in deps[s] : status'[d] = "succeeded"
    <3>. SUFFICES ASSUME NEW s \in Steps, runner'[s] # "idle", NEW d \in deps[s]
                  PROVE  status'[d] = "succeeded"
      OBVIOUS
    <3>1. st[d] = "succeeded"
      BY <1>1, <1>3 DEF LoopInv
    <3>2. s \in DOMAIN deps
      BY <1>1, <1>3, <1>4 DEF LoopInv, TypeOK
    <3>3. d \in Steps
      BY <1>2, <3>2
    <3>. QED
      BY <1>1, <1>3, <3>1, <3>3
  <2>2. \A s \in Steps : status'[s] = "succeeded" => agent'[s] = "completed"
    BY <1>1 DEF LoopInv, agentVars
  <2>. QED
    BY <2>1, <2>2 DEF AgentInv, agentVars
<1>. QED
  BY <1>5, <1>6, <1>7, <1>8, <1>9, <1>10

\* Returning preserves the invariant: nothing runs, so a step that is pending
\* and not ready has a dependency that failed or is blocked with it.
LEMMA ReturnPreserves ==
    ASSUME IInv, NEW deps, NEW st, NEW run, LoopInv(deps, st, run),
           phase \in {"planning", "waiting"}, plan' = deps,
           Return(deps, st, run),
           UNCHANGED <<callVars, attempt, wire, agentVars>>
    PROVE  IInv'
<1>. DEFINE blocked == {s \in DOMAIN deps : st[s] = "pending"}
<1>. USE DEF IInv
<1>1. /\ status' = [s \in Steps |-> IF s \in blocked THEN "failed" ELSE st[s]]
      /\ results' = [s \in Steps |-> IF s \in blocked THEN "blocked" ELSE results[s]]
      /\ running' = {}
      /\ phase' = "returned"
      /\ root' = Collect(deps, status')
      /\ future' = root'
      /\ runner' = runner
  BY DEF Return
<1>2. DOMAIN deps \subseteq Steps /\ \A s \in DOMAIN deps : deps[s] \subseteq DOMAIN deps
  BY PlanType DEF LoopInv
<1>3. \A s \in Steps : runner[s] \in {"idle", "done"}
  BY DEF Return, LoopInv, TypeOK
<1>4. \A s \in DOMAIN deps : s \in blocked <=> runner[s] = "idle"
  BY <1>2, <1>3 DEF LoopInv
<1>5. \A s \in DOMAIN deps : status'[s] \in {"succeeded", "failed"}
  BY <1>1, <1>2, <1>3, <1>4 DEF LoopInv
<1>6. \A s \in blocked : \E d \in deps[s] : status'[d] = "failed"
  <2>. SUFFICES ASSUME NEW s \in blocked PROVE \E d \in deps[s] : status'[d] = "failed"
    OBVIOUS
  <2>1. PICK d \in deps[s] : st[d] # "succeeded"
    BY DEF Return, Ready
  <2>2. d \in DOMAIN deps
    BY <1>2, <2>1
  <2>3. status'[d] # "succeeded"
    BY <1>1, <1>2, <2>1, <2>2
  <2>. QED
    BY <1>5, <2>1, <2>2, <2>3
<1>7. root' \in {"completed", "failed"}
  BY <1>1 DEF Collect
<1>8. blocked \subseteq Steps /\ \A s \in blocked : st[s] # "succeeded"
  BY <1>2
<1>9. \A s \in DOMAIN deps : results'[s] = "blocked" => s \in blocked
  BY <1>1, <1>2, <1>3 DEF LoopInv
<1>. HIDE DEF blocked
<1>10. TypeOK'
  BY <1>1, <1>7, <1>8 DEF TypeOK, LoopInv, callVars, agentVars
<1>11. CallInv'
  BY <1>1, <1>7 DEF CallInv, callVars
<1>12. QuietInv' /\ WaitInv'
  BY <1>1 DEF QuietInv, WaitInv, Dispatched, LoopInv
<1>13. ReturnInv'
  BY <1>1, <1>5, <1>6, <1>9 DEF ReturnInv
<1>14. UnsentInv'
  <2>1. \A s \in Steps : runner'[s] = "idle" =>
            agent'[s] = "absent" /\ results'[s] \in {"none", "blocked"}
    BY <1>1 DEF UnsentInv, agentVars
  <2>. QED
    BY <1>1, <2>1 DEF UnsentInv, agentVars
<1>15. StepInv'
  <2>. SUFFICES ASSUME NEW s \in Steps PROVE StepInv!(s)'
    BY DEF StepInv
  <2>1. CASE s \in DOMAIN deps
    BY <2>1, <1>1, <1>2, <1>3, <1>4 DEF LoopInv, Dispatched
  <2>2. CASE s \notin DOMAIN deps
    <3>1. st[s] = "absent" /\ s \notin blocked
      BY <2>2 DEF LoopInv, blocked
    <3>. QED
      BY <2>2, <3>1, <1>1, <1>3 DEF LoopInv, Dispatched
  <2>. QED
    BY <2>1, <2>2
<1>16. AgentInv'
  <2>1. \A s \in Steps : runner'[s] # "idle" => \A d \in deps[s] : status'[d] = "succeeded"
    <3>. SUFFICES ASSUME NEW s \in Steps, runner[s] # "idle", NEW d \in deps[s]
                  PROVE  status'[d] = "succeeded"
      BY <1>1
    <3>1. st[d] = "succeeded"
      BY DEF LoopInv
    <3>2. s \in DOMAIN deps
      BY <1>3 DEF LoopInv
    <3>3. d \in Steps
      BY <1>2, <3>2
    <3>. QED
      BY <1>1, <1>8, <3>1, <3>3
  <2>2. \A s \in Steps : status'[s] = "succeeded" => agent'[s] = "completed"
    BY <1>1 DEF LoopInv, agentVars
  <2>. QED
    BY <1>1, <2>1, <2>2 DEF AgentInv, agentVars
<1>. QED
  BY <1>10, <1>11, <1>12, <1>13, <1>14, <1>15, <1>16

\* The planner's answer is refused, or the dispatcher's first turn.
LEMMA PlannedPreserves ==
    ASSUME IInv, NEW deps \in Plan \cup {None}, Planned(deps)
    PROVE  IInv'
<1>. USE DEF IInv
<1>1. phase = "planning" /\ plan' = deps /\ UNCHANGED <<callVars, attempt, wire, agentVars>>
  BY DEF Planned
<1>2. CASE Raise /\ UNCHANGED <<status, results, running, runner>>
  <2>1. TypeOK'
    BY <1>1, <1>2 DEF Raise, TypeOK, callVars, agentVars
  <2>2. CallInv'
    BY <1>1, <1>2 DEF Raise, CallInv, callVars
  <2>3. QuietInv' /\ WaitInv' /\ ReturnInv'
    BY <1>1, <1>2 DEF Raise, QuietInv, WaitInv, ReturnInv, Dispatched
  <2>4. UnsentInv'
    BY <1>1, <1>2 DEF UnsentInv, agentVars
  <2>5. StepInv'
    BY <1>1, <1>2 DEF Raise, StepInv, Dispatched
  <2>6. AgentInv'
    BY <1>1, <1>2 DEF QuietInv, Dispatched, AgentInv, agentVars
  <2>. QED
    BY <2>1, <2>2, <2>3, <2>4, <2>5, <2>6
<1>3. CASE deps # None /\ Acyclic(deps)
  <2>. DEFINE st == [s \in Steps |-> IF s \in DOMAIN deps THEN "pending" ELSE "absent"]
  <2>1. \A s \in Steps : runner[s] = "idle" /\ status[s] = "absent" /\ results[s] = "none"
    BY <1>1 DEF QuietInv, Dispatched, StepInv
  <2>2. LoopInv(deps, st, {})
    BY <1>3, <2>1 DEF LoopInv
  <2>3. StartReady(deps, st, {}) \/ Return(deps, st, {})
    BY <1>3 DEF Planned
  <2>. QED
    BY <1>1, <2>2, <2>3, StartReadyPreserves, ReturnPreserves
<1>. QED
  BY <1>2, <1>3 DEF Planned

\* A later turn of the dispatcher.
LEMMA CollectedPreserves ==
    ASSUME IInv, Collected
    PROVE  IInv'
<1>. DEFINE run == {s \in running : runner[s] # "done"}
<1>1. /\ phase = "waiting"
      /\ StartReady(plan, status, run) \/ Return(plan, status, run)
      /\ UNCHANGED <<callVars, plan, attempt, wire, agentVars>>
  BY DEF Collected
<1>2. LoopInv(plan, status, run)
  BY <1>1 DEF IInv, TypeOK, QuietInv, WaitInv, Dispatched, StepInv, AgentInv, LoopInv
<1>. QED
  BY <1>1, <1>2, StartReadyPreserves, ReturnPreserves

-----------------------------------------------------------------------------
(* A step's coroutine *)

\* While a coroutine is at work the dispatcher is waiting, and the step is one
\* of the plan's that has not succeeded.
LEMMA AtWork ==
    ASSUME IInv, NEW s \in Steps, runner[s] \in {"start", "rpc", "backoff"}
    PROVE  /\ phase = "waiting"
           /\ plan \in Plan /\ s \in DOMAIN plan
           /\ status[s] = "running" /\ s \in running
<1>1. status[s] = "running" /\ s \in running
  BY DEF IInv, StepInv
<1>2. Dispatched /\ phase # "returned"
  BY <1>1 DEF IInv, QuietInv, ReturnInv
<1>. QED
  BY <1>1, <1>2 DEF IInv, QuietInv, StepInv, Dispatched

\* An attempt is sent.
LEMMA SendPreserves ==
    ASSUME IInv, NEW s \in Steps, FirstAttempt(s) \/ NextAttempt(s)
    PROVE  IInv'
<1>. USE DEF IInv
<1>1. PICK n \in Attempt : Send(s, n)
  BY AttemptsAssumption DEF FirstAttempt, NextAttempt, StepInv, TypeOK, Attempt
<1>2. runner[s] \in {"start", "backoff"}
  BY DEF FirstAttempt, NextAttempt
<1>3. phase = "waiting" /\ status[s] = "running"
  BY <1>2, AtWork
<1>. DEFINE m == [kind |-> "request", step |-> s, attempt |-> n]
<1>4. /\ runner' = [runner EXCEPT ![s] = "rpc"]
      /\ attempt' = [attempt EXCEPT ![s] = n]
      /\ wire' = wire \cup {m}
      /\ UNCHANGED <<callVars, rootVars, status, results, running, agentVars>>
  BY <1>1 DEF Send
<1>5. m \in Request
  BY DEF Request
<1>6. m.step = s /\ m.kind = "request"
  OBVIOUS
<1>. HIDE DEF m
<1>7. TypeOK'
  BY <1>4, <1>5 DEF TypeOK, Attempt, callVars, rootVars, agentVars
<1>8. CallInv'
  BY <1>4 DEF CallInv, callVars, rootVars
<1>9. QuietInv' /\ WaitInv' /\ ReturnInv'
  BY <1>3, <1>4 DEF QuietInv, WaitInv, ReturnInv, Dispatched, TypeOK, rootVars
<1>10. UnsentInv'
  <2>1. \A k \in wire \cup waiting : k.step \in Steps
    BY MessageType DEF TypeOK
  <2>. QED
    BY <1>2, <1>4, <1>6, <2>1 DEF UnsentInv, TypeOK, agentVars
<1>11. StepInv'
  BY <1>2, <1>3, <1>4 DEF StepInv, TypeOK, Dispatched, rootVars
<1>12. AgentInv'
  BY <1>2, <1>4, <1>6 DEF AgentInv, TypeOK, rootVars, agentVars
<1>. QED
  BY <1>7, <1>8, <1>9, <1>10, <1>11, <1>12

\* An attempt ends: the step succeeds if its agent completed it, or fails after
\* the last attempt, or waits for the next.  No message is added.
LEMMA AttemptEndsPreserves ==
    ASSUME IInv, NEW s \in Steps, runner[s] = "rpc",
           \/ AttemptSucceeds(s) /\ agent[s] = "completed"
           \/ AttemptFails(s),
           wire' \subseteq wire,
           UNCHANGED <<callVars, rootVars, running, attempt, agentVars>>
    PROVE  IInv'
<1>. USE DEF IInv
<1>1. phase = "waiting" /\ status[s] = "running" /\ plan \in Plan /\ s \in DOMAIN plan
  BY AtWork
<1>2. PICK r \in {"completed", "failed"}, w \in {"backoff", "done"},
           v \in {"running", "succeeded", "failed"} :
        /\ results' = [results EXCEPT ![s] = r]
        /\ runner' = [runner EXCEPT ![s] = w]
        /\ status' = [status EXCEPT ![s] = v]
        /\ \/ w = "backoff" /\ v = "running" /\ r = "failed" /\ attempt[s] < MaxAttempts
           \/ w = "done" /\ v = "failed" /\ r = "failed"
           \/ w = "done" /\ v = "succeeded" /\ r = "completed" /\ agent[s] = "completed"
  <2>1. CASE AttemptSucceeds(s) /\ agent[s] = "completed"
    BY <2>1 DEF AttemptSucceeds
  <2>2. CASE AttemptFails(s) /\ attempt[s] < MaxAttempts
    <3>1. status' = [status EXCEPT ![s] = "running"]
      BY <1>1, <2>2 DEF AttemptFails, TypeOK
    <3>. QED
      BY <2>2, <3>1 DEF AttemptFails
  <2>3. CASE AttemptFails(s) /\ ~(attempt[s] < MaxAttempts)
    BY <2>3 DEF AttemptFails
  <2>. QED
    BY <2>1, <2>2, <2>3
<1>3. \A d \in Steps : status[d] = "succeeded" => status'[d] = "succeeded"
  BY <1>1, <1>2 DEF TypeOK
<1>4. TypeOK'
  BY <1>2 DEF TypeOK, callVars, rootVars, agentVars
<1>5. CallInv'
  BY DEF CallInv, callVars, rootVars
<1>6. QuietInv' /\ WaitInv' /\ ReturnInv'
  BY <1>1, <1>2 DEF QuietInv, WaitInv, ReturnInv, Dispatched, TypeOK, rootVars
<1>7. UnsentInv'
  <2>1. \A k \in wire \cup waiting : k.step \in Steps
    BY MessageType DEF TypeOK
  <2>. QED
    BY <1>2, <2>1 DEF UnsentInv, TypeOK, agentVars
<1>8. StepInv'
  BY <1>1, <1>2 DEF StepInv, TypeOK, Dispatched, rootVars
<1>9. AgentInv'
  <2>1. ASSUME NEW t \in Steps, runner'[t] # "idle", NEW d \in plan[t]
        PROVE  status'[d] = "succeeded"
    <3>1. runner[t] # "idle" /\ status[d] = "succeeded"
      BY <1>2, <2>1 DEF TypeOK, AgentInv
    <3>2. t \in DOMAIN plan
      BY <1>1, <3>1 DEF StepInv, Dispatched, TypeOK
    <3>3. d \in Steps
      BY <1>1, <2>1, <3>2, PlanType
    <3>. QED
      BY <1>3, <3>1, <3>3
  <2>2. \A t \in Steps : status'[t] = "succeeded" => agent'[t] = "completed"
    BY <1>2 DEF AgentInv, TypeOK, agentVars
  <2>. QED
    BY <2>1, <2>2 DEF AgentInv, rootVars, agentVars
<1>. QED
  BY <1>4, <1>5, <1>6, <1>7, <1>8, <1>9

\* A step of a coroutine.
LEMMA RunStepPreserves ==
    ASSUME IInv, NEW s \in Steps, RunStep(s)
    PROVE  IInv'
<1>1. CASE RpcFails(s)
  BY <1>1, AttemptEndsPreserves DEF RpcFails
<1>2. CASE ReceiveReply(s)
  <2>1. PICK m \in RepliesTo(s) :
            /\ Inbox(s, m.attempt)
            /\ wire' = wire \ {m}
            /\ IF CompletedReply(m) THEN AttemptSucceeds(s) ELSE AttemptFails(s)
    BY <1>2 DEF ReceiveReply
  <2>2. m \in wire /\ m.kind = "reply" /\ m.step = s
    BY DEF RepliesTo
  <2>3. CompletedReply(m) => agent[s] = "completed"
    BY <2>2 DEF IInv, AgentInv, CompletedReply
  <2>. QED
    BY <1>2, <2>1, <2>3, AttemptEndsPreserves DEF ReceiveReply, Inbox
<1>. QED
  BY <1>1, <1>2, SendPreserves DEF RunStep

-----------------------------------------------------------------------------
(* The agents *)

\* The agents change the wire and what they know of a task that was sent.
LEMMA AgentFrame ==
    ASSUME IInv, UNCHANGED <<callVars, rootVars, stepVars>>
    PROVE  CallInv' /\ QuietInv' /\ WaitInv' /\ StepInv' /\ ReturnInv'
<1>. USE DEF IInv, callVars, rootVars, stepVars
<1>1. CallInv' /\ QuietInv' /\ WaitInv'
  BY DEF CallInv, QuietInv, WaitInv, Dispatched
<1>2. StepInv' /\ ReturnInv'
  BY DEF StepInv, Dispatched, ReturnInv, Collect
<1>. QED
  BY <1>1, <1>2

\* A reply is a message about the step it answers.
LEMMA AnswersType ==
    ASSUME NEW m, m.step \in Steps, m.attempt \in Attempt,
           NEW state \in Final \cup {"error"}, NEW r \in Answers(m, state)
    PROVE  /\ r \in Reply
           /\ r.kind = "reply" /\ r.step = m.step /\ r.state = state
BY DEF Answers, Reply

\* A request is accepted: the task is claimed, or joined.
LEMMA AgentAcceptsPreserves ==
    ASSUME IInv, NEW m \in wire, AgentAccepts(m)
    PROVE  IInv'
<1>. USE DEF IInv
<1>1. m \in Request /\ m.step \in Steps /\ runner[m.step] # "idle"
  BY MessageType DEF AgentAccepts, TypeOK, UnsentInv
<1>2. \A k \in wire : k.step \in Steps
  BY MessageType DEF TypeOK
<1>3. \A k \in wire : k.kind = "reply" => k.state \in Final \cup {"error"}
  BY MessageType DEF TypeOK
<1>4. /\ wire' = wire \ {m} /\ waiting' = waiting \cup {m}
      /\ UNCHANGED <<callVars, rootVars, stepVars>>
  BY DEF AgentAccepts
<1>5. CASE NewToAgent(m.step)
  <2>1. /\ agent[m.step] = "absent"
        /\ agent' = [agent EXCEPT ![m.step] = "working"]
        /\ runs' = [runs EXCEPT ![m.step] = @ + 1]
    BY <1>5 DEF AgentAccepts, NewToAgent
  <2>2. TypeOK'
    BY <1>1, <1>4, <2>1 DEF TypeOK, callVars, rootVars, stepVars
  <2>3. UnsentInv'
    BY <1>1, <1>4, <2>1 DEF UnsentInv, TypeOK, stepVars
  <2>4. AgentInv'
    <3>1. \A s \in Steps : status[s] = "succeeded" => agent'[s] = "completed"
      BY <1>1, <2>1 DEF AgentInv, TypeOK
    <3>2. \A s \in Steps : runs'[s] = IF agent'[s] = "absent" THEN 0 ELSE 1
      BY <1>1, <2>1 DEF AgentInv, TypeOK
    <3>3. \A k \in wire : k.kind = "reply" /\ k.state # "error" => agent'[k.step] = k.state
      BY <1>1, <1>2, <1>3, <2>1 DEF AgentInv, TypeOK, Final
    <3>. QED
      BY <1>4, <3>1, <3>2, <3>3 DEF AgentInv, rootVars, stepVars
  <2>. QED
    BY <1>4, <2>2, <2>3, <2>4, AgentFrame
<1>6. CASE ~NewToAgent(m.step)
  <2>1. UNCHANGED <<agent, runs>>
    BY <1>6 DEF AgentAccepts
  <2>2. TypeOK'
    BY <1>1, <1>4, <2>1 DEF TypeOK, callVars, rootVars, stepVars
  <2>3. UnsentInv' /\ AgentInv'
    BY <1>1, <1>4, <2>1 DEF UnsentInv, AgentInv, rootVars, stepVars
  <2>. QED
    BY <1>4, <2>2, <2>3, AgentFrame
<1>. QED
  BY <1>5, <1>6

\* A request is refused, with an error for whoever still waits for it.
LEMMA AgentRefusesPreserves ==
    ASSUME IInv, NEW m \in wire, AgentRefuses(m)
    PROVE  IInv'
<1>. USE DEF IInv
<1>. DEFINE R == Answers(m, "error")
<1>1. m.step \in Steps /\ m.attempt \in Attempt /\ runner[m.step] # "idle"
  BY MessageType DEF TypeOK, UnsentInv
<1>2. \A r \in R : r \in Reply /\ r.step = m.step /\ r.state = "error"
  BY <1>1, AnswersType
<1>3. wire' = (wire \ {m}) \cup R /\ UNCHANGED <<callVars, rootVars, stepVars, agentVars>>
  BY DEF AgentRefuses
<1>. HIDE DEF R
<1>4. TypeOK'
  BY <1>2, <1>3 DEF TypeOK, callVars, rootVars, stepVars, agentVars
<1>5. UnsentInv' /\ AgentInv'
  BY <1>1, <1>2, <1>3 DEF UnsentInv, AgentInv, rootVars, stepVars, agentVars
<1>. QED
  BY <1>3, <1>4, <1>5, AgentFrame

\* An agent's task reaches its final state: no reply has told of it yet.
LEMMA AgentFinishesPreserves ==
    ASSUME IInv, NEW s \in Steps, NEW state \in Final, AgentFinishes(s, state)
    PROVE  IInv'
<1>. USE DEF IInv
<1>1. /\ agent[s] = "working"
      /\ agent' = [agent EXCEPT ![s] = state]
      /\ UNCHANGED <<callVars, rootVars, stepVars, wire, waiting, runs>>
  BY DEF AgentFinishes
<1>2. \A k \in wire : k.step \in Steps
  BY MessageType DEF TypeOK
<1>3. \A k \in wire : k.kind = "reply" => k.state \in Final \cup {"error"}
  BY MessageType DEF TypeOK
<1>4. TypeOK'
  BY <1>1 DEF TypeOK, callVars, rootVars, stepVars
<1>5. UnsentInv'
  BY <1>1 DEF UnsentInv, TypeOK, stepVars
<1>6. AgentInv'
  BY <1>1, <1>2, <1>3 DEF AgentInv, TypeOK, Final, rootVars, stepVars
<1>. QED
  BY <1>1, <1>4, <1>5, <1>6, AgentFrame

\* An agent answers a request it had accepted, for whoever still waits for it.
LEMMA AgentRepliesPreserves ==
    ASSUME IInv, NEW m \in waiting, AgentReplies(m)
    PROVE  IInv'
<1>. USE DEF IInv
<1>. DEFINE R == Answers(m, agent[m.step])
<1>1. m.step \in Steps /\ m.attempt \in Attempt /\ runner[m.step] # "idle"
  BY MessageType DEF TypeOK, UnsentInv
<1>2. agent[m.step] \in Final
  BY DEF AgentReplies
<1>3. \A r \in R : r \in Reply /\ r.step = m.step /\ r.state = agent[m.step]
  BY <1>1, <1>2, AnswersType
<1>4. /\ wire' = wire \cup R /\ waiting' = waiting \ {m}
      /\ UNCHANGED <<callVars, rootVars, stepVars, agent, runs>>
  BY DEF AgentReplies
<1>. HIDE DEF R
<1>5. TypeOK'
  BY <1>3, <1>4 DEF TypeOK, callVars, rootVars, stepVars
<1>6. UnsentInv' /\ AgentInv'
  BY <1>1, <1>3, <1>4 DEF UnsentInv, AgentInv, rootVars, stepVars
<1>. QED
  BY <1>4, <1>5, <1>6, AgentFrame

-----------------------------------------------------------------------------
(* The theorems *)

\* Every step preserves the invariant.
LEMMA NextInv == IInv /\ [Next]_vars => IInv'
<1>. SUFFICES ASSUME IInv, [Next]_vars PROVE IInv'
  OBVIOUS
<1>1. CASE UNCHANGED vars
  <2>1. TypeOK' /\ CallInv'
    BY <1>1 DEF IInv, vars, callVars, rootVars, stepVars, agentVars, TypeOK, CallInv
  <2>. QED
    BY <1>1, <2>1, StepFrame DEF IInv, vars
<1>2. CASE \E c \in Calls : Caller(c)
  BY <1>2, CallerPreserves
<1>3. CASE Loop
  BY <1>3, CallerPreserves, PlannedPreserves, CollectedPreserves DEF Loop
<1>4. CASE \E s \in Steps : RunStep(s)
  BY <1>4, RunStepPreserves
<1>5. CASE Agents
  BY <1>5, AgentAcceptsPreserves, AgentRefusesPreserves, AgentRepliesPreserves,
     AgentFinishesPreserves DEF Agents
<1>. QED
  BY <1>1, <1>2, <1>3, <1>4, <1>5 DEF Next

\* The inductive invariant holds in every reachable state: callers, dispatcher,
\* coroutines and agents never disagree about a step.
THEOREM Invariance == Spec => []IInv
BY InitInv, NextInv, PTL DEF Spec

\* The root task, its steps and the wire hold what they may hold, and no
\* attempt goes beyond max_attempts (handle_task, _run_step).
THEOREM TypeCorrect == Spec => []TypeOK
<1>1. IInv => TypeOK
  BY DEF IInv
<1>. QED
  BY <1>1, Invariance, PTL

\* The dispatcher never waits for nothing: while it waits, a step it has started is at
\* work or has ended and is not collected (the safety half of EveryCallEnds;
\* Dispatcher.run, asyncio.wait).
THEOREM NeverWaitsForNothing ==
    Spec => [](phase = "waiting" =>
                \E s \in running : runner[s] \in {"start", "rpc", "backoff", "done"})
<1>1. IInv => (phase = "waiting" =>
                \E s \in running : runner[s] \in {"start", "rpc", "backoff", "done"})
  BY DEF IInv, WaitInv, TypeOK
<1>. QED
  BY <1>1, Invariance, PTL

\* An agent was started on a step of the plan only after the agents of all it
\* depends on had completed (Dispatcher.run, ready_steps).
THEOREM DependenciesAreFirst == Spec => []DependenciesFirst
<1>1. IInv => DependenciesFirst
  <2>. SUFFICES ASSUME IInv, NEW s \in Steps, runs[s] > 0, NEW d \in plan[s]
                PROVE  agent[d] = "completed"
    BY DEF DependenciesFirst
  <2>. USE DEF IInv
  <2>1. runner[s] # "idle"
    BY DEF AgentInv, UnsentInv
  <2>2. Dispatched /\ s \in DOMAIN plan
    BY <2>1 DEF QuietInv, StepInv, TypeOK
  <2>3. d \in Steps
    BY <2>2, PlanType DEF QuietInv
  <2>. QED
    BY <2>1, <2>3 DEF AgentInv
<1>. QED
  BY <1>1, Invariance, PTL

\* Retries and late messages never start a step twice: all attempts share the
\* task id (_run_step, _claim_task).
THEOREM StepsRunOnce == Spec => []StepRunsOnce
<1>1. IInv => StepRunsOnce
  BY DEF IInv, AgentInv, StepRunsOnce
<1>. QED
  BY <1>1, Invariance, PTL

\* The verdict on a root task is what its steps' agents did: completed means all
\* of them completed, failed means one of them failed.  From a blocked step one
\* gets to a failed one because the plan is a DAG (run, collect).
THEOREM VerdictHolds == Spec => []VerdictIsTrue
<1>1. IInv => VerdictIsTrue
  <2>. SUFFICES ASSUME IInv, phase = "returned"
                PROVE  VerdictIsTrue!2
    BY DEF VerdictIsTrue
  <2>. USE DEF IInv
  <2>1. plan \in Plan /\ Acyclic(plan)
    BY DEF QuietInv, Dispatched
  <2>2. DOMAIN plan \subseteq Steps /\ \A s \in DOMAIN plan : plan[s] \subseteq DOMAIN plan
    BY <2>1, PlanType
  <2>3. \A s \in DOMAIN plan : status[s] \in {"succeeded", "failed"}
    BY DEF ReturnInv
  <2>4. \A s \in DOMAIN plan : runner[s] \in {"idle", "done"}
    BY <2>2, <2>3 DEF StepInv, TypeOK
  <2>5. \A s \in DOMAIN plan : status[s] = "succeeded" <=> results[s] = "completed"
    BY <2>2, <2>3, <2>4 DEF StepInv
  <2>6. \A s \in DOMAIN plan : status[s] = "failed" => results[s] \in {"failed", "blocked"}
    BY <2>2, <2>3, <2>4 DEF StepInv
  <2>7. ASSUME NEW s \in DOMAIN plan, results[s] = "blocked"
        PROVE  runs[s] = 0 /\ \E d \in plan[s] : status[d] = "failed"
    <3>1. runner[s] = "idle"
      BY <2>2, <2>4, <2>7 DEF StepInv
    <3>2. runs[s] = 0
      BY <2>2, <3>1 DEF UnsentInv, AgentInv
    <3>. QED
      BY <2>7, <3>2 DEF ReturnInv
  <2>8. root = "completed" => \A s \in DOMAIN plan : agent[s] = "completed"
    BY <2>2 DEF ReturnInv, Collect, AgentInv
  <2>9. ASSUME root = "failed"
        PROVE  \E s \in DOMAIN plan : results[s] = "failed"
    <3>. DEFINE S == {s \in DOMAIN plan : results[s] = "blocked"}
    <3>1. PICK s \in DOMAIN plan : status[s] = "failed"
      BY <2>3, <2>9 DEF ReturnInv, Collect
    <3>2. CASE S = {}
      BY <2>6, <3>1, <3>2
    <3>3. CASE S # {}
      <4>1. PICK b \in S : plan[b] \cap S = {}
        BY <2>1, <3>3, FirstOfDag
      <4>2. PICK d \in plan[b] : status[d] = "failed"
        BY <2>7
      <4>3. d \in DOMAIN plan /\ d \notin S
        BY <2>2, <4>1, <4>2
      <4>. QED
        BY <2>6, <4>2, <4>3
    <3>. QED
      BY <3>2, <3>3
  <2>. QED
    BY <2>3, <2>5, <2>7, <2>8, <2>9
<1>. QED
  BY <1>1, Invariance, PTL

\* No step of the system unsettles a step of the plan: a coroutine settles only
\* a step that runs, and the dispatcher blocks only what is pending (_run_step,
\* Dispatcher.run).
THEOREM SettledForGood == Spec => SettledStays
<1>1. ASSUME IInv, [Next]_vars, NEW s \in Steps, status[s] \in {"succeeded", "failed"}
      PROVE  status'[s] = status[s]
  <2>1. CASE status' = status
    BY <2>1
  <2>2. ASSUME NEW deps \in Plan \cup {None}, Planned(deps)
        PROVE  FALSE
    BY <1>1, <2>2 DEF Planned, IInv, QuietInv, Dispatched
  <2>3. CASE Collected
    BY <1>1, <2>3 DEF Collected, StartReady, Return, Ready
  <2>4. ASSUME NEW t \in Steps, runner[t] = "rpc", AttemptFails(t) \/ AttemptSucceeds(t)
        PROVE  status'[s] = status[s]
    <3>1. s # t
      BY <1>1, <2>4, AtWork
    <3>. QED
      BY <1>1, <2>4, <3>1 DEF AttemptFails, AttemptSucceeds, IInv, TypeOK
  <2>5. ASSUME NEW t \in Steps, RunStep(t)
        PROVE  status'[s] = status[s]
    BY <2>1, <2>4, <2>5 DEF RunStep, FirstAttempt, NextAttempt, Send, RpcFails,
       ReceiveReply, Inbox
  <2>6. CASE (\E c \in Calls : Caller(c) \/ CallAnswered(c)) \/ Agents \/ UNCHANGED vars
    BY <2>1, <2>6 DEF Caller, CallConflicts, CallJoins, CallClaims, CallAnswered, Agents,
       AgentAccepts, AgentRefuses, AgentFinishes, AgentReplies, vars, stepVars
  <2>. QED
    BY <1>1, <2>2, <2>3, <2>5, <2>6 DEF Next, Loop
<1>2. IInv /\ [Next]_vars =>
        [\A s \in Steps : status[s] \in {"succeeded", "failed"} =>
            status'[s] = status[s]]_vars
  BY <1>1
<1>. QED
  BY <1>2, Invariance, PTL DEF Spec, SettledStays
=============================================================================
