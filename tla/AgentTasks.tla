----------------------------- MODULE AgentTasks -----------------------------
(***************************************************************************)
(* The task table of one agent: AgentRuntime (runtime/agent.py) and the    *)
(* Executor it runs a task's command with (runtime/executor.py).           *)
(*                                                                         *)
(* Every RPC is a coroutine on one event loop, so a step is the code       *)
(* between two suspension points; pc says at which await a call waits.     *)
(* _task_state_lock is never held over an await: a claim and a finish are  *)
(* single steps.  A call that names an id already claimed with the same    *)
(* fingerprint joins it and waits for the same future; a cancel call sets  *)
(* the event of a registered task and waits for that future too.  Awaits   *)
(* may fail, time out, or end in CancelledError once close() was called.   *)
(*                                                                         *)
(* Abstractions.  A payload stands for what _task_fingerprint hashes.  A   *)
(* request for an unknown runtime or a directory outside the workspace is  *)
(* refused before anything is read, so it is no step; nor is get_task.     *)
(* Output is one of four outcomes; "canceled" is a run that ended well and *)
(* printed just that word, which handle_task compares with.                *)
(***************************************************************************)
EXTENDS Naturals, FiniteSets

CONSTANTS
    Calls,      \* the RPC calls of a behaviour
    TaskIds,    \* metadata.taskId values
    Payloads,   \* fingerprints
    None        \* Python's None

ASSUME NoneAssumption == None \notin Payloads \cup Calls

Final == {"completed", "failed", "canceled"}
Outcome == {"ok", "error", "canceled"}

\* message/send (session: with a sessionId), message/stream, tasks/cancel
Request ==
    {r \in [kind : {"send", "stream", "cancel"}, id : TaskIds,
            payload : Payloads, session : BOOLEAN] :
        r.session => r.kind = "send"}

VARIABLES
    req,            \* what each call asks for (never changes)
    pc,             \* the await a call is suspended at
    note,           \* why its run is being terminated, or how it ended
    result,         \* what the caller is told
    killed,         \* calls whose task.cancel() is not delivered yet
    fingerprints,   \* _task_fingerprints
    tasks,          \* _tasks, the state only
    futures,        \* _task_futures
    cancels,        \* _cancels, and whether the event is set
    inflight,       \* _inflight
    procs,          \* the child process of a task
    owner,          \* the call that claimed an id
    runs,           \* how often a child was started for an id
    closing,        \* close() has cancelled the calls it found
    closed          \* and then unsubscribed

tableVars == <<fingerprints, tasks, futures, owner>>
regVars == <<cancels, inflight>>
callVars == <<pc, note, result, killed>>
procVars == <<procs, runs>>
closeVars == <<closing, closed>>
vars == <<req, callVars, tableVars, regVars, procVars, closeVars>>

IdOf(c) == req[c].id

\* Call c waits at p and no CancelledError is about to hit it.
At(c, p) == pc[c] = p /\ c \notin killed

Goto(c, p) == pc' = [pc EXCEPT ![c] = p]

\* The call ends; r is what it answers.
Answer(c, r) ==
    /\ pc' = [pc EXCEPT ![c] = "done"]
    /\ result' = [result EXCEPT ![c] = r]

-----------------------------------------------------------------------------
(* Claiming an id *)

Arrives(c) == pc[c] = "idle" /\ ~closed /\ req[c].kind \in {"send", "stream"}

\* Mutant: a repeated request is a conflict too.
ClaimConflictAlways(c) ==
    /\ Arrives(c)
    /\ fingerprints[IdOf(c)] # None
    /\ Answer(c, "conflict")
    /\ UNCHANGED <<req, note, killed, tableVars, regVars, procVars, closeVars>>

ClaimConflict(c) ==
    /\ Arrives(c)
    /\ fingerprints[IdOf(c)] \notin {None, req[c].payload}
    /\ Answer(c, "conflict")
    /\ UNCHANGED <<req, note, killed, tableVars, regVars, procVars, closeVars>>

\* Mutant: the id alone is compared, not what was asked.
SameIdClaimed(c) == fingerprints[IdOf(c)] # None

SameRequestClaimed(c) == fingerprints[IdOf(c)] = req[c].payload

\* The id is known: wait for its future (a stream is told the id first).
ClaimJoin(c) ==
    /\ Arrives(c)
    /\ SameRequestClaimed(c)
    /\ Goto(c, IF req[c].kind = "stream" THEN "announce" ELSE "join")
    /\ UNCHANGED <<req, note, result, killed, tableVars, regVars, procVars,
                   closeVars>>

\* From here on the task can be cancelled.
Register(id) ==
    /\ cancels' = [cancels EXCEPT ![id] = "clear"]
    /\ inflight' = inflight \cup {id}

\* Mutant: only a running task is joined, a finished id is claimed again.
UnclaimedOrFinished(c) ==
    \/ fingerprints[IdOf(c)] = None
    \/ futures[IdOf(c)] \in Final

Unclaimed(c) == fingerprints[IdOf(c)] = None

\* A new id.  A send registers itself at once; a stream first emits the id.
ClaimOwn(c) ==
    /\ Arrives(c)
    /\ Unclaimed(c)
    /\ fingerprints' = [fingerprints EXCEPT ![IdOf(c)] = req[c].payload]
    /\ futures' = [futures EXCEPT ![IdOf(c)] = "pending"]
    /\ tasks' = [tasks EXCEPT ![IdOf(c)] = "working"]
    /\ owner' = [owner EXCEPT ![IdOf(c)] = c]
    /\ IF req[c].kind = "stream"
       THEN Goto(c, "announce") /\ UNCHANGED regVars
       ELSE /\ Goto(c, IF req[c].session THEN "append" ELSE "spawn")
            /\ Register(IdOf(c))
    /\ UNCHANGED <<req, note, result, killed, procVars, closeVars>>

\* emit({"kind": "task-id"}), between the claim and the registration.
Announce(c) ==
    /\ At(c, "announce")
    /\ IF owner[IdOf(c)] = c
       THEN Goto(c, "spawn") /\ Register(IdOf(c))
       ELSE Goto(c, "join") /\ UNCHANGED regVars
    /\ UNCHANGED <<req, note, result, killed, tableVars, procVars, closeVars>>

AnnounceFails(c) ==
    /\ At(c, "announce")
    /\ Answer(c, "error")
    /\ UNCHANGED <<req, note, killed, tableVars, regVars, procVars, closeVars>>

Join(c) ==
    /\ At(c, "join")
    /\ futures[IdOf(c)] \in Final
    /\ result' = [result EXCEPT ![c] = futures[IdOf(c)]]
    /\ Goto(c, IF req[c].kind = "stream" THEN "final" ELSE "done")
    /\ UNCHANGED <<req, note, killed, tableVars, regVars, procVars, closeVars>>

-----------------------------------------------------------------------------
(* Finishing a task *)

\* Mutant: the state is stored and nobody who waits is told.
FinishUnannounced(c, state) ==
    /\ cancels' = [cancels EXCEPT ![IdOf(c)] = "absent"]
    /\ inflight' = inflight \ {IdOf(c)}
    /\ tasks' = [tasks EXCEPT ![IdOf(c)] = state]
    /\ result' = [result EXCEPT ![c] = state]
    /\ UNCHANGED <<fingerprints, futures, owner>>

\* The finally block and _finish_task: no await lies between them.
Finish(c, state) ==
    /\ cancels' = [cancels EXCEPT ![IdOf(c)] = "absent"]
    /\ inflight' = inflight \ {IdOf(c)}
    /\ tasks' = [tasks EXCEPT ![IdOf(c)] = state]
    /\ futures' = [futures EXCEPT
            ![IdOf(c)] = IF @ = "pending" THEN state ELSE @]
    /\ result' = [result EXCEPT ![c] = state]
    /\ UNCHANGED <<fingerprints, owner>>

\* Where an owner waits after its task is finished.
AfterFinish(c) ==
    IF req[c].kind = "stream" THEN "final"
    ELSE IF req[c].session THEN "record" ELSE "done"

\* Mutant: only the executor's word decides.
FinalStateOfOutcome(c) ==
    CASE note[c] = "canceled" -> "canceled"
      [] note[c] = "ok" -> "completed"
      [] OTHER -> "failed"

\* Mutant: the executor's word is stored as the state.
FinalStateUnmapped(c) == note[c]

\* cancel_evt.is_set() or result.output == "canceled"
FinalState(c) ==
    IF cancels[IdOf(c)] = "set" \/ note[c] = "canceled" THEN "canceled"
    ELSE IF note[c] = "ok" THEN "completed" ELSE "failed"

\* The executor has returned and its finally block is through.
Settle(c) ==
    /\ At(c, "settle")
    /\ Finish(c, FinalState(c))
    /\ Goto(c, AfterFinish(c))
    /\ UNCHANGED <<req, note, killed, procVars, closeVars>>

\* An exception ends in the dead-letter queue (published or not) and "failed".
DeadLetter(c) ==
    /\ At(c, "dlq")
    /\ Finish(c, "failed")
    /\ Goto(c, AfterFinish(c))
    /\ UNCHANGED <<req, note, killed, procVars, closeVars>>

\* The response is recorded in the session; a failure is only logged.
RecordResponse(c) ==
    /\ At(c, "record")
    /\ Goto(c, "done")
    /\ UNCHANGED <<req, note, result, killed, tableVars, regVars, procVars,
                   closeVars>>

EmitFinal(c) ==
    /\ At(c, "final")
    /\ Goto(c, "done")
    /\ UNCHANGED <<req, note, result, killed, tableVars, regVars, procVars,
                   closeVars>>

EmitFinalFails(c) ==
    /\ At(c, "final")
    /\ Answer(c, "error")
    /\ UNCHANGED <<req, note, killed, tableVars, regVars, procVars, closeVars>>

-----------------------------------------------------------------------------
(* Running the command *)

SessionAppend(c) ==
    /\ At(c, "append")
    /\ \/ Goto(c, "spawn")
       \/ Goto(c, "dlq")
    /\ UNCHANGED <<req, note, result, killed, tableVars, regVars, procVars,
                   closeVars>>

Spawn(c) ==
    /\ At(c, "spawn")
    /\ Goto(c, "running")
    /\ procs' = [procs EXCEPT ![IdOf(c)] = "running"]
    /\ runs' = [runs EXCEPT ![IdOf(c)] = @ + 1]
    /\ UNCHANGED <<req, note, result, killed, tableVars, regVars, closeVars>>

SpawnFails(c) ==
    /\ At(c, "spawn")
    /\ Goto(c, "dlq")
    /\ UNCHANGED <<req, note, result, killed, tableVars, regVars, procVars,
                   closeVars>>

\* The child exits by itself.
ProcessExits(id, outcome) ==
    /\ procs[id] = "running"
    /\ procs' = [procs EXCEPT ![id] = outcome]
    /\ UNCHANGED <<req, callVars, tableVars, regVars, runs, closeVars>>

\* asyncio.wait saw the exit; the event may be set without having been seen.
RunExited(c) ==
    /\ At(c, "running")
    /\ procs[IdOf(c)] \in Outcome
    /\ Goto(c, "drain")
    /\ UNCHANGED <<req, note, result, killed, tableVars, regVars, procVars,
                   closeVars>>

\* Both pipes are read to the end and the adapter parsed the output.
Drain(c) ==
    /\ At(c, "drain")
    /\ note' = [note EXCEPT ![c] = procs[IdOf(c)]]
    /\ Goto(c, "settle")
    /\ UNCHANGED <<req, result, killed, tableVars, regVars, procVars,
                   closeVars>>

\* The stream callback, the reader or the parser raised.
DrainFails(c) ==
    /\ At(c, "drain")
    /\ Goto(c, "dlq")
    /\ UNCHANGED <<req, note, result, killed, tableVars, regVars, procVars,
                   closeVars>>

\* The call starts to terminate its child.
Terminate(c, why) ==
    /\ Goto(c, "terminate")
    /\ note' = [note EXCEPT ![c] = why]
    /\ UNCHANGED <<req, result, tableVars, regVars, procVars, closeVars>>

RunCanceled(c) ==
    /\ At(c, "running")
    /\ cancels[IdOf(c)] = "set"
    /\ Terminate(c, "cancel")
    /\ UNCHANGED killed

\* Mutant: the timeout covers only the draining of the pipes.
DrainTimesOut(c) ==
    /\ At(c, "drain")
    /\ Terminate(c, "timeout")
    /\ UNCHANGED killed

\* asyncio.timeout covers the wait, the draining and the cancel's own
\* termination.
RunTimesOut(c) ==
    /\ \/ At(c, "running")
       \/ At(c, "drain")
       \/ At(c, "terminate") /\ note[c] = "cancel"
    /\ Terminate(c, "timeout")
    /\ UNCHANGED killed

\* Mutant: the timeout path returns without ending the child.
StopNothing(id) == procs

\* _terminate: SIGTERM, a second of patience, SIGKILL, wait.
Stop(id) ==
    [procs EXCEPT ![id] = IF @ = "running" THEN "killed" ELSE @]

\* The child is gone.  After a timeout the executor still has to settle;
\* after a cancel or a CancelledError the task is finished at once.
Terminated(c) ==
    /\ At(c, "terminate")
    /\ procs' = Stop(IdOf(c))
    /\ IF note[c] = "timeout"
       THEN Goto(c, "settle") /\ UNCHANGED <<result, tableVars, regVars>>
       ELSE /\ Finish(c, "canceled")
            /\ Goto(c, IF note[c] = "close" /\ req[c].kind = "send"
                       THEN "done" ELSE AfterFinish(c))
    /\ UNCHANGED <<req, note, killed, runs, closeVars>>

-----------------------------------------------------------------------------
(* tasks/cancel *)

ArrivesCancel(c) == pc[c] = "idle" /\ ~closed /\ req[c].kind = "cancel"

Cancelable(id) == cancels[id] # "absent" /\ tasks[id] = "working"

CancelTask(c) ==
    /\ ArrivesCancel(c)
    /\ Cancelable(IdOf(c))
    /\ cancels' = [cancels EXCEPT ![IdOf(c)] = "set"]
    /\ Goto(c, "await")
    /\ UNCHANGED <<req, note, result, killed, tableVars, inflight, procVars,
                   closeVars>>

CancelRefused(c) ==
    /\ ArrivesCancel(c)
    /\ ~Cancelable(IdOf(c))
    /\ Answer(c, "unavailable")
    /\ UNCHANGED <<req, note, killed, tableVars, regVars, procVars, closeVars>>

CancelConfirmed(c) ==
    /\ At(c, "await")
    /\ futures[IdOf(c)] \in Final
    /\ Answer(c, futures[IdOf(c)])
    /\ UNCHANGED <<req, note, killed, tableVars, regVars, procVars, closeVars>>

CancelTimesOut(c) ==
    /\ At(c, "await")
    /\ Answer(c, "unconfirmed")
    /\ UNCHANGED <<req, note, killed, tableVars, regVars, procVars, closeVars>>

-----------------------------------------------------------------------------
(* close *)

\* Every call under way is cancelled; new ones still arrive until the
\* subscription is gone.
Close ==
    /\ ~closing
    /\ closing' = TRUE
    /\ killed' = {c \in Calls : pc[c] \notin {"idle", "done"}}
    /\ UNCHANGED <<req, pc, note, result, tableVars, regVars, procVars, closed>>

Unsubscribe ==
    /\ closing
    /\ ~closed
    /\ closed' = TRUE
    /\ UNCHANGED <<req, callVars, tableVars, regVars, procVars, closing>>

Hit(c, ps) == c \in killed /\ pc[c] \in ps /\ killed' = killed \ {c}

\* CancelledError while the child runs: terminate it first.
KilledRunning(c) ==
    /\ \/ Hit(c, {"running", "drain"})
       \/ Hit(c, {"terminate"}) /\ note[c] = "cancel"
    /\ Terminate(c, "close")

\* CancelledError inside the timeout's own clean-up: it is not caught there,
\* so the child may have had SIGTERM only.
KilledTerminating(c) ==
    /\ Hit(c, {"terminate"})
    /\ note[c] = "timeout"
    /\ procs' \in {procs, Stop(IdOf(c))}
    /\ Finish(c, "canceled")
    /\ Goto(c, IF req[c].kind = "stream" THEN "final" ELSE "done")
    /\ UNCHANGED <<req, note, runs, closeVars>>

KilledBeforeOrAfterRun(c) ==
    /\ Hit(c, {"append", "spawn", "settle"})
    /\ Finish(c, "canceled")
    /\ Goto(c, IF req[c].kind = "stream" THEN "final" ELSE "done")
    /\ UNCHANGED <<req, note, procVars, closeVars>>

\* Inside the except block: the finally block runs, _finish_task does not.
KilledInDeadLetter(c) ==
    /\ Hit(c, {"dlq"})
    /\ cancels' = [cancels EXCEPT ![IdOf(c)] = "absent"]
    /\ inflight' = inflight \ {IdOf(c)}
    /\ Goto(c, "done")
    /\ UNCHANGED <<req, note, result, tableVars, procVars, closeVars>>

KilledWaiting(c) ==
    /\ Hit(c, {"announce", "join", "await", "record", "final"})
    /\ Goto(c, "done")
    /\ UNCHANGED <<req, note, result, tableVars, regVars, procVars, closeVars>>

-----------------------------------------------------------------------------
Init ==
    /\ req \in [Calls -> Request]
    /\ pc = [c \in Calls |-> "idle"]
    /\ note = [c \in Calls |-> "none"]
    /\ result = [c \in Calls |-> "none"]
    /\ killed = {}
    /\ fingerprints = [id \in TaskIds |-> None]
    /\ tasks = [id \in TaskIds |-> "absent"]
    /\ futures = [id \in TaskIds |-> "absent"]
    /\ cancels = [id \in TaskIds |-> "absent"]
    /\ inflight = {}
    /\ procs = [id \in TaskIds |-> "none"]
    /\ owner = [id \in TaskIds |-> None]
    /\ runs = [id \in TaskIds |-> 0]
    /\ closing = FALSE
    /\ closed = FALSE

Arrive(c) ==
    \/ ClaimConflict(c) \/ ClaimJoin(c) \/ ClaimOwn(c)
    \/ CancelTask(c) \/ CancelRefused(c)

\* The steps the event loop takes for a call that has arrived.
Proceed(c) ==
    \/ Announce(c) \/ AnnounceFails(c) \/ Join(c)
    \/ SessionAppend(c) \/ Spawn(c) \/ SpawnFails(c)
    \/ RunExited(c) \/ RunCanceled(c) \/ RunTimesOut(c)
    \/ Drain(c) \/ DrainFails(c) \/ Terminated(c) \/ Settle(c)
    \/ DeadLetter(c) \/ RecordResponse(c) \/ EmitFinal(c) \/ EmitFinalFails(c)
    \/ CancelConfirmed(c) \/ CancelTimesOut(c)
    \/ KilledRunning(c) \/ KilledTerminating(c) \/ KilledBeforeOrAfterRun(c)
    \/ KilledInDeadLetter(c) \/ KilledWaiting(c)

Next ==
    \/ \E c \in Calls : Arrive(c) \/ Proceed(c)
    \/ \E id \in TaskIds, outcome \in Outcome : ProcessExits(id, outcome)
    \/ Close
    \/ Unsubscribe

\* The event loop runs every coroutine that can run, and timers fire; a child
\* need never exit and a caller need never call.
Fairness == \A c \in Calls : WF_vars(Proceed(c))

Spec == Init /\ [][Next]_vars /\ Fairness

-----------------------------------------------------------------------------
(* Properties *)

\* What the tables, calls and processes may hold; a task never stores a word
\* the protocol does not know.
TypeOK ==
    /\ req \in [Calls -> Request]
    /\ pc \in [Calls -> {"idle", "append", "announce", "spawn", "running",
                         "drain", "terminate", "settle", "dlq", "record",
                         "final", "join", "await", "done"}]
    /\ note \in [Calls -> Outcome \cup {"none", "cancel", "timeout", "close"}]
    /\ result \in [Calls -> Final \cup {"none", "conflict", "error",
                                        "unavailable", "unconfirmed"}]
    /\ killed \subseteq Calls
    /\ fingerprints \in [TaskIds -> Payloads \cup {None}]
    /\ tasks \in [TaskIds -> Final \cup {"absent", "working"}]
    /\ futures \in [TaskIds -> Final \cup {"absent", "pending"}]
    /\ cancels \in [TaskIds -> {"absent", "clear", "set"}]
    /\ inflight \subseteq TaskIds
    /\ procs \in [TaskIds -> Outcome \cup {"none", "running", "killed"}]
    /\ owner \in [TaskIds -> Calls \cup {None}]
    /\ runs \in [TaskIds -> Nat]
    /\ closing \in BOOLEAN
    /\ closed \in BOOLEAN

\* However often a request is repeated, before, while or after it runs, its
\* command is started at most once (_claim_task).
AtMostOnce == \A id \in TaskIds : runs[id] <= 1

\* All callers of one id are told the same final state, the one tasks/get
\* reports, and none is told the outcome of another payload.
AnswersAgree ==
    \A c \in Calls : result[c] \in Final =>
        /\ result[c] = tasks[IdOf(c)]
        /\ req[c].kind # "cancel" => fingerprints[IdOf(c)] = req[c].payload

\* A cancel that was accepted is never answered with "completed": the run may
\* fail first, or the confirmation time out, but it does not win.
AcceptedCancelWins ==
    \A c \in Calls :
        req[c].kind = "cancel" /\ pc[c] = "done" => result[c] # "completed"

\* A child process belongs to a task that is working and can be cancelled, so
\* no finished task leaves one behind, unless close() interrupts the clean-up.
NoOrphan ==
    ~closing => \A id \in TaskIds :
        procs[id] = "running" => Cancelable(id) /\ id \in inflight

\* A call that has ended was told its result.
Service == INSTANCE TaskService WITH
    Ids <- TaskIds,
    asks <- req,
    told <- [c \in Calls |-> IF pc[c] = "done" THEN result[c] ELSE "pending"],
    claimed <- fingerprints,
    state <- tasks,
    starts <- runs

\* The agent keeps what TaskService promises its callers: whatever overlaps,
\* fails, times out or is cut off by close(), an id is claimed, started and
\* finished at most once, and what each caller is told is true at that moment
\* and ever after (_claim_task, _finish_task, handle_task, cancel).
ImplementsService == Service!Spec

\* The owner of the task is gone without having finished it.
Abandoned(id) ==
    tasks[id] = "working" /\ owner[id] # None /\ pc[owner[id]] = "done"

\* Every claimed task reaches a final state unless its owner was lost, though
\* the command may never end: the executor's timeout covers every wait.
EveryTaskEnds ==
    \A id \in TaskIds :
        tasks[id] = "working" ~> tasks[id] \in Final \/ Abandoned(id)

\* Every call is answered unless it joined an abandoned task.
EveryCallEnds ==
    \A c \in Calls :
        pc[c] # "idle" ~> pc[c] = "done" \/ Abandoned(IdOf(c))

\* While the agent is up, a stream call that ends, failed or not, leaves a
\* terminal task and nothing registered
\* (test_stream_failure_records_terminal_task_and_cleans_runtime_state).
StreamEndsTask ==
    ~closing => \A c \in Calls :
        req[c].kind = "stream" /\ pc[c] = "done" /\ owner[IdOf(c)] = c =>
            tasks[IdOf(c)] \in Final /\ IdOf(c) \notin inflight
=============================================================================
