-------------------------- MODULE AgentTasks_proofs --------------------------
(***************************************************************************)
(* Proofs about AgentTasks, for every set of calls, task ids and payloads. *)
(***************************************************************************)
EXTENDS AgentTasks, TLAPS

\* Where the owner of a task waits before its command was started, and where it
\* waits while the task is registered and not finished.
Early == {"append", "announce", "spawn"}
Busy == {"append", "spawn", "running", "drain", "terminate", "settle", "dlq"}

\* The tables name the same tasks, only those are registered, a future is pending as long as its task is
\* working, and a claimed id belongs to the call whose payload it records.
TableInv ==
    \A id \in TaskIds :
        /\ tasks[id] = "absent" <=> owner[id] = None
        /\ fingerprints[id] = None <=> owner[id] = None
        /\ owner[id] = None => cancels[id] = "absent"
        /\ futures[id] = IF tasks[id] = "working" THEN "pending" ELSE tasks[id]
        /\ owner[id] # None =>
            /\ IdOf(owner[id]) = id
            /\ req[owner[id]].kind # "cancel"
            /\ pc[owner[id]] # "idle"
            /\ fingerprints[id] = req[owner[id]].payload

\* What a call may rely on where it waits.
CallOk(c) ==
    LET id == IdOf(c)
    IN  /\ pc[c] \in Busy =>
            /\ owner[id] = c
            /\ tasks[id] = "working"
            /\ cancels[id] # "absent"
            /\ id \in inflight
        /\ pc[c] = "announce" =>
            /\ req[c].kind = "stream"
            /\ fingerprints[id] = req[c].payload
            /\ owner[id] = c => tasks[id] = "working" /\ cancels[id] = "absent"
        /\ pc[c] = "join" => fingerprints[id] = req[c].payload
        /\ pc[c] = "drain" => procs[id] \in Outcome
        /\ pc[c] = "await" =>
            /\ req[c].kind = "cancel"
            /\ owner[id] # None
            /\ pc[owner[id]] # "announce"
            /\ tasks[id] # "completed"
            /\ cancels[id] # "clear"
        /\ req[c].kind = "cancel" =>
            pc[c] \in {"idle", "await", "done"} /\ result[c] # "completed"
        /\ result[c] \in Final =>
            /\ result[c] = tasks[id]
            /\ req[c].kind # "cancel" => fingerprints[id] = req[c].payload
        /\ result[c] = "conflict" => fingerprints[id] \notin {None, req[c].payload}

CallInv == \A c \in Calls : CallOk(c)

\* The owner of a task that is working is at work on it and waits for no other
\* call, or it is gone: lost in close(), or a stream that could not be announced.
OwnerInv ==
    \A id \in TaskIds : tasks[id] = "working" =>
        /\ pc[owner[id]] \in Busy \cup {"announce", "done"}
        /\ pc[owner[id]] = "done" => closing \/ req[owner[id]].kind = "stream"

\* A command is started by the owner, which leaves the early waits with it.
RunInv ==
    \A id \in TaskIds :
        /\ runs[id] <= 1
        /\ owner[id] = None => runs[id] = 0
        /\ owner[id] # None /\ pc[owner[id]] \in Early => runs[id] = 0

\* Before close() no call is hit by CancelledError, and a child that runs is
\* watched or being ended by the owner of its task.
ProcInv ==
    ~closing =>
        /\ killed = {}
        /\ \A id \in TaskIds : procs[id] = "running" =>
            owner[id] # None /\ pc[owner[id]] \in {"running", "terminate"}

\* The inductive invariant.
IInv ==
    /\ TypeOK
    /\ TableInv
    /\ CallInv
    /\ OwnerInv
    /\ RunInv
    /\ ProcInv

Awaits == {"idle", "append", "announce", "spawn", "running", "drain", "terminate",
           "settle", "dlq", "record", "final", "join", "await", "done"}
Notes == Outcome \cup {"none", "cancel", "timeout", "close"}
Results == Final \cup {"none", "conflict", "error", "unavailable", "unconfirmed"}

-----------------------------------------------------------------------------
(* Facts about a state *)

\* What a request is made of.
LEMMA RequestType ==
    ASSUME TypeOK, NEW c \in Calls
    PROVE  /\ IdOf(c) \in TaskIds
           /\ req[c].payload \in Payloads
           /\ req[c].kind \in {"send", "stream", "cancel"}
<1>1. req[c] \in Request
  BY DEF TypeOK
<1>. QED
  BY <1>1 DEF Request, IdOf

\* Initially no id is claimed and no call has arrived.
LEMMA InitInv == Init => IInv
<1>. SUFFICES ASSUME Init PROVE IInv
  OBVIOUS
<1>1. TypeOK
  BY DEF Init, TypeOK
<1>2. TableInv
  BY DEF Init, TableInv
<1>3. CallInv
  BY DEF Init, CallInv, CallOk, Busy, Final
<1>4. OwnerInv /\ RunInv /\ ProcInv
  BY DEF Init, OwnerInv, RunInv, ProcInv
<1>. QED
  BY <1>1, <1>2, <1>3, <1>4 DEF IInv

\* The invariant is about the variables only.
LEMMA StutterInv == IInv /\ UNCHANGED vars => IInv'
<1>. SUFFICES ASSUME IInv, UNCHANGED vars PROVE IInv'
  OBVIOUS
<1>. USE DEF IInv, vars, callVars, tableVars, regVars, procVars, closeVars
<1>1. TypeOK'
  BY DEF TypeOK
<1>2. TableInv'
  BY DEF TableInv, IdOf
<1>3. CallInv'
  BY DEF CallInv, CallOk, IdOf
<1>4. OwnerInv' /\ RunInv' /\ ProcInv'
  BY DEF OwnerInv, RunInv, ProcInv
<1>. QED
  BY <1>1, <1>2, <1>3, <1>4

-----------------------------------------------------------------------------
(* A call moves and leaves the tables, the registry and the child alone *)

\* A call moves to q.  It may not step back before its command was started, and
\* it may not turn away from a child that runs.
LEMMA MovePreserves ==
    ASSUME IInv, NEW c \in Calls,
           NEW q \in Awaits \ {"idle"}, NEW n \in Notes, NEW r \in Results,
           Goto(c, q),
           note' = [note EXCEPT ![c] = n], result' = [result EXCEPT ![c] = r],
           killed' \subseteq killed,
           UNCHANGED <<req, tableVars, regVars, procVars, closeVars>>,
           CallOk(c)',
           owner[IdOf(c)] = c =>
             /\ q # "announce"
             /\ q \in Early => pc[c] \in Early
             /\ tasks[IdOf(c)] = "working" =>
                    q \in Busy \/ (q = "done" /\ (closing \/ req[c].kind = "stream"))
             /\ procs[IdOf(c)] = "running" /\ pc[c] \in {"running", "terminate"}
                    => q \in {"running", "terminate"}
    PROVE  IInv'
<1>. USE DEF IInv, tableVars, regVars, procVars, closeVars
<1>0. /\ pc' = [pc EXCEPT ![c] = q] /\ pc \in [Calls -> Awaits]
      /\ note \in [Calls -> Notes] /\ result \in [Calls -> Results]
  BY DEF Goto, TypeOK, Awaits, Notes, Results
<1>1. TypeOK'
  BY <1>0 DEF TypeOK, Awaits, Notes, Results
<1>2. TableInv'
  BY <1>0 DEF TableInv, TypeOK, IdOf
<1>3. CallInv'
  <2>. SUFFICES ASSUME NEW d \in Calls PROVE CallOk(d)'
    BY DEF CallInv
  <2>1. CASE d # c
    <3>1. pc'[d] = pc[d] /\ result'[d] = result[d]
      BY <1>0, <2>1
    <3>2. pc[d] = "await" => pc'[owner[IdOf(d)]] # "announce"
      <4>. SUFFICES ASSUME pc[d] = "await" PROVE pc'[owner[IdOf(d)]] # "announce"
        OBVIOUS
      <4>1. owner[IdOf(d)] # None /\ pc[owner[IdOf(d)]] # "announce"
        BY DEF CallInv, CallOk
      <4>2. owner[IdOf(d)] \in Calls /\ IdOf(owner[IdOf(d)]) = IdOf(d)
        BY <4>1, RequestType DEF TypeOK, TableInv
      <4>. QED
        BY <1>0, <4>1, <4>2
    <3>. QED
      BY <3>1, <3>2 DEF CallInv, CallOk, IdOf
  <2>. QED
    BY <2>1
<1>4. RunInv'
  <2>. SUFFICES ASSUME NEW id \in TaskIds, owner[id] # None, pc'[owner[id]] \in Early
                PROVE  runs[id] = 0
    BY DEF RunInv
  <2>1. owner[id] \in Calls /\ IdOf(owner[id]) = id
    BY DEF TypeOK, TableInv
  <2>. QED
    BY <1>0, <2>1 DEF RunInv
<1>5. ProcInv'
  <2>. SUFFICES ASSUME ~closing, NEW id \in TaskIds, procs[id] = "running"
                PROVE  owner[id] # None /\ pc'[owner[id]] \in {"running", "terminate"}
    BY DEF ProcInv
  <2>1. owner[id] # None /\ pc[owner[id]] \in {"running", "terminate"}
    BY DEF ProcInv
  <2>2. owner[id] \in Calls /\ IdOf(owner[id]) = id
    BY <2>1 DEF TypeOK, TableInv
  <2>. QED
    BY <1>0, <2>1, <2>2
<1>6. OwnerInv'
  <2>. SUFFICES ASSUME NEW id \in TaskIds, tasks[id] = "working"
                PROVE  /\ pc'[owner[id]] \in Busy \cup {"announce", "done"}
                       /\ pc'[owner[id]] = "done" => closing \/ req[owner[id]].kind = "stream"
    BY DEF OwnerInv
  <2>1. owner[id] \in Calls /\ IdOf(owner[id]) = id
    BY DEF TypeOK, TableInv
  <2>. QED
    BY <1>0, <2>1 DEF OwnerInv, Busy
<1>. QED
  BY <1>1, <1>2, <1>3, <1>4, <1>5, <1>6

\* A call that only moves on.
LEMMA GotoPreserves ==
    ASSUME IInv, NEW c \in Calls, NEW q \in Awaits \ {"idle"}, Goto(c, q),
           killed' \subseteq killed,
           UNCHANGED <<req, note, result, tableVars, regVars, procVars, closeVars>>,
           CallOk(c)',
           owner[IdOf(c)] = c =>
             /\ q # "announce"
             /\ q \in Early => pc[c] \in Early
             /\ tasks[IdOf(c)] = "working" =>
                    q \in Busy \/ (q = "done" /\ (closing \/ req[c].kind = "stream"))
             /\ procs[IdOf(c)] = "running" /\ pc[c] \in {"running", "terminate"}
                    => q \in {"running", "terminate"}
    PROVE  IInv'
<1>1. note[c] \in Notes /\ result[c] \in Results
  BY DEF IInv, TypeOK, Notes, Results
<1>2. note' = [note EXCEPT ![c] = note[c]] /\ result' = [result EXCEPT ![c] = result[c]]
  BY DEF IInv, TypeOK
<1>. QED
  BY <1>1, <1>2, MovePreserves

\* A call that ends with an answer other than the state it was working towards.
LEMMA AnswerPreserves ==
    ASSUME IInv, NEW c \in Calls, NEW r \in Results, Answer(c, r),
           UNCHANGED <<req, note, killed, tableVars, regVars, procVars, closeVars>>,
           pc[c] \notin {"running", "terminate"},
           owner[IdOf(c)] = c /\ tasks[IdOf(c)] = "working" => req[c].kind = "stream",
           r \in Final => /\ r = tasks[IdOf(c)]
                          /\ req[c].kind # "cancel" => fingerprints[IdOf(c)] = req[c].payload,
           req[c].kind = "cancel" => r # "completed",
           r = "conflict" => fingerprints[IdOf(c)] \notin {None, req[c].payload}
    PROVE  IInv'
<1>1. note[c] \in Notes /\ note' = [note EXCEPT ![c] = note[c]]
  BY DEF IInv, TypeOK, Notes
<1>2. CallOk(c)'
  BY DEF IInv, TypeOK, Answer, CallOk, IdOf, Busy, tableVars
<1>3. Goto(c, "done") /\ "done" \in Awaits \ {"idle"} /\ "done" \notin Early
  BY DEF Answer, Goto, Awaits, Early
<1>. QED
  BY <1>1, <1>2, <1>3, MovePreserves DEF Answer

\* An id that is claimed has an owner which has arrived, so a call that is idle
\* owns nothing.
LEMMA IdleOwnsNothing ==
    ASSUME IInv, NEW c \in Calls, pc[c] = "idle"
    PROVE  owner[IdOf(c)] # c
<1>1. c # None
  BY NoneAssumption
<1>. QED
  BY <1>1, RequestType DEF IInv, TableInv

\* A call is turned away or joins a task.
LEMMA ArrivalPreserves ==
    ASSUME IInv, NEW c \in Calls,
           ClaimConflict(c) \/ ClaimJoin(c) \/ CancelRefused(c)
    PROVE  IInv'
<1>. USE DEF IInv
<1>0. owner[IdOf(c)] # c
  BY IdleOwnsNothing DEF ClaimConflict, ClaimJoin, CancelRefused, Arrives, ArrivesCancel
<1>1. CASE ClaimConflict(c)
  <2>1. "conflict" \in Results /\ "conflict" \notin Final
    BY DEF Results, Final
  <2>. QED
    BY <1>0, <1>1, <2>1, AnswerPreserves DEF ClaimConflict, Arrives
<1>2. CASE ClaimJoin(c)
  <2>. DEFINE q == IF req[c].kind = "stream" THEN "announce" ELSE "join"
  <2>1. CallOk(c)'
    BY <1>0, <1>2 DEF ClaimJoin, Arrives, SameRequestClaimed, Goto, TypeOK, CallInv,
       CallOk, Busy, IdOf, tableVars
  <2>2. q \in Awaits \ {"idle"} /\ Goto(c, q)
    BY <1>2 DEF ClaimJoin, Awaits
  <2>. QED
    BY <1>0, <1>2, <2>1, <2>2, GotoPreserves DEF ClaimJoin
<1>3. CASE CancelRefused(c)
  <2>1. "unavailable" \in Results \ Final /\ "unavailable" # "completed"
    BY DEF Results, Final
  <2>. QED
    BY <1>0, <1>3, <2>1, AnswerPreserves DEF CancelRefused, ArrivesCancel
<1>. QED
  BY <1>1, <1>2, <1>3

\* A call that waits for somebody else, or whose task is finished, goes on.
LEMMA WaiterPreserves ==
    ASSUME IInv, NEW c \in Calls,
           \/ AnnounceFails(c) \/ Join(c) \/ RecordResponse(c) \/ EmitFinal(c)
           \/ EmitFinalFails(c) \/ CancelConfirmed(c) \/ CancelTimesOut(c)
           \/ KilledWaiting(c)
    PROVE  IInv'
<1>. USE DEF IInv
<1>1. "done" \in Awaits \ {"idle"} /\ "final" \in Awaits \ {"idle"}
      /\ "done" \notin Early /\ "final" \notin Early
  BY DEF Awaits, Early
<1>2. {"error", "unconfirmed"} \subseteq Results \ Final
  BY DEF Results, Final
<1>3. IdOf(c) \in TaskIds
  BY RequestType
<1>0. /\ owner[IdOf(c)] = c => req[c].kind # "cancel"
      /\ owner[IdOf(c)] = c /\ tasks[IdOf(c)] = "working" =>
            pc[c] \notin {"join", "await", "record", "final"}
  BY <1>3, NoneAssumption DEF TableInv, OwnerInv, Busy
<1>4. CASE AnnounceFails(c) \/ EmitFinalFails(c)
  BY <1>0, <1>2, <1>4, AnswerPreserves DEF AnnounceFails, EmitFinalFails, At, CallInv, CallOk
<1>5. CASE Join(c)
  <2>. DEFINE q == IF req[c].kind = "stream" THEN "final" ELSE "done"
              r == futures[IdOf(c)]
  <2>1. r \in Final /\ r \in Results /\ r = tasks[IdOf(c)]
    BY <1>3, <1>5 DEF Join, Results, TableInv, Final
  <2>2. pc[c] = "join" /\ Goto(c, q) /\ result' = [result EXCEPT ![c] = r]
    BY <1>5 DEF Join, At
  <2>3. fingerprints[IdOf(c)] = req[c].payload /\ req[c].kind # "cancel"
    BY <2>2 DEF CallInv, CallOk
  <2>4. CallOk(c)'
    BY <1>5, <2>1, <2>2, <2>3 
    DEF Join, Goto, TypeOK, CallInv, CallOk, Busy, IdOf, tableVars, Final
  <2>5. note[c] \in Notes /\ note' = [note EXCEPT ![c] = note[c]]
    BY <1>5 DEF Join, TypeOK, Notes
  <2>6. q \in Awaits \ {"idle"} /\ q # "announce" /\ q \notin Early
    BY <1>1 DEF Early
  <2>. QED
    BY <1>0, <1>5, <2>1, <2>2, <2>4, <2>5, <2>6, MovePreserves DEF Join
<1>6. CASE RecordResponse(c) \/ EmitFinal(c)
  <2>1. CallOk(c)'
    BY <1>6 DEF RecordResponse, EmitFinal, At, Goto, TypeOK, CallInv, CallOk, Busy, IdOf,
       tableVars
  <2>. QED
    BY <1>0, <1>1, <1>6, <2>1, GotoPreserves DEF RecordResponse, EmitFinal, At
<1>7. CASE CancelConfirmed(c)
  <2>1. /\ futures[IdOf(c)] \in Final \ {"conflict"}
        /\ futures[IdOf(c)] = tasks[IdOf(c)]
    BY <1>3, <1>7 DEF CancelConfirmed, TableInv, Final
  <2>2. pc[c] = "await" /\ tasks[IdOf(c)] # "completed"
    BY <1>7 DEF CancelConfirmed, At, CallInv, CallOk
  <2>3. req[c].kind = "cancel"
    BY <2>2 DEF CallInv, CallOk
  <2>. QED
    BY <1>0, <1>7, <2>1, <2>2, <2>3, AnswerPreserves DEF CancelConfirmed, Results
<1>8. CASE CancelTimesOut(c)
  BY <1>0, <1>2, <1>8, AnswerPreserves DEF CancelTimesOut, At
<1>9. CASE KilledWaiting(c)
  <2>1. /\ pc[c] \in {"announce", "join", "await", "record", "final"}
        /\ killed' \subseteq killed /\ closing
    BY <1>9 DEF KilledWaiting, Hit, ProcInv
  <2>2. CallOk(c)'
    BY <1>9, <2>1 DEF KilledWaiting, Goto, TypeOK, CallInv, CallOk, Busy, IdOf, tableVars
  <2>. QED
    BY <1>1, <1>9, <2>1, <2>2, GotoPreserves DEF KilledWaiting
<1>. QED
  BY <1>4, <1>5, <1>6, <1>7, <1>8, <1>9

\* The owner of a task gets on with its run, or starts to end the child.
LEMMA RunnerPreserves ==
    ASSUME IInv, NEW c \in Calls,
           \/ SessionAppend(c) \/ SpawnFails(c) \/ RunExited(c) \/ Drain(c)
           \/ DrainFails(c) \/ RunCanceled(c) \/ RunTimesOut(c) \/ KilledRunning(c)
    PROVE  IInv'
<1>. USE DEF IInv
<1>1. {"spawn", "dlq", "drain", "settle", "terminate"} \subseteq Busy \cap Awaits
  BY DEF Awaits, Busy
<1>2. {"dlq", "drain", "settle", "terminate"} \cap Early = {} /\ {"append", "spawn"} \subseteq Early
  BY DEF Early
<1>3. IdOf(c) \in TaskIds
  BY RequestType
<1>4. CASE SessionAppend(c) \/ SpawnFails(c) \/ DrainFails(c)
  <2>1. PICK q \in {"spawn", "dlq"} : Goto(c, q)
    BY <1>4 DEF SessionAppend, SpawnFails, DrainFails
  <2>2. pc[c] \in Busy \ {"running", "terminate"} /\ (q = "spawn" => pc[c] = "append")
    BY <1>4, <2>1 DEF SessionAppend, SpawnFails, DrainFails, At, Busy, Goto, TypeOK
  <2>3. CallOk(c)'
    BY <1>4, <2>1, <2>2 DEF SessionAppend, SpawnFails, DrainFails, Goto, TypeOK,
       CallInv, CallOk, Busy, IdOf, tableVars, regVars
  <2>. QED
    BY <1>1, <1>2, <1>4, <2>1, <2>2, <2>3, GotoPreserves
    DEF SessionAppend, SpawnFails, DrainFails
<1>5. CASE RunExited(c)
  <2>1. pc[c] = "running" /\ procs[IdOf(c)] \in Outcome /\ Goto(c, "drain")
    BY <1>5 DEF RunExited, At
  <2>2. CallOk(c)'
    BY <1>5, <2>1 DEF RunExited, Goto, TypeOK, CallInv, CallOk, Busy, IdOf, tableVars,
       regVars, procVars
  <2>. QED
    BY <1>1, <1>2, <1>5, <2>1, <2>2, GotoPreserves DEF RunExited, Outcome
<1>6. CASE Drain(c)
  <2>1. pc[c] = "drain" /\ Goto(c, "settle")
    BY <1>6 DEF Drain, At
  <2>2. procs[IdOf(c)] \in Notes
    BY <2>1 DEF CallInv, CallOk, Notes
  <2>3. CallOk(c)'
    BY <1>6, <2>1 DEF Drain, Goto, TypeOK, CallInv, CallOk, Busy, IdOf, tableVars, regVars
  <2>4. result[c] \in Results /\ result' = [result EXCEPT ![c] = result[c]]
    BY <1>6 DEF Drain, TypeOK, Results
  <2>. QED
    BY <1>1, <1>2, <1>6, <2>1, <2>2, <2>3, <2>4, MovePreserves DEF Drain
<1>7. CASE RunCanceled(c) \/ RunTimesOut(c) \/ KilledRunning(c)
  <2>1. PICK n \in Notes : Terminate(c, n)
    BY <1>7 DEF RunCanceled, RunTimesOut, KilledRunning, Notes
  <2>2. pc[c] \in {"running", "drain", "terminate"} /\ killed' \subseteq killed
    BY <1>7 DEF RunCanceled, RunTimesOut, KilledRunning, At, Hit
  <2>3. CallOk(c)'
    BY <2>1, <2>2 DEF Terminate, Goto, TypeOK, CallInv, CallOk, Busy, IdOf, tableVars,
       regVars
  <2>4. result[c] \in Results /\ result' = [result EXCEPT ![c] = result[c]]
    BY <2>1 DEF Terminate, TypeOK, Results
  <2>. QED
    BY <1>1, <1>2, <2>1, <2>2, <2>3, <2>4, MovePreserves DEF Terminate
<1>. QED
  BY <1>4, <1>5, <1>6, <1>7

-----------------------------------------------------------------------------
(* The owner finishes its task *)

\* Finishing preserves the invariant: the task was working and nobody else has
\* answered for it, its child is gone unless close() is under way, and it does
\* not become "completed" once its event is set.
LEMMA FinishPreserves ==
    ASSUME IInv, NEW c \in Calls, pc[c] \in Busy,
           NEW state \in Final, Finish(c, state),
           cancels[IdOf(c)] = "set" => state # "completed",
           NEW q \in {"final", "record", "done"}, Goto(c, q),
           procs' \in {procs, Stop(IdOf(c))},
           ~closing => procs'[IdOf(c)] # "running",
           killed' \subseteq killed,
           UNCHANGED <<req, note, runs, closeVars>>
    PROVE  IInv'
<1>. DEFINE i == IdOf(c)
<1>. USE DEF IInv, closeVars
<1>1. i \in TaskIds
  BY RequestType
<1>2. /\ owner[i] = c /\ tasks[i] = "working" /\ cancels[i] # "absent"
      /\ req[c].kind # "cancel" /\ fingerprints[i] = req[c].payload /\ c # None
  BY <1>1, NoneAssumption DEF CallInv, CallOk, TableInv
<1>3. /\ cancels' = [cancels EXCEPT ![i] = "absent"]
      /\ inflight' = inflight \ {i}
      /\ tasks' = [tasks EXCEPT ![i] = state]
      /\ futures' = [futures EXCEPT ![i] = state]
      /\ result' = [result EXCEPT ![c] = state]
      /\ pc' = [pc EXCEPT ![c] = q]
      /\ UNCHANGED <<fingerprints, owner>>
  BY <1>1, <1>2 DEF Finish, Goto, TableInv, TypeOK
<1>4. \A id \in TaskIds : procs'[id] = procs[id] \/ (id = i /\ procs'[id] = "killed")
  <2>1. CASE procs' = procs
    BY <2>1
  <2>2. CASE procs' = [procs EXCEPT ![i] = IF @ = "running" THEN "killed" ELSE @]
    BY <1>1, <2>2 DEF TypeOK
  <2>. QED
    BY <2>1, <2>2 DEF Stop
<1>5. \A d \in Calls \ {c} : pc[d] \in Busy => IdOf(d) # i
  BY <1>2 DEF CallInv, CallOk
<1>6. \A d \in Calls : IdOf(d)' = IdOf(d)
  BY DEF IdOf
<1>. HIDE DEF i
<1>7. TypeOK'
  <2>1. procs' \in [TaskIds -> Outcome \cup {"none", "running", "killed"}]
    BY DEF Stop, TypeOK
  <2>. QED
    BY <1>1, <1>3, <2>1 DEF TypeOK
<1>8. TableInv'
  BY <1>1, <1>2, <1>3, <1>6 DEF TableInv, TypeOK, Final
<1>9. CallInv'
  <2>. SUFFICES ASSUME NEW d \in Calls PROVE CallOk(d)'
    BY DEF CallInv
  <2>1. CASE d = c
    BY <2>1, <1>1, <1>2, <1>3, <1>6 DEF CallOk, TypeOK, Busy, Final, i
  <2>2. CASE d # c
    <3>1. pc'[d] = pc[d] /\ result'[d] = result[d] /\ IdOf(d) \in TaskIds
      BY <2>2, <1>3, RequestType
    <3>2. CASE IdOf(d) = i
      <4>1. result[d] \notin Final /\ pc[d] \notin Busy
        BY <3>2, <1>2, <1>5, <2>2 DEF CallInv, CallOk, Final
      <4>2. pc[d] = "await" => state # "completed" /\ cancels'[i] # "clear" /\ pc'[c] # "announce"
        BY <3>2, <1>1, <1>2, <1>3 DEF CallInv, CallOk, TypeOK, i
      <4>3. pc[d] = "announce" => owner[i] # d
        BY <2>2, <1>2
      <4>. QED
        BY <1>1, <1>2, <1>3, <1>6, <2>2, <3>1, <3>2, <4>1, <4>2, <4>3
        DEF CallInv, CallOk, TypeOK, Busy
    <3>3. CASE IdOf(d) # i
      <4>1. /\ tasks'[IdOf(d)] = tasks[IdOf(d)] /\ cancels'[IdOf(d)] = cancels[IdOf(d)]
            /\ procs'[IdOf(d)] = procs[IdOf(d)]
            /\ IdOf(d) \in inflight => IdOf(d) \in inflight'
        BY <3>1, <3>3, <1>3, <1>4 DEF TypeOK
      <4>2. pc[d] = "await" => pc'[owner[IdOf(d)]] # "announce"
        BY <3>1, <1>3 DEF CallInv, CallOk, TypeOK
      <4>. QED
        BY <1>3, <1>6, <3>1, <4>1, <4>2 DEF CallInv, CallOk
    <3>. QED
      BY <3>2, <3>3
  <2>. QED
    BY <2>1, <2>2
<1>10. RunInv'
  BY <1>3 DEF RunInv, TypeOK, Early
<1>11. ProcInv'
  <2>. SUFFICES ASSUME ~closing, NEW id \in TaskIds, procs'[id] = "running"
                PROVE  owner[id] # None /\ pc'[owner[id]] \in {"running", "terminate"}
    BY <1>3 DEF ProcInv
  <2>1. id # i /\ procs[id] = "running"
    BY <1>4 DEF i
  <2>2. owner[id] # None /\ pc[owner[id]] \in {"running", "terminate"} /\ owner[id] # c
    BY <2>1 DEF ProcInv, TableInv, i
  <2>. QED
    BY <1>3, <2>2 DEF TypeOK
<1>12. OwnerInv'
  <2>. SUFFICES ASSUME NEW id \in TaskIds, tasks'[id] = "working"
                PROVE  /\ pc'[owner[id]] \in Busy \cup {"announce", "done"}
                       /\ pc'[owner[id]] = "done" => closing \/ req[owner[id]].kind = "stream"
    BY <1>3 DEF OwnerInv
  <2>1. id # i /\ tasks[id] = "working"
    BY <1>1, <1>3 DEF TypeOK, Final
  <2>2. owner[id] # c
    BY <1>2, <2>1 DEF TableInv, i
  <2>. QED
    BY <1>3, <2>1, <2>2 DEF OwnerInv, TypeOK
<1>. QED
  BY <1>7, <1>8, <1>9, <1>10, <1>11, <1>12

\* The task is finished by its executor, by the dead-letter path or by close().
LEMMA OwnerPreserves ==
    ASSUME IInv, NEW c \in Calls,
           \/ Settle(c) \/ DeadLetter(c) \/ KilledTerminating(c)
           \/ KilledBeforeOrAfterRun(c)
           \/ Terminated(c) /\ note[c] # "timeout"
    PROVE  IInv'
<1>. USE DEF IInv
<1>1. IdOf(c) \in TaskIds
  BY RequestType
<1>2. pc[c] \in Busy
  BY DEF Settle, DeadLetter, KilledTerminating, KilledBeforeOrAfterRun, Terminated, At, Hit,
     Busy
<1>3. owner[IdOf(c)] = c
  BY <1>2 DEF CallInv, CallOk
<1>4. AfterFinish(c) \in {"final", "record", "done"}
  BY DEF AfterFinish
<1>5. {"canceled", "failed"} \subseteq Final \ {"completed"}
  BY DEF Final
<1>6. CASE Settle(c)
  <2>1. pc[c] = "settle"
    BY <1>6 DEF Settle, At
  <2>2. FinalState(c) \in Final /\ (cancels[IdOf(c)] = "set" => FinalState(c) # "completed")
    BY DEF FinalState, Final
  <2>3. ~closing => procs[IdOf(c)] # "running"
    BY <1>1, <1>3, <2>1 DEF ProcInv
  <2>. QED
    BY <1>2, <1>4, <1>6, <2>2, <2>3, FinishPreserves DEF Settle, procVars
<1>7. CASE DeadLetter(c)
  <2>1. pc[c] = "dlq"
    BY <1>7 DEF DeadLetter, At
  <2>2. ~closing => procs[IdOf(c)] # "running"
    BY <1>1, <1>3, <2>1 DEF ProcInv
  <2>. QED
    BY <1>2, <1>4, <1>5, <1>7, <2>2, FinishPreserves DEF DeadLetter, procVars
<1>8. CASE KilledTerminating(c) \/ KilledBeforeOrAfterRun(c)
  <2>1. closing /\ killed' \subseteq killed
    BY <1>8 DEF KilledTerminating, KilledBeforeOrAfterRun, Hit, ProcInv
  <2>2. PICK q \in {"final", "done"} : Goto(c, q)
    BY <1>8 DEF KilledTerminating, KilledBeforeOrAfterRun
  <2>3. Finish(c, "canceled") /\ procs' \in {procs, Stop(IdOf(c))}
    BY <1>8 DEF KilledTerminating, KilledBeforeOrAfterRun, procVars
  <2>. QED
    BY <1>2, <1>5, <1>8, <2>1, <2>2, <2>3, FinishPreserves
    DEF KilledTerminating, KilledBeforeOrAfterRun, procVars
<1>9. CASE Terminated(c) /\ note[c] # "timeout"
  <2>1. PICK q \in {"final", "record", "done"} : Goto(c, q)
    BY <1>4, <1>9 DEF Terminated
  <2>2. Finish(c, "canceled") /\ procs' = Stop(IdOf(c))
    BY <1>9 DEF Terminated
  <2>3. procs'[IdOf(c)] # "running"
    BY <1>1, <2>2 DEF Stop, TypeOK
  <2>. QED
    BY <1>2, <1>5, <1>9, <2>1, <2>2, <2>3, FinishPreserves DEF Terminated
<1>. QED
  BY <1>6, <1>7, <1>8, <1>9

-----------------------------------------------------------------------------
(* The steps that change a table for an unfinished task *)

\* A new id is claimed.  Nobody waits for it and no answer was given for it.
LEMMA ClaimOwnPreserves ==
    ASSUME IInv, NEW c \in Calls, ClaimOwn(c)
    PROVE  IInv'
<1>. DEFINE i == IdOf(c)
<1>. USE DEF IInv, closeVars, procVars
<1>1. i \in TaskIds /\ req[c].payload \in Payloads /\ c # None /\ req[c].payload # None
  BY RequestType, NoneAssumption
<1>2. /\ pc[c] = "idle" /\ req[c].kind \in {"send", "stream"}
      /\ fingerprints[i] = None /\ owner[i] = None /\ tasks[i] = "absent"
      /\ runs[i] = 0 /\ result[c] \notin Final
  BY <1>1 DEF ClaimOwn, Arrives, Unclaimed, TableInv, RunInv, CallInv, CallOk, Final
<1>3. PICK q \in {"announce", "append", "spawn"} :
        /\ pc' = [pc EXCEPT ![c] = q]
        /\ q = "announce" => req[c].kind = "stream" /\ UNCHANGED regVars
        /\ q # "announce" => Register(i)
  BY DEF ClaimOwn, Goto
<1>4. /\ fingerprints' = [fingerprints EXCEPT ![i] = req[c].payload]
      /\ futures' = [futures EXCEPT ![i] = "pending"]
      /\ tasks' = [tasks EXCEPT ![i] = "working"]
      /\ owner' = [owner EXCEPT ![i] = c]
      /\ UNCHANGED <<req, note, result, killed, procVars, closeVars>>
  BY DEF ClaimOwn
<1>5. /\ cancels' \in [TaskIds -> {"absent", "clear", "set"}] /\ inflight' \subseteq TaskIds
      /\ \A id \in TaskIds \ {i} : /\ cancels'[id] = cancels[id]
                                   /\ id \in inflight => id \in inflight'
  BY <1>1, <1>3 DEF Register, regVars, TypeOK
<1>6. \A d \in Calls : IdOf(d) \in TaskIds /\ IdOf(d)' = IdOf(d)
  BY <1>4, RequestType DEF IdOf
<1>7. \A id \in TaskIds \ {i} : owner[id] # c
  BY <1>1, <1>2 DEF TableInv
<1>. HIDE DEF i
<1>8. TypeOK'
  BY <1>1, <1>3, <1>4, <1>5 DEF TypeOK
<1>9. TableInv'
  BY <1>1, <1>2, <1>3, <1>4, <1>5, <1>6, <1>7 DEF TableInv, TypeOK, i
<1>10. CallInv'
  <2>. SUFFICES ASSUME NEW d \in Calls PROVE CallOk(d)'
    BY DEF CallInv
  <2>1. CASE d = c
    <3>1. q # "announce" => cancels'[i] = "clear" /\ i \in inflight'
      BY <1>1, <1>3 DEF Register, TypeOK
    <3>2. q = "announce" => cancels'[i] = "absent"
      BY <1>1, <1>2, <1>3 DEF regVars, TableInv
    <3>. QED
      BY <2>1, <1>1, <1>2, <1>3, <1>4, <1>6, <3>1, <3>2 DEF CallInv, CallOk, TypeOK, Busy, i
  <2>2. CASE d # c /\ IdOf(d) = i
    BY <2>2, <1>1, <1>2, <1>3, <1>4, <1>6, NoneAssumption, RequestType
    DEF CallInv, CallOk, TypeOK, Busy, Final
  <2>3. CASE d # c /\ IdOf(d) # i
    BY <2>3, <1>3, <1>4, <1>5, <1>6, <1>7 DEF CallInv, CallOk, TypeOK
  <2>. QED
    BY <2>1, <2>2, <2>3
<1>11. RunInv'
  BY <1>1, <1>2, <1>3, <1>4, <1>7 DEF RunInv, TypeOK
<1>12. ProcInv'
  BY <1>1, <1>2, <1>3, <1>4, <1>7 DEF ProcInv, TypeOK
<1>13. OwnerInv'
  BY <1>1, <1>3, <1>4, <1>7 DEF OwnerInv, TypeOK, Busy
<1>. QED
  BY <1>8, <1>9, <1>10, <1>11, <1>12, <1>13

\* The stream was told its id: an owner registers its task, the others wait.
LEMMA AnnouncePreserves ==
    ASSUME IInv, NEW c \in Calls, Announce(c)
    PROVE  IInv'
<1>. DEFINE i == IdOf(c)
<1>. USE DEF IInv
<1>1. i \in TaskIds /\ c # None
  BY RequestType, NoneAssumption
<1>2. pc[c] = "announce" /\ req[c].kind = "stream" /\ fingerprints[i] = req[c].payload
  BY DEF Announce, At, CallInv, CallOk
<1>3. CASE owner[i] # c
  <2>1. CallOk(c)'
    BY <1>2, <1>3 DEF Announce, Goto, TypeOK, CallInv, CallOk, Busy, IdOf, tableVars
  <2>2. Goto(c, "join") /\ "join" \in Awaits \ {"idle"}
    BY <1>3 DEF Announce, Awaits
  <2>. QED
    BY <1>3, <2>1, <2>2, GotoPreserves DEF Announce
<1>4. CASE owner[i] = c
  <2>. USE DEF tableVars, procVars, closeVars
  <2>1. /\ pc' = [pc EXCEPT ![c] = "spawn"]
        /\ cancels' = [cancels EXCEPT ![i] = "clear"]
        /\ inflight' = inflight \cup {i}
        /\ UNCHANGED <<req, note, result, killed, tableVars, procVars, closeVars>>
    BY <1>4 DEF Announce, Goto, Register
  <2>2. tasks[i] = "working" /\ runs[i] = 0
    BY <1>1, <1>2, <1>4 DEF CallInv, CallOk, RunInv, Early
  <2>3. \A d \in Calls : IdOf(d) \in TaskIds /\ IdOf(d)' = IdOf(d)
    BY <2>1, RequestType DEF IdOf
  <2>4. \A id \in TaskIds \ {i} : owner[id] # c
    BY <1>1 DEF TableInv
  <2>. HIDE DEF i
  <2>5. TypeOK'
    BY <1>1, <2>1 DEF TypeOK
  <2>6. TableInv'
    BY <1>1, <1>4, <2>1, <2>3 DEF TableInv, TypeOK
  <2>7. CallInv'
    <3>. SUFFICES ASSUME NEW d \in Calls PROVE CallOk(d)'
      BY DEF CallInv
    <3>1. CASE d = c
      BY <3>1, <1>1, <1>2, <1>4, <2>1, <2>2, <2>3 DEF CallInv, CallOk, TypeOK, Busy, i
    <3>2. CASE d # c /\ IdOf(d) = i
      BY <3>2, <1>1, <1>2, <1>4, <2>1, <2>3 DEF CallInv, CallOk, TypeOK, Busy
    <3>3. CASE d # c /\ IdOf(d) # i
      BY <3>3, <2>1, <2>3, <2>4 DEF CallInv, CallOk, TypeOK
    <3>. QED
      BY <3>1, <3>2, <3>3
  <2>8. RunInv'
    BY <1>4, <2>1, <2>2, <2>4 DEF RunInv, TypeOK
  <2>9. ProcInv'
    BY <1>2, <1>4, <2>1, <2>4 DEF ProcInv, TypeOK
  <2>10. OwnerInv'
    BY <1>4, <2>1, <2>4 DEF OwnerInv, TypeOK, Busy
  <2>. QED
    BY <2>5, <2>6, <2>7, <2>8, <2>9, <2>10
<1>. QED
  BY <1>3, <1>4

\* The child is started, for the first time.
LEMMA SpawnPreserves ==
    ASSUME IInv, NEW c \in Calls, Spawn(c)
    PROVE  IInv'
<1>. DEFINE i == IdOf(c)
<1>. USE DEF IInv, tableVars, regVars, closeVars
<1>1. i \in TaskIds /\ c # None
  BY RequestType, NoneAssumption
<1>2. pc[c] = "spawn" /\ owner[i] = c /\ runs[i] = 0
  BY <1>1 DEF Spawn, At, CallInv, CallOk, Busy, RunInv, Early
<1>3. /\ pc' = [pc EXCEPT ![c] = "running"]
      /\ procs' = [procs EXCEPT ![i] = "running"]
      /\ runs' = [runs EXCEPT ![i] = 1]
      /\ UNCHANGED <<req, note, result, killed, tableVars, regVars, closeVars>>
  BY <1>1, <1>2 DEF Spawn, Goto, TypeOK
<1>4. \A d \in Calls : IdOf(d) \in TaskIds /\ IdOf(d)' = IdOf(d)
  BY <1>3, RequestType DEF IdOf
<1>5. \A id \in TaskIds \ {i} : owner[id] # c
  BY <1>1 DEF TableInv
<1>. HIDE DEF i
<1>6. TypeOK'
  BY <1>1, <1>3 DEF TypeOK
<1>7. TableInv'
  BY <1>3, <1>4 DEF TableInv, TypeOK
<1>8. CallInv'
  <2>. SUFFICES ASSUME NEW d \in Calls PROVE CallOk(d)'
    BY DEF CallInv
  <2>1. CASE d = c
    BY <2>1, <1>1, <1>2, <1>3, <1>4 DEF CallInv, CallOk, TypeOK, Busy
  <2>2. CASE d # c
    BY <2>2, <1>1, <1>2, <1>3, <1>4 DEF CallInv, CallOk, TypeOK, Busy
  <2>. QED
    BY <2>1, <2>2
<1>9. RunInv'
  BY <1>1, <1>2, <1>3, <1>5 DEF RunInv, TypeOK, Early
<1>10. ProcInv'
  BY <1>1, <1>2, <1>3, <1>5 DEF ProcInv, TypeOK
<1>11. OwnerInv'
  BY <1>3 DEF OwnerInv, TypeOK, Busy
<1>. QED
  BY <1>6, <1>7, <1>8, <1>9, <1>10, <1>11

\* A child that ran has ended: by itself, or by the timeout's _terminate.
LEMMA ChildGonePreserves ==
    ASSUME IInv, NEW i \in TaskIds,
           NEW o \in Outcome \cup {"killed"},
           procs' = [procs EXCEPT ![i] = IF @ = "running" THEN o ELSE @],
           \A d \in Calls : IdOf(d)' = IdOf(d),
           pc' \in [Calls -> Awaits],
           \A d \in Calls :
             \/ pc'[d] = pc[d]
             \/ /\ pc[d] = "terminate" /\ pc'[d] = "settle"
                /\ IdOf(d) = i /\ o = "killed",
           UNCHANGED <<req, note, result, killed, tableVars, regVars, runs, closeVars>>
    PROVE  IInv'
<1>. USE DEF IInv, tableVars, regVars, closeVars
<1>1. TypeOK'
  BY DEF TypeOK, Awaits
<1>2. TableInv'
  BY DEF TableInv, TypeOK
<1>3. \A id \in TaskIds : procs'[id] = procs[id] \/ (procs[id] = "running" /\ procs'[id] = o)
  BY DEF TypeOK
<1>4. CallInv'
  <2>. SUFFICES ASSUME NEW d \in Calls PROVE CallOk(d)'
    BY DEF CallInv
  <2>1. pc'[d] = "await" => pc'[owner[IdOf(d)]] # "announce"
    BY RequestType DEF CallInv, CallOk, TypeOK
  <2>2. procs[IdOf(d)] \in Outcome => procs'[IdOf(d)] \in Outcome
    BY <1>3, RequestType DEF Outcome
  <2>. QED
    BY <2>1, <2>2 DEF CallInv, CallOk, Busy
<1>5. RunInv'
  BY DEF RunInv, TypeOK, Early
<1>6. ProcInv'
  <2>. SUFFICES ASSUME ~closing, NEW id \in TaskIds, procs'[id] = "running"
                PROVE  owner[id] # None /\ pc'[owner[id]] \in {"running", "terminate"}
    BY DEF ProcInv
  <2>1. procs[id] = "running" /\ id # i
    BY <1>3 DEF TypeOK, Outcome
  <2>2. owner[id] # None /\ pc[owner[id]] \in {"running", "terminate"}
    BY <2>1 DEF ProcInv
  <2>3. owner[id] \in Calls /\ IdOf(owner[id]) = id
    BY <2>2 DEF TypeOK, TableInv
  <2>. QED
    BY <2>1, <2>2, <2>3
<1>7. OwnerInv'
  BY DEF OwnerInv, TableInv, TypeOK, Busy
<1>. QED
  BY <1>1, <1>2, <1>4, <1>5, <1>6, <1>7

LEMMA ChildStepPreserves ==
    ASSUME IInv,
           \/ \E id \in TaskIds, outcome \in Outcome : ProcessExits(id, outcome)
           \/ \E c \in Calls : Terminated(c) /\ note[c] = "timeout"
    PROVE  IInv'
<1>1. ASSUME NEW id \in TaskIds, NEW outcome \in Outcome, ProcessExits(id, outcome)
      PROVE  IInv'
  <2>1. procs' = [procs EXCEPT ![id] = IF @ = "running" THEN outcome ELSE @]
    BY <1>1 DEF ProcessExits, IInv, TypeOK
  <2>2. pc' = pc /\ pc \in [Calls -> Awaits] /\ \A d \in Calls : IdOf(d)' = IdOf(d)
    BY <1>1 DEF ProcessExits, callVars, IInv, TypeOK, Awaits, IdOf
  <2>. QED
    BY <1>1, <2>1, <2>2, ChildGonePreserves DEF ProcessExits, callVars
<1>2. ASSUME NEW c \in Calls, Terminated(c), note[c] = "timeout"
      PROVE  IInv'
  <2>1. /\ pc[c] = "terminate" /\ pc' = [pc EXCEPT ![c] = "settle"]
        /\ procs' = [procs EXCEPT ![IdOf(c)] = IF @ = "running" THEN "killed" ELSE @]
        /\ UNCHANGED <<req, note, result, killed, tableVars, regVars, runs, closeVars>>
    BY <1>2 DEF Terminated, At, Goto, Stop
  <2>2. pc \in [Calls -> Awaits] /\ pc' \in [Calls -> Awaits]
    BY <2>1 DEF IInv, TypeOK, Awaits
  <2>3. IdOf(c) \in TaskIds /\ \A d \in Calls : IdOf(d)' = IdOf(d)
    BY <2>1, RequestType DEF IInv, IdOf
  <2>. QED
    BY <2>1, <2>2, <2>3, ChildGonePreserves
<1>. QED
  BY <1>1, <1>2

\* A cancel call sets the event of a task that is registered and working, so
\* its owner is past the announcement.
LEMMA CancelTaskPreserves ==
    ASSUME IInv, NEW c \in Calls, CancelTask(c)
    PROVE  IInv'
<1>. DEFINE i == IdOf(c)
<1>. USE DEF IInv, tableVars, procVars, closeVars
<1>1. i \in TaskIds
  BY RequestType
<1>2. /\ pc[c] = "idle" /\ req[c].kind = "cancel"
      /\ cancels[i] # "absent" /\ tasks[i] = "working"
  BY DEF CancelTask, ArrivesCancel, Cancelable
<1>3. /\ pc' = [pc EXCEPT ![c] = "await"]
      /\ cancels' = [cancels EXCEPT ![i] = "set"]
      /\ UNCHANGED <<req, note, result, killed, tableVars, inflight, procVars, closeVars>>
  BY DEF CancelTask, Goto
<1>4. owner[i] # None /\ owner[i] \in Calls /\ IdOf(owner[i]) = i
  BY <1>1, <1>2 DEF TableInv, TypeOK
<1>5. pc[owner[i]] # "announce"
  BY <1>2, <1>4 DEF CallInv, CallOk
<1>6. \A d \in Calls : IdOf(d) \in TaskIds /\ IdOf(d)' = IdOf(d)
  BY <1>3, RequestType DEF IdOf
<1>7. \A id \in TaskIds : owner[id] # c \/ owner[id] = None
  BY <1>2 DEF TableInv
<1>. HIDE DEF i
<1>8. TypeOK'
  BY <1>1, <1>3 DEF TypeOK
<1>9. TableInv'
  BY <1>1, <1>3, <1>4, <1>6 DEF TableInv, TypeOK
<1>10. CallInv'
  <2>. SUFFICES ASSUME NEW d \in Calls PROVE CallOk(d)'
    BY DEF CallInv
  <2>1. CASE d = c
    BY <2>1, <1>1, <1>2, <1>3, <1>4, <1>5, <1>6 DEF CallInv, CallOk, TypeOK, Busy, i
  <2>2. CASE d # c /\ IdOf(d) = i
    BY <2>2, <1>1, <1>2, <1>3, <1>4, <1>5, <1>6 DEF CallInv, CallOk, TypeOK, Busy
  <2>3. CASE d # c /\ IdOf(d) # i
    BY <2>3, <1>1, <1>3, <1>6 DEF CallInv, CallOk, TypeOK, Busy
  <2>. QED
    BY <2>1, <2>2, <2>3
<1>11. RunInv'
  BY <1>3, <1>7 DEF RunInv, TypeOK, Early
<1>12. ProcInv'
  BY <1>2, <1>3, <1>7 DEF ProcInv, TypeOK
<1>13. OwnerInv'
  BY <1>3, <1>7 DEF OwnerInv, TableInv, TypeOK
<1>. QED
  BY <1>8, <1>9, <1>10, <1>11, <1>12, <1>13

\* close() interrupts the dead-letter path: the task is unregistered and stays
\* working for ever.
LEMMA KilledInDeadLetterPreserves ==
    ASSUME IInv, NEW c \in Calls, KilledInDeadLetter(c)
    PROVE  IInv'
<1>. DEFINE i == IdOf(c)
<1>. USE DEF IInv, tableVars, procVars, closeVars
<1>1. i \in TaskIds
  BY RequestType
<1>2. pc[c] = "dlq" /\ owner[i] = c /\ closing
  BY DEF KilledInDeadLetter, Hit, CallInv, CallOk, Busy, ProcInv
<1>3. /\ pc' = [pc EXCEPT ![c] = "done"]
      /\ cancels' = [cancels EXCEPT ![i] = "absent"]
      /\ inflight' = inflight \ {i}
      /\ killed' = killed \ {c}
      /\ UNCHANGED <<req, note, result, tableVars, procVars, closeVars>>
  BY DEF KilledInDeadLetter, Hit, Goto
<1>4. \A d \in Calls : IdOf(d) \in TaskIds /\ IdOf(d)' = IdOf(d)
  BY <1>3, RequestType DEF IdOf
<1>. HIDE DEF i
<1>5. TypeOK'
  BY <1>1, <1>3 DEF TypeOK
<1>6. TableInv'
  BY <1>1, <1>3, <1>4 DEF TableInv, TypeOK
<1>7. CallInv'
  <2>. SUFFICES ASSUME NEW d \in Calls PROVE CallOk(d)'
    BY DEF CallInv
  <2>1. CASE d = c
    BY <2>1, <1>2, <1>3, <1>4 DEF CallInv, CallOk, TypeOK, Busy
  <2>2. CASE d # c /\ IdOf(d) = i
    BY <2>2, <1>1, <1>2, <1>3, <1>4 DEF CallInv, CallOk, TypeOK, Busy
  <2>3. CASE d # c /\ IdOf(d) # i
    BY <2>3, <1>1, <1>3, <1>4 DEF CallInv, CallOk, TypeOK
  <2>. QED
    BY <2>1, <2>2, <2>3
<1>8. RunInv'
  BY <1>3 DEF RunInv, TypeOK, Early
<1>9. ProcInv'
  BY <1>2, <1>3 DEF ProcInv
<1>10. OwnerInv'
  BY <1>2, <1>3 DEF OwnerInv, TypeOK
<1>. QED
  BY <1>5, <1>6, <1>7, <1>8, <1>9, <1>10

\* close() marks the calls it will cancel, and unsubscribes.
LEMMA ClosePreserves ==
    ASSUME IInv, Close \/ Unsubscribe
    PROVE  IInv'
<1>. USE DEF IInv, callVars, tableVars, regVars, procVars, Close, Unsubscribe
<1>1. TypeOK'
  <2>1. closing' \in BOOLEAN /\ closed' \in BOOLEAN
    BY Zenon DEF TypeOK
  <2>2. killed' \subseteq Calls
    BY DEF TypeOK
  <2>. QED
    BY <2>1, <2>2 DEF TypeOK
<1>2. TableInv'
  BY DEF TableInv, IdOf
<1>3. CallInv'
  BY DEF CallInv, CallOk, IdOf
<1>4. OwnerInv' /\ RunInv' /\ ProcInv'
  BY DEF OwnerInv, RunInv, ProcInv
<1>. QED
  BY <1>1, <1>2, <1>3, <1>4

-----------------------------------------------------------------------------
(* The theorems *)

\* Every step preserves the invariant.
LEMMA NextInv == IInv /\ [Next]_vars => IInv'
<1>. SUFFICES ASSUME IInv, [Next]_vars PROVE IInv'
  OBVIOUS
<1>1. ASSUME NEW c \in Calls, Arrive(c)
      PROVE  IInv'
  BY <1>1, ArrivalPreserves, ClaimOwnPreserves, CancelTaskPreserves DEF Arrive
<1>2. ASSUME NEW c \in Calls, Proceed(c)
      PROVE  IInv'
  <2>1. CASE \/ AnnounceFails(c) \/ Join(c) \/ RecordResponse(c) \/ EmitFinal(c)
             \/ EmitFinalFails(c) \/ CancelConfirmed(c) \/ CancelTimesOut(c)
             \/ KilledWaiting(c)
    BY <2>1, WaiterPreserves
  <2>2. CASE \/ SessionAppend(c) \/ SpawnFails(c) \/ RunExited(c) \/ Drain(c)
             \/ DrainFails(c) \/ RunCanceled(c) \/ RunTimesOut(c) \/ KilledRunning(c)
    BY <2>2, RunnerPreserves
  <2>3. CASE Announce(c) \/ Spawn(c) \/ KilledInDeadLetter(c)
    BY <2>3, AnnouncePreserves, SpawnPreserves, KilledInDeadLetterPreserves
  <2>4. CASE \/ Settle(c) \/ DeadLetter(c) \/ KilledTerminating(c)
             \/ KilledBeforeOrAfterRun(c)
    BY <2>4, OwnerPreserves
  <2>5. CASE Terminated(c)
    BY <2>5, OwnerPreserves, ChildStepPreserves
  <2>. QED
    BY <1>2, <2>1, <2>2, <2>3, <2>4, <2>5 DEF Proceed
<1>. QED
  BY <1>1, <1>2, ChildStepPreserves, ClosePreserves, StutterInv DEF Next

\* The inductive invariant holds in every reachable state: tables, registry,
\* child and callers never disagree about a task.
THEOREM Invariance == Spec => []IInv
BY InitInv, NextInv, PTL DEF Spec

\* Tables, calls and processes hold what they may hold: no task stores a state
\* the protocol does not know (_finish_task, handle_task).
THEOREM TypeCorrect == Spec => []TypeOK
<1>1. IInv => TypeOK
  BY DEF IInv
<1>. QED
  BY <1>1, Invariance, PTL

\* The command of a task id is started at most once, for any number of repeated
\* calls at any time (_claim_task).
THEOREM RunsAtMostOnce == Spec => []AtMostOnce
<1>1. IInv => AtMostOnce
  BY DEF IInv, RunInv, AtMostOnce
<1>. QED
  BY <1>1, Invariance, PTL

\* Every caller that is told a final state is told the one that is stored, and
\* only if it asked for what was run (_claim_task, _finish_task).
THEOREM AnswersDoAgree == Spec => []AnswersAgree
<1>1. IInv => AnswersAgree
  BY DEF IInv, CallInv, CallOk, AnswersAgree
<1>. QED
  BY <1>1, Invariance, PTL

\* A cancel that was accepted is never answered with "completed": from the
\* moment the event is set the owner cannot settle for it (cancel_task,
\* handle_task).
THEOREM CancelWins == Spec => []AcceptedCancelWins
<1>1. IInv => AcceptedCancelWins
  BY DEF IInv, CallInv, CallOk, AcceptedCancelWins
<1>. QED
  BY <1>1, Invariance, PTL

\* Until close(), a child that runs belongs to a task that is working, in flight
\* and registered for cancellation (Executor.run, _terminate).
THEOREM NoChildIsOrphaned == Spec => []NoOrphan
<1>1. IInv => NoOrphan
  <2>. SUFFICES ASSUME IInv, ~closing, NEW id \in TaskIds, procs[id] = "running"
                PROVE  Cancelable(id) /\ id \in inflight
    BY DEF NoOrphan
  <2>. USE DEF IInv
  <2>1. owner[id] # None /\ pc[owner[id]] \in {"running", "terminate"}
    BY DEF ProcInv
  <2>2. owner[id] \in Calls /\ IdOf(owner[id]) = id
    BY <2>1 DEF TypeOK, TableInv
  <2>. QED
    BY <2>1, <2>2 DEF CallInv, CallOk, Busy, Cancelable
<1>. QED
  BY <1>1, Invariance, PTL

\* Nobody waits for somebody who waits: while a task is working its owner is on
\* its way to finish it and waits for no other call's future, unless the owner
\* is gone (the safety half of EveryTaskEnds and EveryCallEnds).
THEOREM OwnersWork ==
    Spec => [](\A id \in TaskIds : tasks[id] = "working" =>
                Abandoned(id) \/ pc[owner[id]] \in Busy \cup {"announce"})
<1>1. IInv => \A id \in TaskIds : tasks[id] = "working" =>
                Abandoned(id) \/ pc[owner[id]] \in Busy \cup {"announce"}
  BY DEF IInv, OwnerInv, TableInv, Abandoned
<1>. QED
  BY <1>1, Invariance, PTL

\* While the agent is up, the one way to lose a task is a stream whose first
\* event could not be emitted (handle_task_stream, outside its try).
THEOREM OnlyStreamsAreAbandoned ==
    Spec => [](\A id \in TaskIds : Abandoned(id) =>
                closing \/ req[owner[id]].kind = "stream")
<1>1. IInv => \A id \in TaskIds : Abandoned(id) =>
                closing \/ req[owner[id]].kind = "stream"
  BY DEF IInv, OwnerInv, Abandoned
<1>. QED
  BY <1>1, Invariance, PTL

-----------------------------------------------------------------------------
(* The refinement *)

\* Nobody has called.
LEMMA ServiceInit == Init => Service!Init
BY DEF Init, Service!Init

\* A call goes on, or ends with an answer the invariant vouches for.
LEMMA ServiceTell ==
    ASSUME IInv, IInv', NEW c \in Calls, pc[c] # "done",
           \A d \in Calls \ {c} : pc'[d] = pc[d] /\ result'[d] = result[d],
           UNCHANGED <<req, tableVars, runs>>
    PROVE  [Service!Next]_Service!vars
<1>. USE DEF tableVars
<1>1. CASE pc'[c] # "done"
  BY <1>1 DEF Service!vars
<1>2. CASE pc'[c] = "done"
  <2>1. PICK r \in Service!Answer : r = result'[c]
    BY DEF IInv, TypeOK, Service!Answer
  <2>2. CallOk(c)'
    BY DEF IInv, CallInv
  <2>. DEFINE told == [d \in Calls |-> IF pc[d] = "done" THEN result[d] ELSE "pending"]
  <2>3. told[c] = "pending" /\ told' = [told EXCEPT ![c] = r]
    BY <1>2, <2>1
  <2>4. /\ r \in Final => /\ r = tasks[IdOf(c)]
                          /\ req[c].kind # "cancel" => fingerprints[IdOf(c)] = req[c].payload
        /\ r = "completed" => req[c].kind # "cancel"
        /\ r = "conflict" => fingerprints[IdOf(c)] \notin {None, req[c].payload}
    BY <2>1, <2>2 DEF CallOk, IdOf
  <2>5. Service!Tell(c, r)
    BY <2>3, <2>4 DEF IdOf, Service!Tell, Service!IdOf
  <2>. QED
    BY <2>1, <2>5 DEF Service!Next
<1>. QED
  BY <1>1, <1>2

\* An owner finishes its task, and may end with it.
LEMMA ServiceFinish ==
    ASSUME IInv, NEW c \in Calls, pc[c] \in Busy, NEW state \in Final, Finish(c, state),
           NEW q \in Awaits, Goto(c, q), UNCHANGED <<req, runs>>
    PROVE  Service!Next
<1>. USE DEF IInv
<1>1. IdOf(c) \in TaskIds /\ c # None
  BY RequestType, NoneAssumption
<1>2. owner[IdOf(c)] = c /\ tasks[IdOf(c)] = "working" /\ pc[c] # "done"
  BY DEF CallInv, CallOk, Busy
<1>3. fingerprints[IdOf(c)] = req[c].payload /\ req[c].kind # "cancel"
  BY <1>1, <1>2 DEF TableInv
<1>4. /\ pc' = [pc EXCEPT ![c] = q] /\ result' = [result EXCEPT ![c] = state]
      /\ pc \in [Calls -> Awaits] /\ result \in [Calls -> Results]
  BY DEF Finish, Goto, TypeOK, Awaits, Results
<1>5. Service!Finish(c, state)
  BY <1>2, <1>3, <1>4 DEF Finish, IdOf, Service!Finish, Service!IdOf
<1>. QED
  BY <1>5 DEF Service!Next

\* Every step is a step of the service, or none.
LEMMA ServiceNext == IInv /\ IInv' /\ [Next]_vars => [Service!Next]_Service!vars
<1>. SUFFICES ASSUME IInv, IInv', [Next]_vars PROVE [Service!Next]_Service!vars
  OBVIOUS
<1>. USE DEF tableVars, procVars, callVars
<1>1. ASSUME NEW c \in Calls, ClaimOwn(c)
      PROVE  Service!Next
  <2>1. IdOf(c) \in TaskIds /\ fingerprints[IdOf(c)] = None /\ pc[c] = "idle"
    BY <1>1, RequestType DEF IInv, ClaimOwn, Arrives, Unclaimed
  <2>2. tasks[IdOf(c)] = "absent" /\ req[c].kind # "cancel"
    BY <1>1, <2>1 DEF IInv, TableInv, ClaimOwn, Arrives
  <2>3. PICK q \in {"announce", "append", "spawn"} : pc' = [pc EXCEPT ![c] = q]
    BY <1>1 DEF ClaimOwn, Goto
  <2>4. \A d \in Calls : pc'[d] = "done" <=> pc[d] = "done"
    BY <2>1, <2>3 DEF IInv, TypeOK
  <2>5. Service!Claim(c)
    BY <1>1, <2>1, <2>2, <2>4 DEF ClaimOwn, IdOf, Service!Claim, Service!IdOf
  <2>. QED
    BY <2>5 DEF Service!Next
<1>2. ASSUME NEW c \in Calls, Spawn(c)
      PROVE  Service!Next
  <2>1. pc[c] = "spawn" /\ pc' = [pc EXCEPT ![c] = "running"]
    BY <1>2 DEF Spawn, At, Goto
  <2>2. IdOf(c) \in TaskIds /\ tasks[IdOf(c)] = "working" /\ owner[IdOf(c)] = c /\ c # None
    BY <2>1, RequestType, NoneAssumption DEF IInv, CallInv, CallOk, Busy
  <2>3. runs[IdOf(c)] = 0
    BY <2>1, <2>2 DEF IInv, RunInv, Early
  <2>4. \A d \in Calls : pc'[d] = "done" <=> pc[d] = "done"
    BY <2>1 DEF IInv, TypeOK
  <2>5. Service!Start(IdOf(c))
    BY <1>2, <2>2, <2>3, <2>4 DEF Spawn, Service!Start
  <2>. QED
    BY <2>2, <2>5 DEF Service!Next
<1>3. ASSUME NEW c \in Calls,
             \/ Settle(c) \/ DeadLetter(c) \/ KilledTerminating(c)
             \/ KilledBeforeOrAfterRun(c) \/ (Terminated(c) /\ note[c] # "timeout")
      PROVE  Service!Next
  <2>1. pc[c] \in Busy /\ UNCHANGED <<req, runs>>
    BY <1>3 DEF Settle, DeadLetter, KilledTerminating, KilledBeforeOrAfterRun, Terminated,
       At, Hit, Busy
  <2>2. PICK state \in Final : Finish(c, state)
    BY <1>3 DEF Settle, DeadLetter, KilledTerminating, KilledBeforeOrAfterRun, Terminated,
       FinalState, Final
  <2>3. PICK q \in Awaits : Goto(c, q)
    BY <1>3 DEF Settle, DeadLetter, KilledTerminating, KilledBeforeOrAfterRun, Terminated,
       AfterFinish, Awaits
  <2>. QED
    BY <2>1, <2>2, <2>3, ServiceFinish
<1>4. ASSUME NEW c \in Calls,
             \/ ClaimConflict(c) \/ ClaimJoin(c) \/ CancelTask(c) \/ CancelRefused(c)
             \/ Announce(c) \/ AnnounceFails(c) \/ Join(c) \/ SessionAppend(c)
             \/ SpawnFails(c) \/ RunExited(c) \/ RunCanceled(c) \/ RunTimesOut(c)
      PROVE  [Service!Next]_Service!vars
  <2>1. pc[c] # "done" /\ UNCHANGED <<req, tableVars, runs>>
    BY <1>4 DEF ClaimConflict, ClaimJoin, CancelTask, CancelRefused, Announce, AnnounceFails,
       Join, SessionAppend, SpawnFails, RunExited, RunCanceled, RunTimesOut, Terminate,
       Arrives, ArrivesCancel, At
  <2>2. \A d \in Calls \ {c} : pc'[d] = pc[d] /\ result'[d] = result[d]
    BY <1>4 DEF ClaimConflict, ClaimJoin, CancelTask, CancelRefused, Announce, AnnounceFails,
       Join, SessionAppend, SpawnFails, RunExited, RunCanceled, RunTimesOut, Terminate,
       Goto, Answer, IInv, TypeOK
  <2>. QED
    BY <2>1, <2>2, ServiceTell
<1>5. ASSUME NEW c \in Calls,
             \/ Drain(c) \/ DrainFails(c) \/ (Terminated(c) /\ note[c] = "timeout")
             \/ RecordResponse(c) \/ EmitFinal(c) \/ EmitFinalFails(c)
             \/ CancelConfirmed(c) \/ CancelTimesOut(c)
             \/ KilledRunning(c) \/ KilledInDeadLetter(c) \/ KilledWaiting(c)
      PROVE  [Service!Next]_Service!vars
  <2>1. pc[c] # "done" /\ UNCHANGED <<req, tableVars, runs>>
    BY <1>5 DEF Drain, DrainFails, Terminated, RecordResponse, EmitFinal, EmitFinalFails,
       CancelConfirmed, CancelTimesOut, KilledRunning, KilledInDeadLetter, KilledWaiting,
       Terminate, At, Hit
  <2>2. \A d \in Calls \ {c} : pc'[d] = pc[d] /\ result'[d] = result[d]
    BY <1>5 DEF Drain, DrainFails, Terminated, RecordResponse, EmitFinal, EmitFinalFails,
       CancelConfirmed, CancelTimesOut, KilledRunning, KilledInDeadLetter, KilledWaiting,
       Terminate, Goto, Answer, IInv, TypeOK
  <2>. QED
    BY <2>1, <2>2, ServiceTell
<1>6. CASE \/ \E id \in TaskIds, outcome \in Outcome : ProcessExits(id, outcome)
           \/ Close \/ Unsubscribe \/ UNCHANGED vars
  BY <1>6 DEF ProcessExits, Close, Unsubscribe, vars, Service!vars
<1>. QED
  BY <1>1, <1>2, <1>3, <1>4, <1>5, <1>6 DEF Next, Arrive, Proceed

\* The agent implements the service its callers rely on, for any number of
\* calls, ids and payloads: each claim, start, finish and answer of the code is
\* that of TaskService, and all else is invisible to a caller.
THEOREM Refinement == Spec => ImplementsService
BY ServiceInit, ServiceNext, Invariance, PTL DEF Spec, ImplementsService, Service!Spec

\* A stored final state is never overwritten, though _finish_task does not look:
\* the service finishes a task only while it is working.
THEOREM FinalForGood ==
    Spec => [][\A id \in TaskIds : tasks[id] \in Final => tasks'[id] = tasks[id]]_vars
<1>1. ASSUME TypeOK, Service!Next, NEW id \in TaskIds, tasks[id] \in Final
      PROVE  tasks'[id] = tasks[id]
  <2>1. tasks \in [TaskIds -> Final \cup {"absent", "working"}] /\ tasks[id] \in Final
    BY <1>1 DEF TypeOK
  <2>2. ASSUME NEW c \in Calls, Service!Claim(c)
        PROVE  tasks'[id] = tasks[id]
    BY <2>1, <2>2 DEF Final, Service!Claim
  <2>3. ASSUME NEW c \in Calls, NEW final \in Final, Service!Finish(c, final)
        PROVE  tasks'[id] = tasks[id]
    BY <2>1, <2>3 DEF Final, Service!Finish
  <2>4. ASSUME NEW c \in Calls, NEW answer \in Service!Answer, Service!Tell(c, answer)
        PROVE  tasks'[id] = tasks[id]
    BY <2>4 DEF Service!Tell
  <2>5. ASSUME NEW i \in TaskIds, Service!Start(i)
        PROVE  tasks'[id] = tasks[id]
    BY <2>5 DEF Service!Start
  <2>. QED
    BY <1>1, <2>2, <2>3, <2>4, <2>5 DEF Service!Next
<1>2. TypeOK /\ [Service!Next]_Service!vars =>
        [\A id \in TaskIds : tasks[id] \in Final => tasks'[id] = tasks[id]]_vars
  BY <1>1 DEF Service!vars
<1>. QED
  BY <1>2, Refinement, TypeCorrect, PTL DEF ImplementsService, Service!Spec
=============================================================================
