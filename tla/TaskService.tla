----------------------------- MODULE TaskService -----------------------------
(***************************************************************************)
(* What an agent promises its callers, with no coroutines, futures, events *)
(* or child processes: a task id is claimed once, for what its first       *)
(* caller asked; its command is started at most once, while the task is    *)
(* working; it is finished at most once.  A caller is told a final state   *)
(* only if the task is in it, another caller's task never, a conflict only *)
(* if somebody else's request has the id, and a canceller never that the   *)
(* task completed.  Nothing is promised of when, or whether, it is told.   *)
(***************************************************************************)
EXTENDS Naturals

CONSTANTS Calls, Ids, Request, Final, None

VARIABLES
    asks,       \* what each call asks for (never changes)
    told,       \* what it was told, "pending" before that
    claimed,    \* the payload an id was claimed for
    state,      \* of the task
    starts      \* how often its command was started

vars == <<asks, told, claimed, state, starts>>

IdOf(c) == asks[c].id

\* What a call may be told; "none": it was cut off without an answer.
Answer == Final \cup {"none", "conflict", "error", "unavailable", "unconfirmed"}

Init ==
    /\ asks \in [Calls -> Request]
    /\ told = [c \in Calls |-> "pending"]
    /\ claimed = [id \in Ids |-> None]
    /\ state = [id \in Ids |-> "absent"]
    /\ starts = [id \in Ids |-> 0]

Claim(c) ==
    /\ asks[c].kind # "cancel"
    /\ told[c] = "pending"
    /\ state[IdOf(c)] = "absent"
    /\ state' = [state EXCEPT ![IdOf(c)] = "working"]
    /\ claimed' = [claimed EXCEPT ![IdOf(c)] = asks[c].payload]
    /\ UNCHANGED <<asks, told, starts>>

Start(id) ==
    /\ state[id] = "working"
    /\ starts[id] = 0
    /\ starts' = [starts EXCEPT ![id] = 1]
    /\ UNCHANGED <<asks, told, claimed, state>>

\* The task is finished for a caller that asked for it, who may be told at once.
Finish(c, final) ==
    /\ asks[c].kind # "cancel"
    /\ claimed[IdOf(c)] = asks[c].payload
    /\ told[c] = "pending"
    /\ state[IdOf(c)] = "working"
    /\ state' = [state EXCEPT ![IdOf(c)] = final]
    /\ told' \in {told, [told EXCEPT ![c] = final]}
    /\ UNCHANGED <<asks, claimed, starts>>

Tell(c, answer) ==
    /\ told[c] = "pending"
    /\ answer \in Final =>
        /\ answer = state[IdOf(c)]
        /\ asks[c].kind # "cancel" => claimed[IdOf(c)] = asks[c].payload
    /\ answer = "completed" => asks[c].kind # "cancel"
    /\ answer = "conflict" => claimed[IdOf(c)] \notin {None, asks[c].payload}
    /\ told' = [told EXCEPT ![c] = answer]
    /\ UNCHANGED <<asks, claimed, state, starts>>

Next ==
    \/ \E c \in Calls :
        \/ Claim(c)
        \/ \E final \in Final : Finish(c, final)
        \/ \E answer \in Answer : Tell(c, answer)
    \/ \E id \in Ids : Start(id)

Spec == Init /\ [][Next]_vars
=============================================================================
