---------------------------- MODULE HoldLifecycle ----------------------------
(***************************************************************************)
(* What the hold-expiry contract promises the rest of the system, with no  *)
(* candidates, fences, leases or claims: a hold protects its Artifact      *)
(* until it is released or, once its time has come, expires.  It expires   *)
(* at most once; the outcome of that expiry is fixed when it happens and   *)
(* is announced once to the audit log and once to the outbox.              *)
(***************************************************************************)
EXTENDS Integers, FiniteSets

CONSTANTS Hold, OtherHolds, Digests, None

VARIABLES
    clock,
    version,    \* every change of the Artifact's retention moves it
    deleting,   \* the Artifact is being deleted
    digest, expires, status,
    active,     \* the holds that protect the Artifact, this one included
    refs, minDelete,
    outcome,    \* the result of the expiry, None before it
    audited, announced

vars == <<clock, version, deleting, digest, expires, status, active, refs,
          minDelete, outcome, audited, announced>>

Locked(now) ==
    \/ active # {}
    \/ refs > 0
    \/ minDelete # None /\ now < minDelete

Init ==
    /\ clock = 0
    /\ version = 1
    /\ deleting = FALSE
    /\ digest \in Digests
    /\ expires \in Nat \cup {None}
    /\ status = "ACTIVE"
    /\ active \in {S \cup {Hold} : S \in SUBSET OtherHolds}
    /\ refs \in Nat
    /\ minDelete \in Nat \cup {None}
    /\ outcome = None
    /\ audited = 0
    /\ announced = 0

\* A step of a writer: the Artifact is not being deleted, its version moves.
Change ==
    /\ ~deleting
    /\ version' = version + 1
    /\ UNCHANGED <<clock, minDelete>>

Renew ==
    /\ Change
    /\ status = "ACTIVE"
    /\ digest' \in Digests \ {digest}
    /\ expires' \in Nat \cup {None}
    /\ UNCHANGED <<deleting, status, active, refs, outcome, audited,
                   announced>>

Release ==
    /\ Change
    /\ status = "ACTIVE"
    /\ status' = "RELEASED"
    /\ active' = active \ {Hold}
    /\ UNCHANGED <<deleting, digest, expires, refs, outcome, audited,
                   announced>>

ChangeRetention ==
    /\ Change
    /\ active' \in {(active \cap {Hold}) \cup S : S \in SUBSET OtherHolds}
    /\ refs' \in Nat
    /\ UNCHANGED <<deleting, digest, expires, status, outcome, audited,
                   announced>>

\* The hold expires: it was due at some instant not later than now, and the
\* outcome says whether something else still protects the Artifact.
Expire ==
    /\ Change
    /\ status = "ACTIVE"
    /\ expires # None
    /\ outcome = None
    /\ status' = "EXPIRED"
    /\ active' = active \ {Hold}
    /\ \E now \in 0 .. clock :
        /\ now >= expires
        /\ outcome' = [version |-> version',
                       locked |-> \/ active' # {}
                                  \/ refs > 0
                                  \/ minDelete # None /\ now < minDelete]
    /\ audited' = audited + 1
    /\ announced' = announced + 1
    /\ UNCHANGED <<deleting, digest, expires, refs>>

BeginDelete ==
    /\ Change
    /\ \E now \in 0 .. clock : ~Locked(now)
    /\ deleting' = TRUE
    /\ UNCHANGED <<digest, expires, status, active, refs, outcome, audited,
                   announced>>

Tick ==
    /\ clock' = clock + 1
    /\ UNCHANGED <<version, deleting, digest, expires, status, active, refs,
                   minDelete, outcome, audited, announced>>

Next ==
    Renew \/ Release \/ ChangeRetention \/ Expire \/ BeginDelete \/ Tick

Spec == Init /\ [][Next]_vars
=============================================================================
