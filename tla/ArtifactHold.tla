---------------------------- MODULE ArtifactHold ----------------------------
(***************************************************************************)
(* The atomic contract for expiring one Artifact hold,                     *)
(* src/a2amesh/state_contracts/artifact_hold.py.                           *)
(*                                                                         *)
(* One CAS snapshot (ArtifactHoldExpiryCASState) holds the hold itself,    *)
(* the ledger of candidates (who may expire it, under which fence and for  *)
(* how long), and the immutable evidence of the expiry: commit, audit      *)
(* record, outbox record.  Reaper instances call SCAN to obtain a          *)
(* candidate, EXPIRE to use it, and REPLAY_CLAIM to take over the right to *)
(* be told the result of an expiry whose answer was lost.  Calls are       *)
(* delayed, duplicated and sent by several instances: any candidate that   *)
(* was ever issued may be presented at any later time by any caller.       *)
(* Other writers (renew, release, reference changes, delete) share the     *)
(* Artifact version; they are not in the repository and are modelled from  *)
(* what the snapshot's validation accepts.                                 *)
(*                                                                         *)
(* Abstractions.  artifact_id and hold_id are fixed: a snapshot is about   *)
(* one hold.  A SHA-256 identity is the tuple that is hashed, so           *)
(* expire_operation_id is the due tuple, replay_operation_id the pair of   *)
(* due tuple and lease.  candidate_lease_id and candidate_token, issued    *)
(* and checked together in one namespace, are one bearer value.            *)
(* request_digest, result_digest and the seals repeat fields that are      *)
(* compared here directly.  A rejected call (ArtifactHoldExpiryConflict)   *)
(* writes nothing and is no step.                                          *)
(*                                                                         *)
(* Every writer ends with updated.validate().  That call is not a guard of *)
(* the actions, except for the two clauses nothing else enforces; the      *)
(* invariants HoldValid .. ClaimsValid below are that validation, so their *)
(* proof shows that the code's last check never refuses a call the earlier *)
(* checks let through.                                                     *)
(***************************************************************************)
EXTENDS Integers, Sequences, FiniteSets

CONSTANTS
    Instances,      \* authenticated instance ids of the callers
    Principals,     \* authenticated principal ids of the callers
    Reaper,         \* ARTIFACT_HOLD_REAPER_PRINCIPAL_ID
    ScanIds,        \* scan_operation_id values
    MaxCandidates,  \* max_candidates values of a scan request
    Tokens,         \* bearer values (lease id and token)
    Digests,        \* hold digests
    Hold,           \* the id of the hold this snapshot is about
    OtherHolds,     \* ids of other holds on the same Artifact
    MinDeletes,     \* minimum_delete_at_ms values of the Artifact
    None,           \* Python's None
    LeaseMax,       \* ARTIFACT_HOLD_CANDIDATE_LEASE_MAX_MS
    MaxSkew,        \* how far a State server's clock may lag behind
    MaxClock,       \* bound: the last instant of a behaviour
    MaxVersion,     \* bound: other writers stop at this Artifact version
    MaxRefs,        \* bound: active_ref_count
    BurnBound       \* bound: fences up to this one may be burned

ASSUME ReaperAssumption == Reaper \in Principals
ASSUME LeaseAssumption == LeaseMax \in Nat \ {0}
ASSUME BoundAssumption ==
    /\ MaxSkew \in Nat
    /\ MaxClock \in Nat
    /\ MaxVersion \in Nat
    /\ MaxRefs \in Nat
    /\ BurnBound \in Nat
ASSUME HoldAssumption == Hold \notin OtherHolds /\ IsFiniteSet(OtherHolds)
ASSUME MinDeleteAssumption == MinDeletes \subseteq Nat \cup {None}

Time == Nat
OptTime == Time \cup {None}

ScanRequest == [id : ScanIds, max : MaxCandidates]

\* What expire_operation_id hashes: the incarnation of the hold to expire.
DueTuple == [digest : Digests, version : Nat, expires : OptTime]

\* The authority to expire (issued by a scan) or to be answered (by a claim).
Candidate ==
    [lease : Tokens, fence : Nat, principal : Principals,
     instance : Instances, issued : Time, until : Time, due : DueTuple]

\* consumed_by_expire_operation_id and consumed_at_ms are None until consumed.
Entry == [cand : Candidate, by : DueTuple \cup {None}, at : OptTime]

\* A scan request, the candidate in its result, and the proof of where the
\* candidate's fence was allocated from.
ScanAllocation == [request : ScanRequest, cand : Candidate, prev : Nat]

\* ArtifactHoldExpiryReplayCurrentAuthority: which claim is current.
Pointer == [due : DueTuple, lease : Tokens, revision : Nat]

LifecycleStatus ==
    {"PENDING_UPLOAD", "AVAILABLE", "QUARANTINED", "DELETING", "DELETED",
     "FAILED"}
HoldStatus == {"ACTIVE", "RELEASED", "EXPIRED"}

HoldState ==
    [version : Nat, lifecycle : LifecycleStatus, digest : Digests,
     status : HoldStatus, expires : OptTime,
     active : SUBSET (OtherHolds \cup {Hold}), refs : Nat,
     minDelete : OptTime, dueScore : OptTime,
     candidate : Candidate \cup {None}]

Result == [version : Nat, locked : BOOLEAN]

Commit ==
    [due : DueTuple, cand : Candidate, remaining : Nat, refs : Nat,
     minDelete : OptTime, at : Time, result : Result]

EventRecord ==
    [sink : {"AUDIT", "OUTBOX"}, due : DueTuple, version : Nat, at : Time]

Caller == [principal : Principals, instance : Instances, reaper : BOOLEAN]

NoReply == [kind |-> "none"]

ASSUME NoneAssumption ==
    /\ None \notin Nat
    /\ None \notin DueTuple
    /\ None \notin Candidate

VARIABLES
    clock,      \* true time; a server reads a value at most MaxSkew behind it
    hold,       \* ArtifactHoldState
    highWater,  \* candidate_fence_high_water
    entries,    \* candidate_entries (a set: the tuple is in fence order)
    scans,      \* scan_requests, scan_results, scan_allocations
    claims,     \* replay_claim_results (the candidates issued by claims)
    pointers,   \* replay_current_authorities
    commits, audit, outbox,
    reply       \* the last answer given to a caller

ledgerVars == <<highWater, entries, scans, claims, pointers>>
evidenceVars == <<commits, audit, outbox>>
vars == <<clock, hold, highWater, entries, scans, claims, pointers, commits,
          audit, outbox, reply>>

-----------------------------------------------------------------------------
(* Reading the snapshot *)

DueTupleOf(h) ==
    [digest |-> h.digest, version |-> h.version, expires |-> h.expires]

\* Mutant: the other holds no longer lock the Artifact.
RetentionLockedAtNoHolds(h, now) ==
    \/ h.refs > 0
    \/ h.minDelete # None /\ now < h.minDelete

RetentionLockedAt(h, now) ==
    \/ h.active # {}
    \/ h.refs > 0
    \/ h.minDelete # None /\ now < h.minDelete

ServerNow == {now \in 0 .. clock : clock - now <= MaxSkew}

UsedTokens == {e.cand.lease : e \in entries}

CommitsFor(due) == {k \in DOMAIN commits : commits[k].due = due}

ClaimsFor(due) == {c \in claims : c.due = due}

\* current_replay_claim_for_expire_operation: the claim the pointer names.
CurrentClaims(due) ==
    {c \in ClaimsFor(due) :
        \E p \in pointers : p.due = due /\ p.lease = c.lease}

\* The unconsumed due candidates for the hold's current incarnation; claims are
\* no candidates (and there is none while the hold is ACTIVE, when this is used).
CurrentCandidates(es, h) ==
    {c \in {e.cand : e \in {x \in es : x.by = None}} :
        c \notin claims /\ c.due = DueTupleOf(h)}

\* Mutant: sorted the wrong way round.
LatestOfLowest(S) ==
    IF S = {} THEN None
    ELSE CHOOSE c \in S : \A d \in S : d.fence >= c.fence

LatestOf(S) ==
    IF S = {} THEN None
    ELSE CHOOSE c \in S : \A d \in S : d.fence <= c.fence

\* What a caller is told.
ScanResult(c) == [kind |-> "scan", cand |-> c]
ExpiryResult(kind, c, k) == [kind |-> kind, cand |-> c, result |-> k.result]
ReplayClaimResult(c) == [kind |-> "claim", cand |-> c]

NewEntry(c) == [cand |-> c, by |-> None, at |-> None]

-----------------------------------------------------------------------------
(* SCAN *)

ScanCandidate(who, lease, now) ==
    [lease |-> lease, fence |-> highWater + 1,
     principal |-> who.principal, instance |-> who.instance,
     issued |-> now, until |-> now + LeaseMax, due |-> DueTupleOf(hold)]

\* Mutant: any authenticated reaper role may scan.
MayScanAnyPrincipal(who) == who.reaper

\* What a caller is checked for before anything is read.
MayScan(who) == who.reaper /\ who.principal = Reaper

\* The hold is ACTIVE, finite, indexed and due at the server's time.
ScanDue(now) ==
    /\ hold.status = "ACTIVE"
    /\ hold.expires # None
    /\ hold.dueScore # None
    /\ now >= hold.dueScore

\* Mutant: the allocation proof is not tied to the entry before it.
AllocationUnchecked == TRUE

\* A clause only the final validation enforces: the high-water an allocation
\* started from must be the fence of the entry before it.
AllocationHasPredecessor ==
    \/ entries = {} /\ highWater = 0
    \/ \E e \in entries : e.cand.fence = highWater

Scan(who, request, lease, now) ==
    /\ MayScan(who)
    /\ \A s \in scans : s.request.id # request.id
    /\ ScanDue(now)
    /\ lease \notin UsedTokens
    /\ AllocationHasPredecessor
    /\ LET c == ScanCandidate(who, lease, now)
           es == entries \cup {NewEntry(c)}
       IN  /\ entries' = es
           /\ highWater' = c.fence
           /\ scans' = scans \cup
                {[request |-> request, cand |-> c, prev |-> highWater]}
           /\ hold' = [hold EXCEPT
                !.candidate = LatestOf(CurrentCandidates(es, hold))]
           /\ reply' = ScanResult(c)
    /\ UNCHANGED <<clock, claims, pointers, evidenceVars>>

\* The same request by the same owner gets the stored result back.
ScanAgain(who, request) ==
    /\ MayScan(who)
    /\ \E s \in scans :
        /\ s.request = request
        /\ s.cand.principal = who.principal
        /\ s.cand.instance = who.instance
        /\ reply' = ScanResult(s.cand)
    /\ UNCHANGED <<clock, hold, ledgerVars, evidenceVars>>

-----------------------------------------------------------------------------
(* EXPIRE *)

\* Caller, candidate and fence belong together (authenticated context).
Owns(who, c, fence) ==
    /\ c.principal = who.principal
    /\ c.instance = who.instance
    /\ c.fence = fence

LeaseLive(c, now) == c.issued <= now /\ now < c.until

\* Mutant: a candidate is good for ever.
ExpiryPredicateNoLease(who, c, fence, now) ==
    /\ hold.lifecycle \notin {"DELETING", "DELETED"}
    /\ hold.status = "ACTIVE"
    /\ Hold \in hold.active
    /\ hold.expires # None
    /\ hold.dueScore = hold.expires
    /\ now >= hold.expires
    /\ Owns(who, c, fence)
    /\ c.due = DueTupleOf(hold)

\* _require_expiry_predicate
ExpiryPredicate(who, c, fence, now) ==
    /\ hold.lifecycle \notin {"DELETING", "DELETED"}
    /\ hold.status = "ACTIVE"
    /\ Hold \in hold.active
    /\ hold.expires # None
    /\ hold.dueScore = hold.expires
    /\ now >= hold.expires
    /\ LeaseLive(c, now)
    /\ Owns(who, c, fence)
    /\ c.due = DueTupleOf(hold)

\* Mutant: the hold stays in the due index.
ExpiredHoldStillDue(h) ==
    [h EXCEPT !.version = @ + 1, !.status = "EXPIRED",
              !.active = @ \ {Hold}, !.candidate = None]

\* Mutant: the hold leaves the retention set but keeps its status.
ExpiredHoldStillActive(h) ==
    [h EXCEPT !.version = @ + 1, !.active = @ \ {Hold}, !.dueScore = None,
              !.candidate = None]

\* _project_artifact_hold_expiry: the hold after the expiry.
ExpiredHold(h) ==
    [h EXCEPT !.version = @ + 1, !.status = "EXPIRED",
              !.active = @ \ {Hold}, !.dueScore = None, !.candidate = None]

\* Mutant: the retention evidence is read before the hold is removed.
CommitOfBefore(c, h, now) ==
    [due |-> c.due, cand |-> c, remaining |-> Cardinality(hold.active),
     refs |-> h.refs, minDelete |-> h.minDelete, at |-> now,
     result |-> [version |-> h.version,
                 locked |-> RetentionLockedAt(hold, now)]]

CommitOf(c, h, now) ==
    [due |-> c.due, cand |-> c, remaining |-> Cardinality(h.active),
     refs |-> h.refs, minDelete |-> h.minDelete, at |-> now,
     result |-> [version |-> h.version, locked |-> RetentionLockedAt(h, now)]]

\* Mutant: the record is written before the resulting version is known.
EventOfUnversioned(sink, k) ==
    [sink |-> sink, due |-> k.due, version |-> None, at |-> k.at]

EventOf(sink, k) ==
    [sink |-> sink, due |-> k.due, version |-> k.result.version, at |-> k.at]

\* Mutant: the consumed candidate is dropped, no tombstone is left.
ConsumedForgotten(es, c, now) == es \ {NewEntry(c)}

\* consume_candidate: the entry becomes a permanent tombstone.
Consumed(es, c, now) ==
    (es \ {NewEntry(c)}) \cup {[cand |-> c, by |-> c.due, at |-> now]}

\* Mutant: the caller's unexpired ledger entry is trusted; neither the
\* projected candidate nor the due tuple is compared with the hold.
ExpireOnLedgerEntry(who, c, fence, now) ==
    /\ who.reaper
    /\ CommitsFor(c.due) = {}
    /\ NewEntry(c) \in entries
    /\ hold.status = "ACTIVE"
    /\ Owns(who, c, fence)
    /\ LeaseLive(c, now)
    /\ hold' = ExpiredHold(hold)
    /\ entries' = Consumed(entries, c, now)
    /\ commits' = Append(commits, CommitOf(c, ExpiredHold(hold), now))
    /\ reply' = [kind |-> "expire", cand |-> c]
    /\ UNCHANGED <<clock, highWater, scans, claims, pointers, audit, outbox>>

Expire(who, c, fence, now) ==
    /\ who.reaper
    /\ CommitsFor(c.due) = {}
    /\ NewEntry(c) \in entries
    /\ hold.candidate = c
    /\ ExpiryPredicate(who, c, fence, now)
    /\ LET h == ExpiredHold(hold)
           k == CommitOf(c, h, now)
       IN  /\ hold' = h
           /\ entries' = Consumed(entries, c, now)
           /\ commits' = Append(commits, k)
           /\ audit' = Append(audit, EventOf("AUDIT", k))
           /\ outbox' = Append(outbox, EventOf("OUTBOX", k))
           /\ reply' = ExpiryResult("expire", c, k)
    /\ UNCHANGED <<clock, highWater, scans, claims, pointers>>

\* Mutant: the consumed candidate stays good after a claim.
CommittedAuthorityForEver(who, c, fence) ==
    \E e \in entries :
        /\ e.by = c.due
        /\ e.cand = c
        /\ Owns(who, c, fence)

\* require_replay_authority, for a committed operation: the candidate that
\* was consumed, as long as nobody claimed the replay, ...
CommittedAuthority(who, c, fence) ==
    \E e \in entries :
        /\ e.by = c.due
        /\ e.cand = c
        /\ ClaimsFor(c.due) = {}
        /\ Owns(who, c, fence)

\* ... or the candidate of the current claim, while its lease lasts.
ClaimedAuthority(who, c, fence, now) ==
    \E e \in entries :
        /\ e.by = c.due
        /\ e.cand.lease # c.lease
        /\ who.principal = e.cand.principal
        /\ NewEntry(c) \in entries
        /\ c \in CurrentClaims(c.due)
        /\ c.fence > e.cand.fence
        /\ Owns(who, c, fence)
        /\ LeaseLive(c, now)

\* Mutant: the result is computed again from the hold as it is now.
ExpireAgainFresh(who, c, fence, now) ==
    /\ who.reaper
    /\ \/ CommittedAuthority(who, c, fence)
       \/ ClaimedAuthority(who, c, fence, now)
    /\ CommitsFor(c.due) # {}
    /\ reply' = [kind |-> "replay", cand |-> c,
                 result |-> [version |-> hold.version,
                             locked |-> RetentionLockedAt(hold, now)]]
    /\ UNCHANGED <<clock, hold, ledgerVars, evidenceVars>>

ExpireAgain(who, c, fence, now) ==
    /\ who.reaper
    /\ \/ CommittedAuthority(who, c, fence)
       \/ ClaimedAuthority(who, c, fence, now)
    /\ \E k \in CommitsFor(c.due) :
        /\ hold.digest = commits[k].due.digest
        /\ hold.version >= commits[k].result.version
        /\ reply' = ExpiryResult("replay", c, commits[k])
    /\ UNCHANGED <<clock, hold, ledgerVars, evidenceVars>>

-----------------------------------------------------------------------------
(* REPLAY_CLAIM *)

\* The hold is in the terminal state the commit left it in, or a later one.
CommittedTerminal(k) ==
    /\ hold.status = "EXPIRED"
    /\ hold.digest = k.due.digest
    /\ hold.expires = k.due.expires
    /\ hold.dueScore = None
    /\ hold.candidate = None
    /\ hold.version >= k.result.version

\* Mutant: a claim does not look for a live predecessor.
NoLiveClaimAlways(due, now) == TRUE

\* A claim waits until the current one has run out.
NoLiveClaim(due, now) ==
    \A c \in CurrentClaims(due) : now >= c.issued /\ now >= c.until

\* Mutant: a claim shares the fence of the candidate it supersedes.
ClaimCandidateSameFence(who, due, lease, until, now) ==
    [lease |-> lease, fence |-> highWater,
     principal |-> who.principal, instance |-> who.instance,
     issued |-> now, until |-> until, due |-> due]

ClaimCandidate(who, due, lease, until, now) ==
    [lease |-> lease, fence |-> highWater + 1,
     principal |-> who.principal, instance |-> who.instance,
     issued |-> now, until |-> until, due |-> due]

\* Mutant: the claim may be dated before the commit.
ClaimableAnyTime(who, due, now) ==
    \E k \in CommitsFor(due) :
        /\ \E e \in entries : e.by = due /\ e.cand = commits[k].cand
        /\ who.principal = commits[k].cand.principal
        /\ CommittedTerminal(commits[k])

\* The caller's principal owns the committed expiry the claim is about.
Claimable(who, due, now) ==
    \E k \in CommitsFor(due) :
        /\ \E e \in entries : e.by = due /\ e.cand = commits[k].cand
        /\ who.principal = commits[k].cand.principal
        /\ CommittedTerminal(commits[k])
        /\ now >= commits[k].at    \* only the final validation enforces this

ReplayClaim(who, due, lease, until, now) ==
    /\ who.reaper
    /\ \A c \in ClaimsFor(due) : c.lease # lease
    /\ until > now
    /\ until - now <= LeaseMax
    /\ Claimable(who, due, now)
    /\ NoLiveClaim(due, now)
    /\ lease \notin UsedTokens
    /\ LET c == ClaimCandidate(who, due, lease, until, now)
           old == {p \in pointers : p.due = due}
       IN  /\ entries' = entries \cup {NewEntry(c)}
           /\ highWater' = c.fence
           /\ claims' = claims \cup {c}
           /\ pointers' = (pointers \ old) \cup
                {[due |-> due, lease |-> lease,
                  revision |-> IF old = {} THEN 1
                               ELSE (CHOOSE p \in old : TRUE).revision + 1]}
           /\ reply' = ReplayClaimResult(c)
    /\ UNCHANGED <<clock, hold, scans, evidenceVars>>

\* The same claim by its owner gets the stored result back, expired or not.
ReplayClaimAgain(who, due, lease) ==
    /\ who.reaper
    /\ \E c \in ClaimsFor(due) :
        /\ c.lease = lease
        /\ c.principal = who.principal
        /\ c.instance = who.instance
        /\ reply' = ReplayClaimResult(c)
    /\ UNCHANGED <<clock, hold, ledgerVars, evidenceVars>>

-----------------------------------------------------------------------------
(* The other writers of the Artifact version, and time *)

Writable == hold.lifecycle \notin {"DELETING", "DELETED"}
             /\ hold.version < MaxVersion

Write(h) ==
    /\ hold' = [h EXCEPT !.version = @ + 1, !.candidate = None]
    /\ UNCHANGED <<clock, ledgerVars, evidenceVars, reply>>

\* The hold gets another expiry (None: it becomes a legal hold).
Renew(digest, expires) ==
    /\ Writable
    /\ hold.status = "ACTIVE"
    /\ digest # hold.digest
    /\ Write([hold EXCEPT !.digest = digest, !.expires = expires,
                          !.dueScore = expires])

Release ==
    /\ Writable
    /\ hold.status = "ACTIVE"
    /\ Write([hold EXCEPT !.status = "RELEASED", !.active = @ \ {Hold},
                          !.dueScore = None])

\* References and other holds of the Artifact come and go.
ChangeRetention(others, refs) ==
    /\ Writable
    /\ Write([hold EXCEPT !.active = (@ \cap {Hold}) \cup others,
                          !.refs = refs])

BeginDelete(now) ==
    /\ Writable
    /\ ~RetentionLockedAt(hold, now)
    /\ Write([hold EXCEPT !.lifecycle = "DELETING"])

\* The persisted fence counter advanced and no candidate was formed.
BurnFence ==
    /\ highWater < BurnBound
    /\ highWater' = highWater + 1
    /\ UNCHANGED <<clock, hold, entries, scans, claims, pointers,
                   evidenceVars, reply>>

Tick ==
    /\ clock < MaxClock
    /\ clock' = clock + 1
    /\ UNCHANGED <<hold, ledgerVars, evidenceVars, reply>>

-----------------------------------------------------------------------------
\* A fresh hold in an otherwise empty snapshot (ArtifactHoldExpiryCASState.create).
InitialHold(digest, expires, others, refs, minDelete) ==
    [version |-> 1, lifecycle |-> "AVAILABLE", digest |-> digest,
     status |-> "ACTIVE", expires |-> expires, active |-> others \cup {Hold},
     refs |-> refs, minDelete |-> minDelete, dueScore |-> expires,
     candidate |-> None]

Instants == 0 .. MaxClock

Init ==
    /\ clock = 0
    /\ \E digest \in Digests, expires \in Instants \cup {None}, minDelete \in MinDeletes,
          others \in SUBSET OtherHolds, refs \in 0 .. MaxRefs :
            hold = InitialHold(digest, expires, others, refs, minDelete)
    /\ highWater = 0
    /\ entries = {}
    /\ scans = {}
    /\ claims = {}
    /\ pointers = {}
    /\ commits = <<>>
    /\ audit = <<>>
    /\ outbox = <<>>
    /\ reply = NoReply

\* An EXPIRE request carries a candidate: any one that was ever issued.
Issued == {e.cand : e \in entries}

\* A REPLAY_CLAIM request names the expiry by its due tuple and brings a
\* bearer value of the caller's own.
ReplayClaimRequest == [due : {c.due : c \in Issued}, lease : Tokens]

ReaperCall(who, now) ==
    \/ \E request \in ScanRequest, lease \in Tokens :
            Scan(who, request, lease, now)
    \/ \E request \in ScanRequest : ScanAgain(who, request)
    \/ \E c \in Issued, fence \in 1 .. highWater :
            Expire(who, c, fence, now)
    \/ \E c \in Issued, fence \in 1 .. highWater :
            ExpireAgain(who, c, fence, now)
    \/ \E r \in ReplayClaimRequest, until \in now .. now + LeaseMax + 1 :
            ReplayClaim(who, r.due, r.lease, until, now)
    \/ \E r \in ReplayClaimRequest : ReplayClaimAgain(who, r.due, r.lease)

OtherWriter ==
    \/ \E digest \in Digests, expires \in Instants \cup {None} :
            Renew(digest, expires)
    \/ Release
    \/ \E others \in SUBSET OtherHolds, refs \in 0 .. MaxRefs :
            ChangeRetention(others, refs)
    \/ \E now \in ServerNow : BeginDelete(now)
    \/ BurnFence

Next ==
    \/ \E who \in Caller, now \in ServerNow : ReaperCall(who, now)
    \/ OtherWriter
    \/ Tick

Spec == Init /\ [][Next]_vars

-----------------------------------------------------------------------------
(* Properties *)

TypeOK ==
    /\ clock \in Time
    /\ hold \in HoldState
    /\ highWater \in Nat
    /\ entries \in SUBSET Entry
    /\ scans \in SUBSET ScanAllocation
    /\ claims \in SUBSET Candidate
    /\ pointers \in SUBSET Pointer
    /\ commits \in Seq(Commit)
    /\ audit \in Seq(EventRecord)
    /\ outbox \in Seq(EventRecord)

\* ArtifactHoldState.validate holds after every interleaving of reapers and
\* other writers: the retention set and the due index agree with the hold's
\* status, and a candidate is only ever projected on the incarnation of the
\* hold (digest, version, expiry) it was issued for.
HoldValid ==
    /\ hold.status = "ACTIVE" <=> Hold \in hold.active
    /\ hold.dueScore = IF hold.status = "ACTIVE" THEN hold.expires ELSE None
    /\ hold.candidate # None =>
        /\ hold.status = "ACTIVE"
        /\ hold.expires # None
        /\ hold.candidate.due = DueTupleOf(hold)

\* No bearer value and no fence is ever issued twice, whatever mix of scans,
\* claims, consumed and burned fences came before (candidate_entry_for and
\* the "global candidate authority was reused or regressed" checks).
AuthorityUnique ==
    /\ \A e \in entries : e.cand.fence \in 1 .. highWater
    /\ \A e, f \in entries :
        e.cand.lease = f.cand.lease \/ e.cand.fence = f.cand.fence => e = f

\* The ledger's evidence is complete (LedgerState.validate): every entry was
\* issued by exactly one scan or claim, and a scan's allocation proof starts
\* from the fence of the entry right before it.
EvidenceComplete ==
    /\ \A e \in entries : e.cand \in claims \/ \E s \in scans : s.cand = e.cand
    /\ \A s \in scans : s.cand \in Issued /\ s.cand \notin claims
    /\ claims \subseteq Issued
    /\ \A s, t \in scans :
        s.request.id = t.request.id \/ s.cand = t.cand => s = t
    /\ \A s \in scans :
        /\ s.prev < s.cand.fence
        /\ s.prev = 0 \/ \E e \in entries : e.cand.fence = s.prev
        /\ \A e \in entries :
            e.cand.fence <= s.prev \/ e.cand.fence >= s.cand.fence

\* At any instant at most one claim gives the right to a replayed answer, on
\* whatever server clocks the claims were made; the pointer names the newest
\* claim and counts them (LedgerState.validate).
ReplayAuthorityValid ==
    /\ \A c, d \in claims :
        c.due = d.due /\ c.fence < d.fence => d.issued >= c.until
    /\ \A p, q \in pointers : p.due = q.due => p = q
    /\ \A c \in claims : \E p \in pointers : p.due = c.due
    /\ \A p \in pointers :
        /\ p.revision = Cardinality(ClaimsFor(p.due))
        /\ \E c \in ClaimsFor(p.due) :
            /\ c.lease = p.lease
            /\ \A d \in ClaimsFor(p.due) : d.fence <= c.fence

\* CASState.validate: while the hold is ACTIVE its projected candidate is the
\* newest unconsumed one for this incarnation, so an older reaper that scanned
\* first is fenced off by a later scan.
ProjectionValid ==
    LET current == CurrentCandidates(entries, hold)
    IN  hold.status = "ACTIVE" =>
            IF hold.candidate = None THEN current = {}
            ELSE /\ hold.candidate \in current
                 /\ \A c \in current : c.fence <= hold.candidate.fence

\* The retention verdict of a result follows from the commit's own evidence.
ResultFollows(k) ==
    k.result.locked =
        \/ k.remaining > 0
        \/ k.refs > 0
        \/ k.minDelete # None /\ k.at < k.minDelete

\* Candidate tombstones and commits are one to one.
TombstonesMatch ==
    /\ \A k, l \in DOMAIN commits : commits[k].due = commits[l].due => k = l
    /\ \A k \in DOMAIN commits : \E e \in entries : e.by = commits[k].due
    /\ \A e \in entries : e.by # None =>
        \E k \in DOMAIN commits : e.by = commits[k].due
    /\ \A e, f \in entries : e.by # None /\ e.by = f.by => e = f

\* Commits and the records of both sinks are one to one.
EventsMatch ==
    /\ Len(audit) = Len(commits)
    /\ Len(outbox) = Len(commits)
    /\ \A k \in DOMAIN commits :
        /\ audit[k] = EventOf("AUDIT", commits[k])
        /\ outbox[k] = EventOf("OUTBOX", commits[k])

\* Commit k agrees with e, the tombstone of its candidate.
CommitFits(k, e) ==
    /\ e.cand = k.cand
    /\ k.cand.due = k.due
    /\ e.at = k.at
    /\ LeaseLive(k.cand, k.at)
    /\ k.due.expires # None
    /\ k.at >= k.due.expires
    /\ k.result.version = k.due.version + 1
    /\ ResultFollows(k)

\* No unconsumed scan candidate for the same digest and expiry is newer than c.
NewestScanned(c) ==
    \A f \in entries :
        /\ f.by = None
        /\ f.cand \notin claims
        /\ f.cand.due.digest = c.due.digest
        /\ f.cand.due.expires = c.due.expires
        => f.cand.fence <= c.fence

\* CASState.validate: candidate tombstones, commits, audit and outbox records
\* are one to one; the commit fell in its candidate's lease and not before
\* the hold's expiry, and no newer unconsumed candidate survives it.
CommitsValid ==
    /\ TombstonesMatch
    /\ EventsMatch
    /\ \A k \in DOMAIN commits :
        /\ \A e \in entries : e.by = commits[k].due => CommitFits(commits[k], e)
        /\ NewestScanned(commits[k].cand)

\* CASState.validate: once an expiry is committed the hold stays expired, with
\* the digest and expiry that were committed, whatever other writers do to the
\* Artifact; until another writer moves the version its retention is the
\* committed one.
HoldReflectsCommit ==
    \A k \in DOMAIN commits :
        /\ CommittedTerminal(commits[k])
        /\ Hold \notin hold.active
        /\ hold.version = commits[k].result.version =>
            /\ commits[k].remaining = Cardinality(hold.active)
            /\ commits[k].refs = hold.refs
            /\ commits[k].minDelete = hold.minDelete
            /\ commits[k].result.locked =
                    RetentionLockedAt(hold, commits[k].at)

\* CASState.validate: a claim exists only for a committed expiry, is owned by
\* the principal that committed it, and was issued after the commit under a
\* higher fence.
ClaimsValid ==
    \A c \in claims : \E k \in CommitsFor(c.due) :
        /\ c.principal = commits[k].cand.principal
        /\ c.fence > commits[k].cand.fence
        /\ c.issued >= commits[k].at

\* Only the configured reaper principal ever holds an authority, although
\* EXPIRE and REPLAY_CLAIM never compare the caller with it: the chain of
\* ownership starts at the scan.
OnlyReaperOwns ==
    /\ \A e \in entries : e.cand.principal = Reaper
    /\ \A k \in DOMAIN commits : commits[k].cand.principal = Reaper

\* A hold is expired exactly when one expiry is committed for it, and it is
\* committed at most once however often EXPIRE is retried or taken over.
ExpiredOnce ==
    /\ Len(commits) <= 1
    /\ hold.status = "EXPIRED" <=> Len(commits) = 1

\* The Artifact is never deleted while this hold, finite or legal, protects it.
NoDeleteUnderHold ==
    hold.lifecycle = "DELETING" => hold.status # "ACTIVE" /\ hold.active = {}

\* Every answer to EXPIRE, first or replayed, is the committed result, even
\* after the Artifact moved on.
AnswerIsCommitted ==
    reply.kind \in {"expire", "replay"} =>
        \E k \in CommitsFor(reply.cand.due) : reply.result = commits[k].result

\* An EXPIRE is answered only under the newest authority: after a claim, the
\* original reaper and every earlier claimant are refused for good.
SupersededIsRefused ==
    [][reply' # reply /\ reply'.kind = "replay" =>
        \A c \in ClaimsFor(reply'.cand.due) :
            c.fence <= reply'.cand.fence]_vars

\* Ledger and evidence only grow: fences go up, a tombstone is permanent, no
\* entry, claim, scan or commit is ever dropped or rewritten.
LedgerGrows ==
    [][ /\ highWater' >= highWater
        /\ \A e \in entries' : e.cand \in Issued \/ e.cand.fence > highWater
        /\ \A e \in entries :
            IF e.by = None THEN e.cand \in Issued' ELSE e \in entries'
        /\ scans \subseteq scans'
        /\ claims \subseteq claims'
        /\ \E n \in 0 .. Len(commits') : commits = SubSeq(commits', 1, n) ]_vars

\* A hold that is renewed, released or reconfigured between SCAN and EXPIRE is
\* not expired by the stale candidate: a hold expires only at the version,
\* digest and expiry its candidate saw, and only when due.
ExpiryIsOfWhatWasScanned ==
    [][hold.status = "ACTIVE" /\ hold'.status = "EXPIRED" =>
        /\ reply'.cand.due = DueTupleOf(hold)
        /\ clock >= hold.expires
        /\ hold' = ExpiredHold(hold)]_vars

\* The contract seen without its authorities.
Lifecycle == INSTANCE HoldLifecycle WITH
    version <- hold.version,
    deleting <- hold.lifecycle \in {"DELETING", "DELETED"},
    digest <- hold.digest,
    expires <- hold.expires,
    status <- hold.status,
    active <- hold.active,
    refs <- hold.refs,
    minDelete <- hold.minDelete,
    outcome <- IF commits = <<>> THEN None ELSE commits[1].result,
    audited <- Len(audit),
    announced <- Len(outbox)

\* Scans, claims, retries and takeovers by any number of reapers add up to a
\* hold that expires at most once, when due, with one fixed announced outcome.
ImplementsLifecycle == Lifecycle!Spec

\* A persisted fence counter that skipped a value does not stop scanning: a due
\* hold can always be scanned by an unused request (docs/specs, "burned").
BurnedFenceDoesNotBlockScan ==
    \A who \in Caller, now \in ServerNow :
        MayScan(who) /\ ScanDue(now) => AllocationHasPredecessor
=============================================================================
