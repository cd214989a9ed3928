------------------------- MODULE ArtifactHold_proofs -------------------------
(***************************************************************************)
(* Proofs about ArtifactHold, for every set of instances, principals,      *)
(* tokens and digests and every value of the bounds.                       *)
(***************************************************************************)
EXTENDS ArtifactHold, FiniteSetTheorems, TLAPS

\* Scanned candidates are ordered: a later fence saw a version at least as
\* high, and none saw a version the Artifact has not reached.
VersionOrder ==
    /\ \A e \in entries : e.cand.due.version <= hold.version
    /\ \A e, f \in entries :
        /\ e.cand \notin claims
        /\ f.cand \notin claims
        /\ e.cand.fence <= f.cand.fence
        => e.cand.due.version <= f.cand.due.version

\* The inductive invariant.
IInv ==
    /\ TypeOK
    /\ HoldValid
    /\ AuthorityUnique
    /\ EvidenceComplete
    /\ ReplayAuthorityValid
    /\ IsFiniteSet(claims)
    /\ ProjectionValid
    /\ CommitsValid
    /\ HoldReflectsCommit
    /\ ClaimsValid
    /\ OnlyReaperOwns
    /\ ExpiredOnce
    /\ NoDeleteUnderHold
    /\ VersionOrder

-----------------------------------------------------------------------------
(* The initial state *)

LEMMA InitInv == Init => IInv
<1> SUFFICES ASSUME Init PROVE IInv
  OBVIOUS
<1> PICK digest \in Digests, expires \in Instants \cup {None},
         minDelete \in MinDeletes, others \in SUBSET OtherHolds,
         refs \in 0 .. MaxRefs :
            hold = InitialHold(digest, expires, others, refs, minDelete)
  BY DEF Init
<1> entries = {} /\ scans = {} /\ claims = {} /\ pointers = {}
    /\ commits = <<>> /\ audit = <<>> /\ outbox = <<>> /\ highWater = 0
    /\ clock = 0
  BY DEF Init
<1>1. TypeOK
  <2>1. hold \in HoldState
    BY BoundAssumption, MinDeleteAssumption
    DEF InitialHold, HoldState, Instants, OptTime, Time, LifecycleStatus,
        HoldStatus
  <2>2. QED
    BY <2>1 DEF TypeOK, Time
<1>2. HoldValid
  BY DEF HoldValid, InitialHold
<1>3. AuthorityUnique /\ EvidenceComplete /\ ReplayAuthorityValid
  BY DEF AuthorityUnique, EvidenceComplete, ReplayAuthorityValid
<1>4. IsFiniteSet(claims)
  BY FS_EmptySet
<1>5. ProjectionValid
  BY DEF ProjectionValid, CurrentCandidates, LatestOf, InitialHold
<1>6. CommitsValid /\ HoldReflectsCommit /\ ClaimsValid
  BY DEF CommitsValid, TombstonesMatch, EventsMatch, HoldReflectsCommit,
         ClaimsValid
<1>7. OnlyReaperOwns /\ ExpiredOnce /\ NoDeleteUnderHold /\ VersionOrder
  BY DEF OnlyReaperOwns, ExpiredOnce, NoDeleteUnderHold, VersionOrder,
         InitialHold
<1>8. QED
  BY <1>1, <1>2, <1>3, <1>4, <1>5, <1>6, <1>7 DEF IInv

-----------------------------------------------------------------------------
(* Steps that only answer, only let time pass, or only burn a fence *)

LEMMA CommitsStay ==
    ASSUME CommitsValid, UNCHANGED <<entries, claims, evidenceVars>>
    PROVE  CommitsValid'
<1> USE DEF evidenceVars
<1>1. TombstonesMatch' /\ EventsMatch'
  BY DEF CommitsValid, TombstonesMatch, EventsMatch, EventOf
<1>2. ASSUME NEW k \in DOMAIN commits
      PROVE  NewestScanned(commits[k].cand)'
  BY DEF CommitsValid, NewestScanned
<1>3. ASSUME NEW k \in DOMAIN commits, NEW e \in entries,
             e.by = commits[k].due
      PROVE  CommitFits(commits[k], e)'
  <2>1. CommitFits(commits[k], e)
    BY <1>3 DEF CommitsValid
  <2>2. QED
    BY <2>1 DEF CommitFits, LeaseLive, ResultFollows
<1>4. QED
  BY <1>1, <1>2, <1>3 DEF CommitsValid

LEMMA AnswerInv ==
    ASSUME IInv, clock' \in Nat, highWater' \in Nat, highWater' >= highWater,
           UNCHANGED <<hold, entries, scans, claims, pointers, evidenceVars>>
    PROVE  IInv'
<1> USE DEF evidenceVars
<1>1. TypeOK'
  BY DEF IInv, TypeOK, Time
<1>2. HoldValid' /\ AuthorityUnique' /\ EvidenceComplete'
  BY DEF IInv, TypeOK, HoldValid, DueTupleOf, AuthorityUnique,
         EvidenceComplete, Issued
<1>3. ReplayAuthorityValid' /\ IsFiniteSet(claims')
  BY DEF IInv, ReplayAuthorityValid, ClaimsFor
<1>4. ProjectionValid'
  BY DEF IInv, ProjectionValid, CurrentCandidates
<1>5a. CommitsValid'
  BY CommitsStay DEF IInv
<1>5b. HoldReflectsCommit'
  BY DEF IInv, HoldReflectsCommit, CommittedTerminal, RetentionLockedAt
<1>5c. ClaimsValid'
  BY DEF IInv, ClaimsValid, CommitsFor
<1>6. OnlyReaperOwns' /\ ExpiredOnce' /\ NoDeleteUnderHold' /\ VersionOrder'
  BY DEF IInv, OnlyReaperOwns, ExpiredOnce, NoDeleteUnderHold, VersionOrder
<1>7. QED
  BY <1>1, <1>2, <1>3, <1>4, <1>5a, <1>5b, <1>5c, <1>6 DEF IInv

-----------------------------------------------------------------------------
(* The other writers *)

\* A writer moves the version, so no issued candidate fits the hold any more.
LEMMA WriteInv ==
    ASSUME IInv, NEW h \in HoldState, Write(h),
           h.version = hold.version,
           h.status = "ACTIVE" <=> Hold \in h.active,
           h.dueScore = IF h.status = "ACTIVE" THEN h.expires ELSE None,
           hold.status = "EXPIRED" <=> h.status = "EXPIRED",
           h.status = "EXPIRED" =>
                h.digest = hold.digest /\ h.expires = hold.expires,
           h.lifecycle = "DELETING" => h.status # "ACTIVE" /\ h.active = {}
    PROVE  IInv'
<1> USE DEF ledgerVars, evidenceVars
<1>1. /\ hold' = [h EXCEPT !.version = @ + 1, !.candidate = None]
      /\ UNCHANGED <<clock, ledgerVars, evidenceVars>>
  BY DEF Write
<1>2. hold.version \in Nat
  BY DEF IInv, TypeOK, HoldState
<1>3a. hold' \in HoldState
  <2>1. h.version + 1 \in Nat
    BY DEF HoldState
  <2>2. None \in Candidate \cup {None}
    OBVIOUS
  <2>3. QED
    BY <1>1, <2>1, <2>2 DEF HoldState
<1>3. /\ hold'.version = hold.version + 1
      /\ hold'.status = h.status
      /\ hold'.active = h.active
      /\ hold'.dueScore = h.dueScore
      /\ hold'.expires = h.expires
      /\ hold'.digest = h.digest
      /\ hold'.lifecycle = h.lifecycle
      /\ hold'.candidate = None
  BY <1>1, <1>2 DEF HoldState
<1>4. TypeOK'
  BY <1>1, <1>3a DEF IInv, TypeOK
<1>5. HoldValid' /\ NoDeleteUnderHold'
  BY <1>3 DEF HoldValid, NoDeleteUnderHold
<1>6. AuthorityUnique' /\ EvidenceComplete' /\ OnlyReaperOwns'
  BY <1>1 DEF IInv, AuthorityUnique, EvidenceComplete, Issued, OnlyReaperOwns
<1>7. ReplayAuthorityValid' /\ IsFiniteSet(claims')
  BY <1>1 DEF IInv, ReplayAuthorityValid, ClaimsFor
<1>8. ProjectionValid'
  <2>1. ASSUME NEW e \in entries
        PROVE  e.cand.due # DueTupleOf(hold')
    <3>1. e.cand.due.version \in Nat /\ e.cand.due.version <= hold.version
      BY DEF IInv, TypeOK, VersionOrder, Entry, Candidate, DueTuple
    <3>2. DueTupleOf(hold').version = hold.version + 1
      BY <1>3 DEF DueTupleOf
    <3>3. QED
      BY <1>2, <3>1, <3>2
  <2>2. CurrentCandidates(entries, hold)' = {}
    BY <1>1, <2>1 DEF CurrentCandidates
  <2>3. QED
    BY <1>3, <2>2 DEF ProjectionValid, LatestOf
<1>9. CommitsValid'
  BY <1>1, CommitsStay DEF IInv
<1>10. HoldReflectsCommit'
  <2> SUFFICES ASSUME NEW k \in DOMAIN commits
               PROVE  /\ CommittedTerminal(commits[k])'
                      /\ Hold \notin hold'.active
                      /\ hold'.version # commits[k].result.version
    BY <1>1 DEF HoldReflectsCommit
  <2>1. CommittedTerminal(commits[k])
    BY DEF IInv, HoldReflectsCommit
  <2>2. commits[k] \in Commit
    BY DEF IInv, TypeOK
  <2>2a. commits[k].result.version \in Nat
    BY <2>2 DEF Commit, Result
  <2>3. QED
    BY <1>1, <1>2, <1>3, <2>1, <2>2a DEF CommittedTerminal
<1>11. ClaimsValid'
  BY <1>1 DEF IInv, ClaimsValid, CommitsFor
<1>12. ExpiredOnce'
  BY <1>1, <1>3 DEF IInv, ExpiredOnce
<1>13. VersionOrder'
  <2>1. ASSUME NEW e \in entries PROVE e.cand.due.version <= hold'.version
    BY <1>2, <1>3 DEF IInv, TypeOK, VersionOrder, Entry, Candidate, DueTuple
  <2>2. QED
    BY <1>1, <2>1 DEF IInv, VersionOrder
<1>14. QED
  BY <1>4, <1>5, <1>6, <1>7, <1>8, <1>9, <1>10, <1>11, <1>12, <1>13 DEF IInv

LEMMA OtherWriterInv == IInv /\ OtherWriter => IInv'
<1> SUFFICES ASSUME IInv, OtherWriter PROVE IInv'
  OBVIOUS
<1>0. /\ hold \in HoldState
      /\ hold.status = "ACTIVE" <=> Hold \in hold.active
      /\ hold.dueScore = IF hold.status = "ACTIVE" THEN hold.expires ELSE None
  BY DEF IInv, TypeOK, HoldValid
<1>1. ASSUME NEW digest \in Digests, NEW expires \in Instants \cup {None},
             Renew(digest, expires)
      PROVE  IInv'
  <2> DEFINE h == [hold EXCEPT !.digest = digest, !.expires = expires,
                               !.dueScore = expires]
  <2>0. expires \in OptTime
    BY BoundAssumption DEF Instants, OptTime, Time
  <2>1. h \in HoldState
    BY <1>0, <2>0 DEF HoldState
  <2>2. /\ h.version = hold.version
        /\ h.status = hold.status /\ h.active = hold.active
        /\ h.dueScore = h.expires
        /\ h.lifecycle = hold.lifecycle
    BY <1>0 DEF HoldState
  <2>3. Write(h) /\ hold.status = "ACTIVE" /\ hold.lifecycle # "DELETING"
    BY <1>1 DEF Renew, Writable
  <2> HIDE DEF h
  <2>4. QED
    BY <1>0, <2>1, <2>2, <2>3, WriteInv
<1>2. ASSUME Release PROVE IInv'
  <2> DEFINE h == [hold EXCEPT !.status = "RELEASED", !.active = @ \ {Hold},
                               !.dueScore = None]
  <2>1. h \in HoldState
    BY <1>0 DEF HoldState, OptTime, HoldStatus
  <2>2. /\ h.version = hold.version
        /\ h.status = "RELEASED" /\ Hold \notin h.active
        /\ h.dueScore = None
        /\ h.lifecycle = hold.lifecycle
    BY <1>0 DEF HoldState
  <2>3. Write(h) /\ hold.status = "ACTIVE" /\ hold.lifecycle # "DELETING"
    BY <1>2 DEF Release, Writable
  <2> HIDE DEF h
  <2>4. QED
    BY <1>0, <2>1, <2>2, <2>3, WriteInv
<1>3. ASSUME NEW others \in SUBSET OtherHolds, NEW refs \in 0 .. MaxRefs,
             ChangeRetention(others, refs)
      PROVE  IInv'
  <2> DEFINE h == [hold EXCEPT !.active = (@ \cap {Hold}) \cup others,
                               !.refs = refs]
  <2>0. /\ refs \in Nat
        /\ (hold.active \cap {Hold}) \cup others
                \in SUBSET (OtherHolds \cup {Hold})
    BY BoundAssumption
  <2>1. h \in HoldState
    BY <1>0, <2>0 DEF HoldState
  <2>2. /\ h.version = hold.version
        /\ h.status = hold.status
        /\ Hold \in h.active <=> Hold \in hold.active
        /\ h.dueScore = hold.dueScore /\ h.expires = hold.expires
        /\ h.digest = hold.digest
        /\ h.lifecycle = hold.lifecycle
    BY <1>0, HoldAssumption DEF HoldState
  <2>3. Write(h) /\ hold.lifecycle # "DELETING"
    BY <1>3 DEF ChangeRetention, Writable
  <2> HIDE DEF h
  <2>4. QED
    BY <1>0, <2>1, <2>2, <2>3, WriteInv
<1>4. ASSUME NEW now \in ServerNow, BeginDelete(now)
      PROVE  IInv'
  <2> DEFINE h == [hold EXCEPT !.lifecycle = "DELETING"]
  <2>1. h \in HoldState
    BY <1>0 DEF HoldState, LifecycleStatus
  <2>2. /\ h.version = hold.version
        /\ h.status = hold.status /\ h.active = hold.active
        /\ h.dueScore = hold.dueScore /\ h.expires = hold.expires
        /\ h.digest = hold.digest
    BY <1>0 DEF HoldState
  <2>3. Write(h) /\ hold.active = {}
    BY <1>4 DEF BeginDelete, RetentionLockedAt
  <2> HIDE DEF h
  <2>4. QED
    BY <1>0, <2>1, <2>2, <2>3, WriteInv
<1>5. ASSUME BurnFence PROVE IInv'
  <2>1. highWater \in Nat /\ clock \in Nat
    BY DEF IInv, TypeOK, Time
  <2>2. QED
    BY <1>5, <2>1, AnswerInv DEF BurnFence
<1>6. QED
  BY <1>1, <1>2, <1>3, <1>4, <1>5 DEF OtherWriter

-----------------------------------------------------------------------------
(* SCAN *)

\* Before the expiry nothing is consumed and nothing is claimed.
LEMMA ActiveLedger ==
    ASSUME IInv, hold.status # "EXPIRED"
    PROVE  /\ commits = <<>>
           /\ claims = {}
           /\ \A e \in entries : e.by = None
<1>1. commits \in Seq(Commit)
  BY DEF IInv, TypeOK
<1>2. commits = <<>>
  <2>1. Len(commits) \in Nat
    BY <1>1
  <2>2. Len(commits) <= 1 /\ Len(commits) # 1
    BY DEF IInv, ExpiredOnce
  <2>3. Len(commits) = 0
    BY <2>1, <2>2
  <2>4. QED
    BY <1>1, <2>3
<1>3. \A c \in claims : FALSE
  BY <1>2 DEF IInv, ClaimsValid, CommitsFor
<1>4. \A e \in entries : e.by = None
  BY <1>2 DEF IInv, CommitsValid, TombstonesMatch
<1>5. QED
  BY <1>2, <1>3, <1>4

\* The candidate with a fence above all others is the latest.
LEMMA LatestIsHighest ==
    ASSUME NEW S, NEW c \in S, c.fence \in Nat,
           \A d \in S : d = c \/ (d.fence \in Nat /\ d.fence < c.fence)
    PROVE  LatestOf(S) = c
<1>1. \A d \in S : d.fence <= c.fence
  OBVIOUS
<1>2. ASSUME NEW x \in S, \A d \in S : d.fence <= x.fence
      PROVE  x = c
  BY <1>2
<1>3. QED
  BY <1>1, <1>2 DEF LatestOf

LEMMA ScanInv ==
    ASSUME IInv, NEW who \in Caller, NEW request \in ScanRequest,
           NEW lease \in Tokens, NEW now \in ServerNow,
           Scan(who, request, lease, now)
    PROVE  IInv'
<1> DEFINE c == ScanCandidate(who, lease, now)
           record == [request |-> request, cand |-> c, prev |-> highWater]
           es == entries \cup {NewEntry(c)}
<1> USE DEF evidenceVars
<1>1. /\ clock \in Nat /\ highWater \in Nat /\ hold \in HoldState
      /\ entries \in SUBSET Entry /\ scans \in SUBSET ScanAllocation
      /\ claims \in SUBSET Candidate
  BY DEF IInv, TypeOK, Time
<1>2. /\ hold.status = "ACTIVE" /\ hold.expires # None
      /\ who.principal = Reaper
      /\ \A s \in scans : s.request.id # request.id
      /\ \A e \in entries : e.cand.lease # lease
      /\ AllocationHasPredecessor
  <2>1. lease \notin UsedTokens
    BY DEF Scan
  <2>2. \A e \in entries : e.cand.lease # lease
    BY <2>1 DEF UsedTokens
  <2>3. QED
    BY <2>2 DEF Scan, MayScan, ScanDue
<1>3. /\ entries' = es
      /\ highWater' = c.fence
      /\ scans' = scans \cup {record}
      /\ hold' = [hold EXCEPT
                    !.candidate = LatestOf(CurrentCandidates(es, hold))]
      /\ UNCHANGED <<clock, claims, pointers, commits, audit, outbox>>
  BY DEF Scan
<1>4. /\ commits = <<>> /\ claims = {}
      /\ \A e \in entries : e.by = None
  BY <1>2, ActiveLedger
<1>5. DueTupleOf(hold) \in DueTuple
  BY <1>1 DEF HoldState, DueTupleOf, DueTuple
<1>6. /\ c.fence = highWater + 1 /\ c.lease = lease
      /\ c.due = DueTupleOf(hold) /\ c.principal = who.principal
  BY DEF ScanCandidate
<1>7. c \in Candidate
  <2>1. now \in Time /\ now + LeaseMax \in Time /\ highWater + 1 \in Nat
    BY <1>1, LeaseAssumption DEF ServerNow, Time
  <2>2. QED
    BY <1>5, <2>1 DEF ScanCandidate, Candidate, Caller
<1>8. /\ NewEntry(c) \in Entry
      /\ NewEntry(c).cand = c /\ NewEntry(c).by = None
  BY <1>7 DEF NewEntry, Entry, OptTime
<1>9. record \in ScanAllocation
  BY <1>1, <1>7 DEF ScanAllocation
<1> HIDE DEF c, record
<1>10. \A e \in entries : e.cand.fence \in Nat /\ e.cand.fence <= highWater
  BY <1>1 DEF IInv, AuthorityUnique
<1>11. /\ c \in CurrentCandidates(es, hold)
       /\ \A d \in CurrentCandidates(es, hold) :
            d = c \/ (d.fence \in Nat /\ d.fence < c.fence)
  BY <1>1, <1>4, <1>6, <1>8, <1>10 DEF CurrentCandidates
<1>12. hold' = [hold EXCEPT !.candidate = c]
  <2>1. c.fence \in Nat
    BY <1>1, <1>6
  <2> HIDE DEF es
  <2>2. LatestOf(CurrentCandidates(es, hold)) = c
    BY <1>11, <2>1, LatestIsHighest
  <2>3. QED
    BY <1>3, <2>2
<1>13. /\ hold' \in HoldState
       /\ hold'.candidate = c
       /\ hold'.status = hold.status /\ hold'.active = hold.active
       /\ hold'.dueScore = hold.dueScore /\ hold'.expires = hold.expires
       /\ hold'.version = hold.version /\ hold'.digest = hold.digest
       /\ hold'.lifecycle = hold.lifecycle
  BY <1>1, <1>7, <1>12 DEF HoldState
<1>14. DueTupleOf(hold') = DueTupleOf(hold)
  BY <1>13 DEF DueTupleOf
<1>15. TypeOK'
  BY <1>1, <1>3, <1>6, <1>8, <1>9, <1>13 DEF IInv, TypeOK, Time
<1>16. HoldValid'
  BY <1>2, <1>6, <1>13, <1>14 DEF IInv, HoldValid
<1>17. AuthorityUnique'
  <2>1. \A e \in entries' : e.cand.fence \in 1 .. highWater'
    BY <1>1, <1>3, <1>6, <1>8, <1>10 DEF IInv, AuthorityUnique
  <2>2. ASSUME NEW e \in entries', NEW f \in entries',
               e.cand.lease = f.cand.lease \/ e.cand.fence = f.cand.fence
        PROVE  e = f
    BY <1>1, <1>2, <1>3, <1>6, <1>8, <1>10, <2>2 DEF IInv, AuthorityUnique
  <2>3. QED
    BY <2>1, <2>2 DEF AuthorityUnique
<1>18. EvidenceComplete'
  <2>0. record.cand = c /\ record.prev = highWater /\ record.request = request
    BY DEF record
  <2>1. \A e \in entries' :
            e.cand \in claims' \/ \E s \in scans' : s.cand = e.cand
    BY <1>3, <1>8, <2>0 DEF IInv, EvidenceComplete
  <2>2. /\ \A s \in scans' : s.cand \in Issued' /\ s.cand \notin claims'
        /\ claims' \subseteq Issued'
    BY <1>3, <1>4, <1>8, <2>0 DEF IInv, EvidenceComplete, Issued
  <2>3. \A s \in scans : s.cand.fence \in Nat /\ s.cand.fence <= highWater
    BY <1>10 DEF IInv, EvidenceComplete, Issued
  <2>4. ASSUME NEW s \in scans', NEW t \in scans',
               s.request.id = t.request.id \/ s.cand = t.cand
        PROVE  s = t
    BY <1>1, <1>2, <1>3, <1>6, <2>0, <2>3, <2>4 DEF IInv, EvidenceComplete
  <2>5. ASSUME NEW s \in scans'
        PROVE  /\ s.prev < s.cand.fence
               /\ s.prev = 0 \/ \E e \in entries' : e.cand.fence = s.prev
               /\ \A e \in entries' :
                    e.cand.fence <= s.prev \/ e.cand.fence >= s.cand.fence
    <3>1. CASE s = record
      BY <1>1, <1>2, <1>3, <1>6, <1>8, <1>10, <2>0, <3>1
      DEF AllocationHasPredecessor
    <3>2. CASE s \in scans
      BY <1>1, <1>3, <1>6, <1>8, <2>3, <3>2 DEF IInv, EvidenceComplete
    <3>3. QED
      BY <1>3, <3>1, <3>2
  <2>6. QED
    BY <2>1, <2>2, <2>4, <2>5 DEF EvidenceComplete
<1>19. ReplayAuthorityValid' /\ IsFiniteSet(claims')
  BY <1>3 DEF IInv, ReplayAuthorityValid, ClaimsFor
<1>20. ProjectionValid'
  <2>1. CurrentCandidates(entries, hold)' = CurrentCandidates(es, hold)
    BY <1>3, <1>14 DEF CurrentCandidates
  <2>2. c # None /\ c.fence \in Nat
    BY <1>1, <1>6, <1>7, NoneAssumption
  <2> HIDE DEF es
  <2>3. QED
    BY <1>11, <1>13, <2>1, <2>2 DEF ProjectionValid
<1>21. CommitsValid'
  BY <1>3, <1>4, <1>8 DEF IInv, CommitsValid, TombstonesMatch, EventsMatch
<1>22. HoldReflectsCommit' /\ ClaimsValid'
  BY <1>3, <1>4 DEF HoldReflectsCommit, ClaimsValid
<1>23. OnlyReaperOwns' /\ ExpiredOnce' /\ NoDeleteUnderHold'
  BY <1>2, <1>3, <1>4, <1>6, <1>8, <1>13
  DEF IInv, OnlyReaperOwns, ExpiredOnce, NoDeleteUnderHold
<1>24. VersionOrder'
  <2>1. c.due.version = hold.version /\ hold.version \in Nat
    BY <1>1, <1>6 DEF DueTupleOf, HoldState
  <2>2. ASSUME NEW e \in entries' PROVE e.cand.due.version <= hold'.version
    BY <1>3, <1>8, <1>13, <2>1 DEF IInv, VersionOrder
  <2>3. ASSUME NEW e \in entries', NEW f \in entries',
               e.cand \notin claims', f.cand \notin claims',
               e.cand.fence <= f.cand.fence
        PROVE  e.cand.due.version <= f.cand.due.version
    BY <1>1, <1>3, <1>6, <1>8, <1>10, <1>13, <2>1, <2>2, <2>3
    DEF IInv, VersionOrder
  <2>4. QED
    BY <2>2, <2>3 DEF VersionOrder
<1>25. QED
  BY <1>15, <1>16, <1>17, <1>18, <1>19, <1>20, <1>21, <1>22, <1>23, <1>24
  DEF IInv

-----------------------------------------------------------------------------
(* EXPIRE *)

LEMMA ExpireInv ==
    ASSUME IInv, NEW who \in Caller, NEW c \in Issued, NEW fence \in Nat,
           NEW now \in ServerNow, Expire(who, c, fence, now)
    PROVE  IInv'
<1> DEFINE h == ExpiredHold(hold)
           k == CommitOf(c, h, now)
           tomb == [cand |-> c, by |-> c.due, at |-> now]
<1> USE DEF evidenceVars
<1>1. /\ clock \in Nat /\ highWater \in Nat /\ hold \in HoldState
      /\ entries \in SUBSET Entry /\ claims \in SUBSET Candidate
      /\ audit \in Seq(EventRecord) /\ outbox \in Seq(EventRecord)
  BY DEF IInv, TypeOK, Time
<1>2. /\ NewEntry(c) \in entries /\ hold.candidate = c
      /\ hold.lifecycle # "DELETING" /\ hold.status = "ACTIVE"
      /\ hold.expires # None /\ now >= hold.expires
      /\ LeaseLive(c, now) /\ c.due = DueTupleOf(hold)
  BY DEF Expire, ExpiryPredicate
<1>3. /\ hold' = h
      /\ entries' = (entries \ {NewEntry(c)}) \cup {tomb}
      /\ commits' = Append(commits, k)
      /\ audit' = Append(audit, EventOf("AUDIT", k))
      /\ outbox' = Append(outbox, EventOf("OUTBOX", k))
      /\ UNCHANGED <<clock, highWater, scans, claims, pointers>>
  BY DEF Expire, Consumed
<1>4. /\ commits = <<>> /\ claims = {}
      /\ \A e \in entries : e.by = None
  BY <1>2, ActiveLedger
<1>5. NewEntry(c).cand = c /\ NewEntry(c).by = None
  BY DEF NewEntry
<1>6. c \in Candidate /\ now \in Nat
  BY <1>1, <1>2, <1>5 DEF Entry, ServerNow
<1>7. c.due \in DueTuple /\ c.due # None
  BY <1>6, NoneAssumption DEF Candidate
<1>8. /\ tomb \in Entry
      /\ tomb.cand = c /\ tomb.by = c.due /\ tomb.at = now
  BY <1>6, <1>7 DEF Entry, OptTime, Time
<1>9. /\ h.version = hold.version + 1 /\ h.status = "EXPIRED"
      /\ h.active = hold.active \ {Hold} /\ h.dueScore = None
      /\ h.candidate = None /\ h.expires = hold.expires
      /\ h.digest = hold.digest /\ h.lifecycle = hold.lifecycle
      /\ h.refs = hold.refs /\ h.minDelete = hold.minDelete
  BY <1>1 DEF ExpiredHold, HoldState
<1>10. h \in HoldState
  <2>1. /\ hold.version + 1 \in Nat
        /\ "EXPIRED" \in HoldStatus
        /\ hold.active \ {Hold} \in SUBSET (OtherHolds \cup {Hold})
        /\ None \in OptTime /\ None \in Candidate \cup {None}
    BY <1>1 DEF HoldState, HoldStatus, OptTime
  <2>2. QED
    BY <1>1, <2>1 DEF ExpiredHold, HoldState
<1>11. Cardinality(h.active) \in Nat
  <2>1. IsFiniteSet(OtherHolds \cup {Hold})
    BY HoldAssumption, FS_Union, FS_Singleton
  <2>2. h.active \subseteq OtherHolds \cup {Hold}
    BY <1>10 DEF HoldState
  <2> HIDE DEF h
  <2>3. IsFiniteSet(h.active)
    BY <2>1, <2>2, FS_Subset
  <2>4. QED
    BY <2>3, FS_CardinalityType
<1>12. /\ k.due = c.due /\ k.cand = c /\ k.at = now
       /\ k.remaining = Cardinality(h.active)
       /\ k.refs = h.refs /\ k.minDelete = h.minDelete
       /\ k.result.version = h.version
       /\ k.result.locked = RetentionLockedAt(h, now)
  BY DEF CommitOf
<1>13. k \in Commit
  <2>1. /\ h.version \in Nat /\ h.refs \in Nat /\ h.minDelete \in OptTime
    BY <1>10 DEF HoldState
  <2>2. RetentionLockedAt(h, now) \in BOOLEAN
    BY DEF RetentionLockedAt
  <2> HIDE DEF h
  <2>3. QED
    BY <1>6, <1>7, <1>11, <2>1, <2>2 DEF CommitOf, Commit, Result, Time
<1>14. c.due.version = hold.version /\ c.due.digest = hold.digest
       /\ c.due.expires = hold.expires /\ hold.version \in Nat
  BY <1>1, <1>2 DEF DueTupleOf, HoldState
<1> HIDE DEF h, k, tomb
<1>15. /\ commits' = <<k>> /\ DOMAIN commits' = {1} /\ commits'[1] = k
       /\ Len(commits') = 1
  BY <1>3, <1>4
<1>16. TypeOK'
  <2>1. commits' \in Seq(Commit)
    BY <1>13, <1>15
  <2>2. EventOf("AUDIT", k) \in EventRecord
        /\ EventOf("OUTBOX", k) \in EventRecord
    BY <1>13 DEF EventOf, EventRecord, Commit, Result
  <2>3. audit' \in Seq(EventRecord) /\ outbox' \in Seq(EventRecord)
    BY <1>1, <1>3, <2>2
  <2>4. QED
    BY <1>3, <1>8, <1>10, <2>1, <2>3 DEF IInv, TypeOK
<1>17. HoldValid'
  BY <1>3, <1>9 DEF HoldValid
<1>18. AuthorityUnique'
  <2>1. \A e \in entries' : e.cand.fence \in 1 .. highWater'
    BY <1>2, <1>3, <1>5, <1>8 DEF IInv, AuthorityUnique
  <2>2. ASSUME NEW e \in entries', NEW f \in entries',
               e.cand.lease = f.cand.lease \/ e.cand.fence = f.cand.fence
        PROVE  e = f
    BY <1>2, <1>3, <1>5, <1>8, <2>2 DEF IInv, AuthorityUnique
  <2>3. QED
    BY <2>1, <2>2 DEF AuthorityUnique
<1>19. EvidenceComplete'
  <2>1. \A x : x \in Issued' <=> x \in Issued
    BY <1>2, <1>3, <1>5, <1>8 DEF Issued
  <2>2. \A e \in entries' : \E f \in entries : f.cand = e.cand
    BY <1>2, <1>3, <1>5, <1>8
  <2>3. \A e \in entries : \E f \in entries' : f.cand = e.cand
    BY <1>2, <1>3, <1>5, <1>8
  <2>4. ASSUME NEW s \in scans'
        PROVE  /\ s.prev < s.cand.fence
               /\ s.prev = 0 \/ \E e \in entries' : e.cand.fence = s.prev
               /\ \A e \in entries' :
                    e.cand.fence <= s.prev \/ e.cand.fence >= s.cand.fence
    BY <1>3, <2>2, <2>3 DEF IInv, EvidenceComplete
  <2>5. \A e \in entries' :
            e.cand \in claims' \/ \E s \in scans' : s.cand = e.cand
    BY <1>3, <2>2 DEF IInv, EvidenceComplete
  <2>6. QED
    BY <1>3, <2>1, <2>4, <2>5 DEF IInv, EvidenceComplete
<1>20. ReplayAuthorityValid' /\ IsFiniteSet(claims')
  BY <1>3 DEF IInv, ReplayAuthorityValid, ClaimsFor
<1>21. ProjectionValid'
  BY <1>3, <1>9 DEF ProjectionValid
<1>22. TombstonesMatch'
  BY <1>3, <1>4, <1>8, <1>12, <1>15 DEF TombstonesMatch
<1>23. EventsMatch'
  <2>1. audit = <<>> /\ outbox = <<>>
    BY <1>1, <1>4 DEF IInv, CommitsValid, EventsMatch
  <2>2. audit' = <<EventOf("AUDIT", k)>> /\ outbox' = <<EventOf("OUTBOX", k)>>
    BY <1>3, <2>1
  <2>3. QED
    BY <1>15, <2>2 DEF EventsMatch
<1>24. NewestScanned(c)'
  <2> SUFFICES ASSUME NEW f \in entries, f.by = None,
                      f.cand.due.digest = c.due.digest,
                      f.cand.due.expires = c.due.expires,
                      f.cand.fence > c.fence
               PROVE  FALSE
    <3>1. ASSUME NEW f \in entries, f.by = None,
                 f.cand.due.digest = c.due.digest,
                 f.cand.due.expires = c.due.expires
          PROVE  f.cand.fence <= c.fence
      <4>1. f.cand.fence \in Int /\ c.fence \in Int
        BY <1>1, <1>6 DEF Entry, Candidate
      <4>2. QED
        BY <3>1, <4>1
    <3>2. QED
      BY <1>3, <1>7, <1>8, <3>1 DEF NewestScanned
  <2>1. f.cand \in Candidate /\ f.cand.due \in DueTuple
    BY <1>1 DEF Entry, Candidate
  <2>2. f.cand.due.version \in Nat /\ f.cand.fence \in Nat /\ c.fence \in Nat
    BY <1>6, <2>1 DEF Candidate, DueTuple
  <2>3. f.cand.due.version <= hold.version
    BY DEF IInv, VersionOrder
  <2>4. c.due.version <= f.cand.due.version
    BY <1>2, <1>4, <1>5, <2>2 DEF IInv, VersionOrder
  <2>5. f.cand.due.version = c.due.version
    BY <1>14, <2>2, <2>3, <2>4
  <2>6. f.cand.due = c.due
    BY <1>7, <2>1, <2>5 DEF DueTuple
  <2>7. f.cand \in CurrentCandidates(entries, hold)
    BY <1>2, <1>4, <2>6 DEF CurrentCandidates
  <2>8. c # None
    BY <1>6, NoneAssumption
  <2>9. f.cand.fence <= c.fence
    BY <1>2, <2>7, <2>8 DEF IInv, ProjectionValid
  <2>10. QED
    BY <2>2, <2>9
<1>25. CommitFits(k, tomb)
  <2>1. ResultFollows(k)
    <3>1. h.active # {} <=> Cardinality(h.active) > 0
      <4>1. IsFiniteSet(h.active)
        <5>1. IsFiniteSet(OtherHolds \cup {Hold})
          BY HoldAssumption, FS_Union, FS_Singleton
        <5>2. QED
          BY <1>10, <5>1, FS_Subset DEF HoldState
      <4>2. Cardinality(h.active) = 0 <=> h.active = {}
        BY <4>1, FS_EmptySet
      <4>3. QED
        BY <1>11, <4>2
    <3>2. QED
      BY <1>12, <3>1 DEF ResultFollows, RetentionLockedAt
  <2>2. QED
    BY <1>2, <1>8, <1>9, <1>12, <1>14, <2>1
    DEF CommitFits, LeaseLive, ResultFollows
<1>26. CommitsValid'
  BY <1>3, <1>4, <1>7, <1>8, <1>12, <1>15, <1>22, <1>23, <1>24, <1>25
  DEF CommitsValid
<1>27. HoldReflectsCommit'
  <2>1. hold'.version >= k.result.version
    BY <1>3, <1>9, <1>12, <1>14
  <2>2. CommittedTerminal(commits[1])'
    BY <1>3, <1>9, <1>12, <1>14, <1>15, <2>1 DEF CommittedTerminal
  <2>3. (RetentionLockedAt(hold, commits[1].at))' = RetentionLockedAt(h, now)
    BY <1>3, <1>12, <1>15 DEF RetentionLockedAt
  <2>4. QED
    BY <1>3, <1>9, <1>12, <1>15, <2>2, <2>3 DEF HoldReflectsCommit
<1>28. ClaimsValid'
  BY <1>3, <1>4 DEF ClaimsValid
<1>29a. OnlyReaperOwns'
  BY <1>2, <1>3, <1>5, <1>8, <1>12, <1>15 DEF IInv, OnlyReaperOwns
<1>29. ExpiredOnce' /\ NoDeleteUnderHold'
  BY <1>2, <1>3, <1>9, <1>15 DEF ExpiredOnce, NoDeleteUnderHold
<1>30. VersionOrder'
  <2>1. \A e \in entries' : \E f \in entries : f.cand = e.cand
    BY <1>2, <1>3, <1>5, <1>8
  <2>2. \A f \in entries : f.cand.due.version \in Nat
    BY <1>1 DEF Entry, Candidate, DueTuple
  <2>3. \A e \in entries' : e.cand.due.version <= hold'.version
    BY <1>3, <1>9, <1>14, <2>1, <2>2 DEF IInv, VersionOrder
  <2>4. QED
    BY <1>3, <2>1, <2>3 DEF IInv, VersionOrder
<1>31. QED
  BY <1>16, <1>17, <1>18, <1>19, <1>20, <1>21, <1>26, <1>27, <1>28, <1>29a,
     <1>29, <1>30 DEF IInv

-----------------------------------------------------------------------------
(* REPLAY_CLAIM *)

LEMMA ReplayClaimInv ==
    ASSUME IInv, NEW who \in Caller, NEW due \in DueTuple,
           NEW lease \in Tokens, NEW until \in Nat, NEW now \in ServerNow,
           ReplayClaim(who, due, lease, until, now)
    PROVE  IInv'
<1> DEFINE c == ClaimCandidate(who, due, lease, until, now)
           old == {p \in pointers : p.due = due}
           pointer == [due |-> due, lease |-> lease,
                       revision |-> IF old = {} THEN 1
                                    ELSE (CHOOSE p \in old : TRUE).revision + 1]
<1> USE DEF evidenceVars
<1>1. /\ clock \in Nat /\ highWater \in Nat /\ hold \in HoldState
      /\ entries \in SUBSET Entry /\ claims \in SUBSET Candidate
      /\ pointers \in SUBSET Pointer /\ IsFiniteSet(claims)
      /\ now \in Nat /\ LeaseMax \in Nat
  BY LeaseAssumption DEF IInv, TypeOK, Time, ServerNow
<1>2. /\ entries' = entries \cup {NewEntry(c)}
      /\ highWater' = c.fence
      /\ claims' = claims \cup {c}
      /\ pointers' = (pointers \ old) \cup {pointer}
      /\ UNCHANGED <<clock, hold, scans, commits, audit, outbox>>
  BY DEF ReplayClaim
<1>3. /\ until > now /\ NoLiveClaim(due, now)
      /\ \A e \in entries : e.cand.lease # lease
  <2>1. lease \notin UsedTokens
    BY DEF ReplayClaim
  <2>2. \A e \in entries : e.cand.lease # lease
    BY <2>1 DEF UsedTokens
  <2>3. QED
    BY <2>2 DEF ReplayClaim
<1>4. PICK k \in CommitsFor(due) :
        /\ \E e \in entries : e.by = due /\ e.cand = commits[k].cand
        /\ who.principal = commits[k].cand.principal
        /\ CommittedTerminal(commits[k])
        /\ now >= commits[k].at
  BY DEF ReplayClaim, Claimable
<1>5. k \in DOMAIN commits /\ commits[k].due = due
  BY DEF CommitsFor
<1>6. PICK tomb \in entries : tomb.by = due /\ tomb.cand = commits[k].cand
  BY <1>4
<1>7. hold.status = "EXPIRED" /\ hold.version >= commits[k].result.version
  BY <1>4 DEF CommittedTerminal
<1>8. /\ c.fence = highWater + 1 /\ c.lease = lease /\ c.due = due
      /\ c.principal = who.principal /\ c.issued = now /\ c.until = until
  BY DEF ClaimCandidate
<1>9. c \in Candidate
  BY <1>1 DEF ClaimCandidate, Candidate, Caller, Time
<1>10. /\ NewEntry(c) \in Entry
       /\ NewEntry(c).cand = c /\ NewEntry(c).by = None
  BY <1>9 DEF NewEntry, Entry, OptTime
<1>11. /\ pointer.due = due /\ pointer.lease = lease
       /\ pointer.revision = IF old = {} THEN 1
                             ELSE (CHOOSE p \in old : TRUE).revision + 1
  OBVIOUS
<1>12. pointer \in Pointer
  <2>1. pointer.revision \in Nat
    BY <1>1 DEF Pointer
  <2>2. QED
    BY <2>1 DEF Pointer
<1> HIDE DEF c, pointer
<1>13. \A e \in entries : e.cand.fence \in Nat /\ e.cand.fence <= highWater
  BY <1>1 DEF IInv, AuthorityUnique
<1>14. ASSUME NEW d \in claims
       PROVE  \E e \in entries : e.cand = d
  BY DEF IInv, EvidenceComplete, Issued
<1>15. \A d \in claims : d.fence \in Nat /\ d.fence <= highWater /\ d # c
  BY <1>1, <1>8, <1>13, <1>14
<1>16. TypeOK'
  BY <1>1, <1>2, <1>8, <1>9, <1>10, <1>12 DEF IInv, TypeOK
<1>17. HoldValid'
  BY <1>2 DEF IInv, HoldValid, DueTupleOf
<1>18. AuthorityUnique'
  <2>1. \A e \in entries' : e.cand.fence \in 1 .. highWater'
    BY <1>1, <1>2, <1>8, <1>10, <1>13 DEF IInv, AuthorityUnique
  <2>2. ASSUME NEW e \in entries', NEW f \in entries',
               e.cand.lease = f.cand.lease \/ e.cand.fence = f.cand.fence
        PROVE  e = f
    BY <1>1, <1>2, <1>3, <1>8, <1>10, <1>13, <2>2 DEF IInv, AuthorityUnique
  <2>3. QED
    BY <2>1, <2>2 DEF AuthorityUnique
<1>19. EvidenceComplete'
  <2>1. \A s \in scans : s.cand.fence \in Nat /\ s.cand.fence <= highWater
    BY <1>13 DEF IInv, EvidenceComplete, Issued
  <2>2. \A e \in entries' :
            e.cand \in claims' \/ \E s \in scans' : s.cand = e.cand
    BY <1>2, <1>10 DEF IInv, EvidenceComplete
  <2>3. \A s \in scans' : s.cand \in Issued' /\ s.cand \notin claims'
    BY <1>1, <1>2, <1>8, <2>1 DEF IInv, EvidenceComplete, Issued
  <2>4. claims' \subseteq Issued'
    BY <1>2, <1>10 DEF IInv, EvidenceComplete, Issued
  <2>5. ASSUME NEW s \in scans'
        PROVE  /\ s.prev < s.cand.fence
               /\ s.prev = 0 \/ \E e \in entries' : e.cand.fence = s.prev
               /\ \A e \in entries' :
                    e.cand.fence <= s.prev \/ e.cand.fence >= s.cand.fence
    BY <1>1, <1>2, <1>8, <1>10, <2>1 DEF IInv, EvidenceComplete
  <2>6. QED
    BY <1>2, <2>2, <2>3, <2>4, <2>5 DEF IInv, EvidenceComplete
<1>20. ASSUME NEW d \in claims, d.due = due
       PROVE  now >= d.until
  <2>1. PICK p \in pointers : p.due = due
    BY <1>20 DEF IInv, ReplayAuthorityValid
  <2>2. PICK x \in ClaimsFor(due) :
            x.lease = p.lease /\ \A y \in ClaimsFor(due) : y.fence <= x.fence
    BY <2>1 DEF IInv, ReplayAuthorityValid
  <2>3. x \in claims /\ x.due = due
    BY <2>2 DEF ClaimsFor
  <2>4. now >= x.until /\ now >= x.issued
    BY <1>3, <2>1, <2>2, <2>3 DEF NoLiveClaim, CurrentClaims
  <2>5. d.fence <= x.fence
    BY <1>20, <2>2 DEF ClaimsFor
  <2>6. /\ x.issued \in Nat /\ d.until \in Nat
        /\ d.fence \in Nat /\ x.fence \in Nat
    BY <1>1, <2>3 DEF Candidate, Time
  <2>7. CASE d.fence < x.fence
    <3>1. x.issued >= d.until
      BY <1>20, <2>3, <2>7 DEF IInv, ReplayAuthorityValid
    <3>2. QED
      BY <1>1, <2>4, <2>6, <3>1
  <2>8. CASE d.fence = x.fence
    <3>1. d = x
      BY <1>14, <2>3, <2>8 DEF IInv, AuthorityUnique
    <3>2. QED
      BY <2>4, <3>1
  <2>9. QED
    BY <2>5, <2>6, <2>7, <2>8
<1>21. /\ ClaimsFor(due)' = ClaimsFor(due) \cup {c}
       /\ c \notin ClaimsFor(due)
       /\ IsFiniteSet(ClaimsFor(due))
       /\ Cardinality(ClaimsFor(due)') = Cardinality(ClaimsFor(due)) + 1
  <2>1. ClaimsFor(due)' = ClaimsFor(due) \cup {c}
    BY <1>2, <1>8 DEF ClaimsFor
  <2>2. c \notin ClaimsFor(due)
    BY <1>15 DEF ClaimsFor
  <2>3. IsFiniteSet(ClaimsFor(due))
    BY <1>1, FS_Subset DEF ClaimsFor
  <2>4. QED
    BY <2>1, <2>2, <2>3, FS_AddElement
<1>22. pointer.revision = Cardinality(ClaimsFor(due)')
  <2>1. CASE old = {}
    <3>1. ClaimsFor(due) = {}
      BY <2>1 DEF ClaimsFor, IInv, ReplayAuthorityValid
    <3>2. Cardinality(ClaimsFor(due)) = 0
      BY <3>1, FS_EmptySet
    <3>3. QED
      BY <1>11, <1>21, <2>1, <3>2
  <2>2. CASE old # {}
    <3>1. PICK p \in old : p = (CHOOSE q \in old : TRUE)
      BY <2>2
    <3>2. p.revision = Cardinality(ClaimsFor(due))
      BY DEF IInv, ReplayAuthorityValid
    <3>3. QED
      BY <1>11, <1>21, <2>2, <3>1, <3>2
  <2>3. QED
    BY <2>1, <2>2
<1>23. ReplayAuthorityValid'
  <2>1. ASSUME NEW d \in claims', NEW x \in claims',
               d.due = x.due, d.fence < x.fence
        PROVE  x.issued >= d.until
    BY <1>1, <1>2, <1>8, <1>15, <1>20, <2>1 DEF IInv, ReplayAuthorityValid
  <2>2. \A p, q \in pointers' : p.due = q.due => p = q
    BY <1>2, <1>11 DEF IInv, ReplayAuthorityValid
  <2>3. \A d \in claims' : \E p \in pointers' : p.due = d.due
    BY <1>2, <1>8, <1>11 DEF IInv, ReplayAuthorityValid
  <2>4. ASSUME NEW p \in pointers'
        PROVE  /\ p.revision = Cardinality(ClaimsFor(p.due)')
               /\ \E x \in ClaimsFor(p.due)' :
                    /\ x.lease = p.lease
                    /\ \A d \in ClaimsFor(p.due)' : d.fence <= x.fence
    <3>1. CASE p = pointer
      <4>1. \A d \in ClaimsFor(due)' : d.fence <= c.fence
        BY <1>1, <1>8, <1>15, <1>21 DEF ClaimsFor
      <4>2. QED
        BY <1>8, <1>11, <1>21, <1>22, <3>1, <4>1
    <3>2. CASE p # pointer
      <4>1. p \in pointers /\ p.due # due
        BY <1>2, <3>2
      <4>2. ClaimsFor(p.due)' = ClaimsFor(p.due)
        BY <1>2, <1>8, <4>1 DEF ClaimsFor
      <4>3. QED
        BY <4>1, <4>2 DEF IInv, ReplayAuthorityValid
    <3>3. QED
      BY <3>1, <3>2
  <2>5. QED
    BY <2>1, <2>2, <2>3, <2>4 DEF ReplayAuthorityValid
<1>24. IsFiniteSet(claims')
  BY <1>1, <1>2, FS_AddElement
<1>25. ProjectionValid'
  BY <1>2, <1>7 DEF ProjectionValid
<1>26. CommitsValid'
  <2>1. EventsMatch'
    BY <1>2 DEF IInv, CommitsValid, EventsMatch, EventOf
  <2>2. TombstonesMatch'
    BY <1>2, <1>10 DEF IInv, CommitsValid, TombstonesMatch
  <2>3. ASSUME NEW l \in DOMAIN commits
        PROVE  NewestScanned(commits[l].cand)'
    BY <1>2, <1>10 DEF IInv, CommitsValid, NewestScanned
  <2>4. ASSUME NEW l \in DOMAIN commits, NEW e \in entries',
               e.by = commits[l].due
        PROVE  CommitFits(commits[l], e)
    <3>1. commits[l] \in Commit
      BY DEF IInv, TypeOK
    <3>2. e \in entries
      BY <1>2, <1>10, <2>4, <3>1, NoneAssumption DEF Commit
    <3>3. QED
      BY <2>4, <3>2 DEF IInv, CommitsValid
  <2>5. QED
    BY <1>2, <2>1, <2>2, <2>3, <2>4 DEF CommitsValid
<1>27. HoldReflectsCommit'
  BY <1>2 DEF IInv, HoldReflectsCommit, CommittedTerminal, RetentionLockedAt
<1>28. ClaimsValid'
  <2>1. c.fence > commits[k].cand.fence
    BY <1>1, <1>6, <1>8, <1>13
  <2> SUFFICES ASSUME NEW d \in claims'
               PROVE  \E l \in DOMAIN commits :
                        /\ commits[l].due = d.due
                        /\ d.principal = commits[l].cand.principal
                        /\ d.fence > commits[l].cand.fence
                        /\ d.issued >= commits[l].at
    BY <1>2 DEF ClaimsValid, CommitsFor
  <2>2. CASE d = c
    BY <1>4, <1>5, <1>8, <2>1, <2>2
  <2>3. CASE d \in claims
    BY <2>3 DEF IInv, ClaimsValid, CommitsFor
  <2>4. QED
    BY <1>2, <2>2, <2>3
<1>29. OnlyReaperOwns' /\ ExpiredOnce' /\ NoDeleteUnderHold'
  BY <1>2, <1>4, <1>5, <1>8, <1>10
  DEF IInv, OnlyReaperOwns, ExpiredOnce, NoDeleteUnderHold
<1>30. VersionOrder'
  <2>1. due.version <= hold.version
    <3>1. commits[k].result.version = due.version + 1
      BY <1>5, <1>6 DEF IInv, CommitsValid, CommitFits
    <3>2. due.version \in Nat /\ hold.version \in Nat
      BY <1>1 DEF DueTuple, HoldState
    <3>3. QED
      BY <1>7, <3>1, <3>2
  <2>2. \A e \in entries' : e.cand.due.version <= hold'.version
    BY <1>2, <1>8, <1>10, <2>1 DEF IInv, VersionOrder
  <2>3. QED
    BY <1>2, <1>10, <2>2 DEF IInv, VersionOrder
<1>31. QED
  BY <1>16, <1>17, <1>18, <1>19, <1>23, <1>24, <1>25, <1>26, <1>27, <1>28,
     <1>29, <1>30 DEF IInv

-----------------------------------------------------------------------------
(* All steps *)

LEMMA NextInv == IInv /\ [Next]_vars => IInv'
<1> SUFFICES ASSUME IInv, [Next]_vars PROVE IInv'
  OBVIOUS
<1>0. clock \in Nat /\ highWater \in Nat
  BY DEF IInv, TypeOK, Time
<1>1. ASSUME NEW who \in Caller, NEW now \in ServerNow, ReaperCall(who, now)
      PROVE  IInv'
  <2>1. ASSUME NEW request \in ScanRequest, NEW lease \in Tokens,
               Scan(who, request, lease, now)
        PROVE  IInv'
    BY <2>1, ScanInv
  <2>2. ASSUME NEW request \in ScanRequest, ScanAgain(who, request)
        PROVE  IInv'
    BY <1>0, <2>2, AnswerInv DEF ScanAgain, ledgerVars
  <2>3. ASSUME NEW c \in Issued, NEW fence \in 1 .. highWater,
               Expire(who, c, fence, now)
        PROVE  IInv'
    BY <1>0, <2>3, ExpireInv
  <2>4. ASSUME NEW c \in Issued, NEW fence \in 1 .. highWater,
               ExpireAgain(who, c, fence, now)
        PROVE  IInv'
    BY <1>0, <2>4, AnswerInv DEF ExpireAgain, ledgerVars
  <2>5. ASSUME NEW r \in ReplayClaimRequest,
               NEW until \in now .. now + LeaseMax + 1,
               ReplayClaim(who, r.due, r.lease, until, now)
        PROVE  IInv'
    <3>1. r.due \in DueTuple /\ r.lease \in Tokens
      BY DEF ReplayClaimRequest, IInv, TypeOK, Issued, Entry, Candidate
    <3>2. until \in Nat
      BY <1>0, LeaseAssumption DEF ServerNow
    <3>3. QED
      BY <2>5, <3>1, <3>2, ReplayClaimInv
  <2>6. ASSUME NEW r \in ReplayClaimRequest,
               ReplayClaimAgain(who, r.due, r.lease)
        PROVE  IInv'
    BY <1>0, <2>6, AnswerInv DEF ReplayClaimAgain, ledgerVars
  <2>7. QED
    BY <1>1, <2>1, <2>2, <2>3, <2>4, <2>5, <2>6 DEF ReaperCall
<1>2. ASSUME OtherWriter PROVE IInv'
  BY <1>2, OtherWriterInv
<1>3. ASSUME Tick PROVE IInv'
  BY <1>0, <1>3, AnswerInv DEF Tick, ledgerVars
<1>4. ASSUME UNCHANGED vars PROVE IInv'
  BY <1>0, <1>4, AnswerInv DEF vars, evidenceVars
<1>5. QED
  BY <1>1, <1>2, <1>3, <1>4 DEF Next

\* The strengthened validation of the snapshot holds in every reachable state.
THEOREM Invariance == Spec => []IInv
<1>1. QED
  BY InitInv, NextInv, PTL DEF Spec

\* Type correctness of the CAS snapshot under every reaper and writer.
THEOREM TypeCorrect == Spec => []TypeOK
<1>1. IInv => TypeOK
  BY DEF IInv
<1>2. QED
  BY <1>1, Invariance, PTL

\* The clauses of validate().  That each holds in every reachable state shows that
\* the final updated.validate() of apply_scan, apply_replay_claim and apply_expiry
\* never refuses what the checks before it let through.

\* ArtifactHoldState.validate: retention set, due index and projected candidate
\* agree with the hold under every interleaving of reapers and other writers.
THEOREM HoldStaysValid == Spec => []HoldValid
<1>1. IInv => HoldValid
  BY DEF IInv
<1>2. QED
  BY <1>1, Invariance, PTL

\* LedgerState.validate: no two candidates ever share a fence or a bearer value,
\* whoever issued them, and none lies above the high-water.
THEOREM AuthoritiesUnique == Spec => []AuthorityUnique
<1>1. IInv => AuthorityUnique
  BY DEF IInv
<1>2. QED
  BY <1>1, Invariance, PTL

\* LedgerState.validate: every scan and every claim has its entry, and every entry
\* is explained by one of them.
THEOREM EvidenceKept == Spec => []EvidenceComplete
<1>1. IInv => EvidenceComplete
  BY DEF IInv
<1>2. QED
  BY <1>1, Invariance, PTL

\* LedgerState.validate: the current authority of a replay is its highest claim,
\* however many instances took it over from each other.
THEOREM ReplayAuthorityKept == Spec => []ReplayAuthorityValid
<1>1. IInv => ReplayAuthorityValid
  BY DEF IInv
<1>2. QED
  BY <1>1, Invariance, PTL

\* CASState.validate: the candidate the hold shows is the newest unconsumed one of
\* its present incarnation.
THEOREM ProjectionIsNewest == Spec => []ProjectionValid
<1>1. IInv => ProjectionValid
  BY DEF IInv
<1>2. QED
  BY <1>1, Invariance, PTL

\* CASState.validate: tombstone, commit, audit and outbox records of an expiry go
\* together, and the commit was made by the newest scan under a live lease.
THEOREM CommitsStayValid == Spec => []CommitsValid
<1>1. IInv => CommitsValid
  BY DEF IInv
<1>2. QED
  BY <1>1, Invariance, PTL

\* CASState.validate: what later writers do to the Artifact never contradicts a
\* committed expiry.
THEOREM CommitReflected == Spec => []HoldReflectsCommit
<1>1. IInv => HoldReflectsCommit
  BY DEF IInv
<1>2. QED
  BY <1>1, Invariance, PTL

\* CASState.validate: a claim is for a committed expiry and not older than it,
\* on whatever server clock it was made.
THEOREM ClaimsStayValid == Spec => []ClaimsValid
<1>1. IInv => ClaimsValid
  BY DEF IInv
<1>2. QED
  BY <1>1, Invariance, PTL

\* A hold expires at most once (apply_artifact_hold_expiry).
THEOREM ExpiresOnce == Spec => []ExpiredOnce
<1>1. IInv => ExpiredOnce
  BY DEF IInv
<1>2. QED
  BY <1>1, Invariance, PTL

\* Although EXPIRE and REPLAY_CLAIM never compare the caller with the configured
\* reaper, only the reaper principal ever owns an authority.
THEOREM ReaperOwnsAll == Spec => []OnlyReaperOwns
<1>1. IInv => OnlyReaperOwns
  BY DEF IInv
<1>2. QED
  BY <1>1, Invariance, PTL

\* The Artifact is never deleted under the hold (retention_locked_at).
THEOREM NoDeleteWhileHeld == Spec => []NoDeleteUnderHold
<1>1. IInv => NoDeleteUnderHold
  BY DEF IInv
<1>2. QED
  BY <1>1, Invariance, PTL

-----------------------------------------------------------------------------
(* Properties of steps *)

\* Who may be answered with a committed result holds the highest fence.
LEMMA AnsweredIsNewest ==
    ASSUME IInv, NEW who \in Caller, NEW c \in Issued, NEW fence \in Nat,
           NEW now \in ServerNow, ExpireAgain(who, c, fence, now)
    PROVE  \A d \in ClaimsFor(c.due) : d.fence <= c.fence
<1>1. CASE CommittedAuthority(who, c, fence)
  BY <1>1 DEF CommittedAuthority
<1>2. CASE ClaimedAuthority(who, c, fence, now)
  <2>1. c \in CurrentClaims(c.due)
    BY <1>2 DEF ClaimedAuthority
  <2>2. PICK p \in pointers : p.due = c.due /\ p.lease = c.lease
    BY <2>1 DEF CurrentClaims
  <2>3. PICK x \in ClaimsFor(c.due) :
            x.lease = c.lease /\ \A d \in ClaimsFor(c.due) : d.fence <= x.fence
    BY <2>2 DEF IInv, ReplayAuthorityValid
  <2>4. x = c
    <3>1. x \in claims /\ c \in claims
      BY <2>1, <2>3 DEF CurrentClaims, ClaimsFor
    <3>2. (\E e \in entries : e.cand = x) /\ (\E e \in entries : e.cand = c)
      BY <3>1 DEF IInv, EvidenceComplete, Issued
    <3>3. QED
      BY <2>3, <3>2 DEF IInv, AuthorityUnique
  <2>5. QED
    BY <2>3, <2>4
<1>3. QED
  BY <1>1, <1>2 DEF ExpireAgain

\* After a claim the original reaper and every earlier claimant are refused
\* the committed result for good (require_replay_authority).
THEOREM Superseded == Spec => SupersededIsRefused
<1> DEFINE Refused == reply' # reply /\ reply'.kind = "replay" =>
                        \A c \in ClaimsFor(reply'.cand.due) :
                            c.fence <= reply'.cand.fence
<1>1. ASSUME IInv, [Next]_vars PROVE [Refused]_vars
  <2>0. highWater \in Nat
    BY <1>1 DEF IInv, TypeOK
  <2>1. ASSUME NEW who \in Caller, NEW now \in ServerNow, ReaperCall(who, now)
        PROVE  Refused
    <3>1. ASSUME NEW c \in Issued, NEW fence \in 1 .. highWater,
                 ExpireAgain(who, c, fence, now)
          PROVE  Refused
      <4>1. reply'.cand = c
        BY <3>1 DEF ExpireAgain, ExpiryResult
      <4>2. QED
        BY <1>1, <2>0, <3>1, <4>1, AnsweredIsNewest
    <3>2. ASSUME NEW request \in ScanRequest, NEW lease \in Tokens,
                 Scan(who, request, lease, now)
          PROVE  reply'.kind = "scan"
      BY <3>2 DEF Scan, ScanResult
    <3>2a. ASSUME NEW request \in ScanRequest, ScanAgain(who, request)
           PROVE  reply'.kind = "scan"
      BY <3>2a DEF ScanAgain, ScanResult
    <3>3. ASSUME NEW c \in Issued, NEW fence \in 1 .. highWater,
                 Expire(who, c, fence, now)
          PROVE  reply'.kind = "expire"
      BY <3>3 DEF Expire, ExpiryResult
    <3>4. ASSUME NEW r \in ReplayClaimRequest,
                 NEW until \in now .. now + LeaseMax + 1,
                 ReplayClaim(who, r.due, r.lease, until, now)
          PROVE  reply'.kind = "claim"
      BY <3>4 DEF ReplayClaim, ReplayClaimResult
    <3>5. ASSUME NEW r \in ReplayClaimRequest,
                 ReplayClaimAgain(who, r.due, r.lease)
          PROVE  reply'.kind = "claim"
      BY <3>5 DEF ReplayClaimAgain, ReplayClaimResult
    <3>6. QED
      BY <2>1, <3>1, <3>2, <3>2a, <3>3, <3>4, <3>5 DEF ReaperCall
  <2>2. ASSUME OtherWriter \/ Tick PROVE reply' = reply
    BY <2>2 DEF OtherWriter, Renew, Release, ChangeRetention, BeginDelete,
                BurnFence, Write, Tick
  <2>3. QED
    BY <1>1, <2>1, <2>2 DEF Next
<1>2. QED
  BY <1>1, Invariance, PTL DEF Spec, SupersededIsRefused

\* Every answer to EXPIRE carries the result of the one commit for its due tuple,
\* first call or replay (apply_artifact_hold_expiry).
THEOREM AnswersCommitted == Spec => []AnswerIsCommitted
<1>1. Init => AnswerIsCommitted
  BY DEF Init, NoReply, AnswerIsCommitted
<1>2. IInv /\ AnswerIsCommitted /\ [Next]_vars => AnswerIsCommitted'
  <2> SUFFICES ASSUME IInv, AnswerIsCommitted, [Next]_vars
               PROVE  AnswerIsCommitted'
    OBVIOUS
  <2>1. ASSUME NEW who \in Caller, NEW now \in ServerNow, ReaperCall(who, now)
        PROVE  AnswerIsCommitted'
    <3>1. ASSUME NEW request \in ScanRequest, NEW lease \in Tokens,
                 Scan(who, request, lease, now)
          PROVE  reply'.kind = "scan"
      BY <3>1 DEF Scan, ScanResult
    <3>2. ASSUME NEW request \in ScanRequest, ScanAgain(who, request)
          PROVE  reply'.kind = "scan"
      BY <3>2 DEF ScanAgain, ScanResult
    <3>3. ASSUME NEW c \in Issued, NEW fence \in 1 .. highWater,
                 Expire(who, c, fence, now)
          PROVE  AnswerIsCommitted'
      <4> DEFINE k == CommitOf(c, ExpiredHold(hold), now)
      <4>1. reply' = ExpiryResult("expire", c, k) /\ commits' = Append(commits, k)
        BY <3>3 DEF Expire
      <4>2. commits = <<>>
        BY <3>3, ActiveLedger DEF Expire, ExpiryPredicate
      <4>3. DOMAIN commits' = {1} /\ commits'[1] = k
        BY <4>1, <4>2
      <4>4. k.due = c.due
        BY DEF CommitOf
      <4> HIDE DEF k
      <4>5. reply'.cand = c /\ reply'.result = k.result
        BY <4>1 DEF ExpiryResult
      <4>6. QED
        BY <4>3, <4>4, <4>5 DEF AnswerIsCommitted, CommitsFor
    <3>4. ASSUME NEW c \in Issued, NEW fence \in 1 .. highWater,
                 ExpireAgain(who, c, fence, now)
          PROVE  AnswerIsCommitted'
      <4>1. PICK k \in CommitsFor(c.due) :
                reply' = ExpiryResult("replay", c, commits[k])
        BY <3>4 DEF ExpireAgain
      <4>2. commits' = commits
        BY <3>4 DEF ExpireAgain, evidenceVars
      <4>3. QED
        BY <4>1, <4>2 DEF ExpiryResult, AnswerIsCommitted, CommitsFor
    <3>5. ASSUME NEW r \in ReplayClaimRequest,
                 NEW until \in now .. now + LeaseMax + 1,
                 ReplayClaim(who, r.due, r.lease, until, now)
          PROVE  reply'.kind = "claim"
      BY <3>5 DEF ReplayClaim, ReplayClaimResult
    <3>6. ASSUME NEW r \in ReplayClaimRequest,
                 ReplayClaimAgain(who, r.due, r.lease)
          PROVE  reply'.kind = "claim"
      BY <3>6 DEF ReplayClaimAgain, ReplayClaimResult
    <3>7. QED
      BY <2>1, <3>1, <3>2, <3>3, <3>4, <3>5, <3>6 DEF ReaperCall, AnswerIsCommitted
  <2>2. ASSUME OtherWriter \/ Tick \/ UNCHANGED vars
        PROVE  UNCHANGED <<reply, commits>>
    BY <2>2 DEF OtherWriter, Renew, Release, ChangeRetention, BeginDelete,
                BurnFence, Write, Tick, vars, evidenceVars
  <2>3. QED
    BY <2>1, <2>2 DEF Next, AnswerIsCommitted, CommitsFor
<1>3. QED
  BY <1>1, <1>2, Invariance, PTL DEF Spec

\* A hold that was renewed, released or changed since it was scanned is not expired
\* by the old candidate (_require_expiry_predicate).
THEOREM ExpiresAsScanned == Spec => ExpiryIsOfWhatWasScanned
<1> DEFINE AsScanned == hold.status = "ACTIVE" /\ hold'.status = "EXPIRED" =>
                          /\ reply'.cand.due = DueTupleOf(hold)
                          /\ clock >= hold.expires
                          /\ hold' = ExpiredHold(hold)
<1>1. ASSUME IInv, [Next]_vars PROVE [AsScanned]_vars
  <2>0. hold \in HoldState /\ clock \in Nat
    BY <1>1 DEF IInv, TypeOK, Time
  <2>1. ASSUME NEW who \in Caller, NEW now \in ServerNow, ReaperCall(who, now)
        PROVE  AsScanned
    <3>1. ASSUME NEW request \in ScanRequest, NEW lease \in Tokens,
                 Scan(who, request, lease, now)
          PROVE  hold'.status = hold.status
      BY <2>0, <3>1 DEF Scan, HoldState
    <3>2. ASSUME NEW c \in Issued, NEW fence \in 1 .. highWater,
                 Expire(who, c, fence, now)
          PROVE  AsScanned
      <4>1. reply'.cand = c
        BY <3>2 DEF Expire, ExpiryResult
      <4>2. /\ c.due = DueTupleOf(hold) /\ now >= hold.expires
            /\ hold.expires # None /\ hold' = ExpiredHold(hold)
        BY <3>2 DEF Expire, ExpiryPredicate
      <4>3. hold.expires \in Nat /\ now \in 0 .. clock
        BY <2>0, <4>2 DEF HoldState, OptTime, Time, ServerNow
      <4>4. QED
        BY <2>0, <4>1, <4>2, <4>3
    <3>3. ASSUME NEW request \in ScanRequest, ScanAgain(who, request)
          PROVE  hold' = hold
      BY <3>3 DEF ScanAgain
    <3>4. ASSUME NEW c \in Issued, NEW fence \in 1 .. highWater,
                 ExpireAgain(who, c, fence, now)
          PROVE  hold' = hold
      BY <3>4 DEF ExpireAgain
    <3>5. ASSUME NEW r \in ReplayClaimRequest,
                 NEW until \in now .. now + LeaseMax + 1,
                 ReplayClaim(who, r.due, r.lease, until, now)
          PROVE  hold' = hold
      BY <3>5 DEF ReplayClaim
    <3>6. ASSUME NEW r \in ReplayClaimRequest,
                 ReplayClaimAgain(who, r.due, r.lease)
          PROVE  hold' = hold
      BY <3>6 DEF ReplayClaimAgain
    <3>7. QED
      BY <2>1, <3>1, <3>2, <3>3, <3>4, <3>5, <3>6 DEF ReaperCall
  <2>2. ASSUME OtherWriter \/ Tick
        PROVE  hold'.status \in {hold.status, "RELEASED"}
    BY <2>0, <2>2 DEF OtherWriter, Renew, Release, ChangeRetention, BeginDelete,
                      BurnFence, Write, Tick, HoldState
  <2>3. QED
    BY <1>1, <2>1, <2>2 DEF Next
<1>2. QED
  BY <1>1, Invariance, PTL DEF Spec, ExpiryIsOfWhatWasScanned

\* What LedgerGrows says of a step.
Grows ==
    /\ highWater' >= highWater
    /\ \A e \in entries' : e.cand \in Issued \/ e.cand.fence > highWater
    /\ \A e \in entries :
        IF e.by = None THEN e.cand \in Issued' ELSE e \in entries'
    /\ scans \subseteq scans'
    /\ claims \subseteq claims'
    /\ \E n \in 0 .. Len(commits') : commits = SubSeq(commits', 1, n)

\* The ledger is unchanged, but for a counter that may have moved.
LEMMA LedgerStays ==
    ASSUME IInv, highWater' \in Nat, highWater' >= highWater,
           UNCHANGED <<entries, scans, claims, commits>>
    PROVE  Grows
<1>1. commits \in Seq(Commit)
  BY DEF IInv, TypeOK
<1>2. Len(commits') \in 0 .. Len(commits') /\ commits = SubSeq(commits', 1, Len(commits'))
  BY <1>1
<1>3. QED
  BY <1>2 DEF Grows, Issued

\* A candidate is issued under the next fence.
LEMMA LedgerExtended ==
    ASSUME IInv, NEW c, c.fence = highWater + 1, highWater' = c.fence,
           entries' = entries \cup {NewEntry(c)},
           scans \subseteq scans', claims \subseteq claims', commits' = commits
    PROVE  Grows
<1>1. commits \in Seq(Commit) /\ highWater \in Nat
  BY DEF IInv, TypeOK
<1>2. Len(commits') \in 0 .. Len(commits') /\ commits = SubSeq(commits', 1, Len(commits'))
  BY <1>1
<1>3. highWater' >= highWater
  BY <1>1
<1>4. \A e \in entries' : e.cand \in Issued \/ e.cand.fence > highWater
  BY <1>1 DEF Issued, NewEntry
<1>5. \A e \in entries : e \in entries' /\ e.cand \in Issued'
  BY DEF Issued
<1>6. QED
  BY <1>2, <1>3, <1>4, <1>5 DEF Grows

\* An expiry turns an entry into a tombstone and adds the first commit.
LEMMA LedgerConsumed ==
    ASSUME IInv, NEW who \in Caller, NEW c \in Issued, NEW fence \in Nat,
           NEW now \in ServerNow, Expire(who, c, fence, now)
    PROVE  Grows
<1>1. UNCHANGED <<highWater, scans, claims>> /\ highWater \in Nat
  BY DEF Expire, IInv, TypeOK
<1>2. entries' = (entries \ {NewEntry(c)}) \cup {[cand |-> c, by |-> c.due, at |-> now]}
  BY DEF Expire, Consumed
<1>3. commits = <<>>
  BY ActiveLedger DEF Expire, ExpiryPredicate
<1>4. commits = SubSeq(commits', 1, 0)
  BY <1>3
<1>5. PICK k : commits' = Append(commits, k)
  BY DEF Expire
<1>6. 0 \in 0 .. Len(commits')
  BY <1>3, <1>5
<1>7. \A e \in entries' : e.cand \in Issued
  BY <1>2 DEF Issued
<1>8. ASSUME NEW e \in entries PROVE e.cand \in Issued'
  <2>1. CASE e = NewEntry(c)
    <3>1. e.cand = c
      BY <2>1 DEF NewEntry
    <3> DEFINE t == [cand |-> c, by |-> c.due, at |-> now]
    <3>2. t \in entries' /\ t.cand = c
      BY <1>2
    <3> HIDE DEF t
    <3>3. QED
      BY <3>1, <3>2 DEF Issued
  <2>2. CASE e # NewEntry(c)
    <3>1. e \in entries'
      BY <1>2, <2>2
    <3>2. QED
      BY <3>1 DEF Issued
  <2>3. QED
    BY <2>1, <2>2
<1>9. \A e \in entries : e.by # None => e \in entries'
  BY <1>2 DEF NewEntry
<1>10. QED
  BY <1>1, <1>4, <1>6, <1>7, <1>8, <1>9 DEF Grows

\* No step drops or rewrites what the ledger has recorded, so a used authority stays
\* used (LedgerState._record_scan, _record_replay_claim, consume_candidate).
THEOREM HistoryKept == Spec => LedgerGrows
<1>1. ASSUME IInv, [Next]_vars PROVE [Grows]_vars
  <2>0. highWater \in Nat
    BY <1>1 DEF IInv, TypeOK
  <2>1. ASSUME NEW who \in Caller, NEW now \in ServerNow, ReaperCall(who, now)
        PROVE  Grows
    <3>1. ASSUME NEW request \in ScanRequest, NEW lease \in Tokens,
                 Scan(who, request, lease, now)
          PROVE  Grows
      <4> DEFINE c == ScanCandidate(who, lease, now)
      <4>1. c.fence = highWater + 1
        BY DEF ScanCandidate
      <4>2. /\ entries' = entries \cup {NewEntry(c)} /\ highWater' = c.fence
            /\ scans \subseteq scans' /\ UNCHANGED <<claims, commits>>
        BY <3>1 DEF Scan, evidenceVars
      <4> HIDE DEF c
      <4>3. QED
        BY <1>1, <4>1, <4>2, LedgerExtended
    <3>2. ASSUME NEW c \in Issued, NEW fence \in 1 .. highWater,
                 Expire(who, c, fence, now)
          PROVE  Grows
      BY <1>1, <2>0, <3>2, LedgerConsumed
    <3>3. ASSUME NEW r \in ReplayClaimRequest,
                 NEW until \in now .. now + LeaseMax + 1,
                 ReplayClaim(who, r.due, r.lease, until, now)
          PROVE  Grows
      <4> DEFINE c == ClaimCandidate(who, r.due, r.lease, until, now)
      <4>1. c.fence = highWater + 1
        BY DEF ClaimCandidate
      <4>2. /\ entries' = entries \cup {NewEntry(c)} /\ highWater' = c.fence
            /\ claims \subseteq claims' /\ UNCHANGED <<scans, commits>>
        BY <3>3 DEF ReplayClaim, evidenceVars
      <4> HIDE DEF c
      <4>3. QED
        BY <1>1, <4>1, <4>2, LedgerExtended
    <3>4. ASSUME \/ \E request \in ScanRequest : ScanAgain(who, request)
                 \/ \E c \in Issued, fence \in 1 .. highWater :
                        ExpireAgain(who, c, fence, now)
                 \/ \E r \in ReplayClaimRequest :
                        ReplayClaimAgain(who, r.due, r.lease)
          PROVE  Grows
      <4>1. UNCHANGED <<highWater, entries, scans, claims, commits>>
        BY <3>4 DEF ScanAgain, ExpireAgain, ReplayClaimAgain, ledgerVars, evidenceVars
      <4>2. QED
        BY <1>1, <2>0, <4>1, LedgerStays
    <3>5. QED
      BY <2>1, <3>1, <3>2, <3>3, <3>4 DEF ReaperCall
  <2>2. ASSUME OtherWriter \/ Tick PROVE Grows
    <3>1. UNCHANGED <<entries, scans, claims, commits>>
      BY <2>2 DEF OtherWriter, Renew, Release, ChangeRetention, BeginDelete,
                  BurnFence, Write, Tick, ledgerVars, evidenceVars
    <3>2. highWater' \in {highWater, highWater + 1}
      BY <2>2 DEF OtherWriter, Renew, Release, ChangeRetention, BeginDelete,
                  BurnFence, Write, Tick, ledgerVars
    <3>3. QED
      BY <1>1, <2>0, <3>1, <3>2, LedgerStays
  <2>3. QED
    BY <1>1, <2>1, <2>2 DEF Next
<1>2. QED
  BY <1>1, Invariance, PTL DEF Spec, LedgerGrows, Grows

-----------------------------------------------------------------------------
(* The contract implements the hold's lifecycle *)

LEMMA LifecycleInit == Init => Lifecycle!Init
<1> SUFFICES ASSUME Init PROVE Lifecycle!Init
  OBVIOUS
<1> PICK digest \in Digests, expires \in Instants \cup {None},
         minDelete \in MinDeletes, others \in SUBSET OtherHolds,
         refs \in 0 .. MaxRefs :
            hold = InitialHold(digest, expires, others, refs, minDelete)
  BY DEF Init
<1>1. expires \in Nat \cup {None} /\ minDelete \in Nat \cup {None}
      /\ refs \in Nat
  BY BoundAssumption, MinDeleteAssumption DEF Instants
<1>2. hold.active \in {S \cup {Hold} : S \in SUBSET OtherHolds}
  BY DEF InitialHold
<1>3. Len(audit) = 0 /\ Len(outbox) = 0 /\ commits = <<>> /\ clock = 0
  BY DEF Init
<1>4. /\ hold.version = 1 /\ hold.lifecycle = "AVAILABLE"
      /\ hold.digest = digest /\ hold.status = "ACTIVE"
      /\ hold.expires = expires /\ hold.refs = refs
      /\ hold.minDelete = minDelete
  BY DEF InitialHold
<1>5. (hold.lifecycle \in {"DELETING", "DELETED"}) = FALSE
  BY <1>4
<1> HIDE DEF Init
<1>6. (IF commits = <<>> THEN None ELSE commits[1].result) = None
  BY <1>3
<1>7. QED
  BY <1>1, <1>2, <1>3, <1>4, <1>5, <1>6, Zenon DEF Lifecycle!Init

\* A step that moves neither the hold's own fields nor the evidence.
LEMMA LifecycleStutter ==
    ASSUME hold \in HoldState, NEW c,
           hold' = hold \/ hold' = [hold EXCEPT !.candidate = c],
           UNCHANGED <<clock, evidenceVars>>
    PROVE  UNCHANGED Lifecycle!vars
BY DEF evidenceVars, HoldState, Lifecycle!vars

LEMMA LifecycleExpire ==
    ASSUME IInv, NEW who \in Caller, NEW c \in Issued, NEW fence \in Nat,
           NEW now \in ServerNow, Expire(who, c, fence, now)
    PROVE  Lifecycle!Expire
<1> DEFINE h == ExpiredHold(hold)
           k == CommitOf(c, h, now)
<1>1. /\ hold.lifecycle \notin {"DELETING", "DELETED"}
      /\ hold.status = "ACTIVE" /\ hold.expires # None /\ now >= hold.expires
  BY DEF Expire, ExpiryPredicate
<1>2. /\ hold' = h /\ commits' = Append(commits, k)
      /\ audit' = Append(audit, EventOf("AUDIT", k))
      /\ outbox' = Append(outbox, EventOf("OUTBOX", k))
      /\ clock' = clock
  BY DEF Expire
<1>3. hold \in HoldState /\ audit \in Seq(EventRecord)
      /\ outbox \in Seq(EventRecord) /\ clock \in Nat
  BY DEF IInv, TypeOK, Time
<1>4. commits = <<>>
  BY <1>1, ActiveLedger
<1>5. /\ h.version = hold.version + 1 /\ h.status = "EXPIRED"
      /\ h.active = hold.active \ {Hold}
      /\ h.expires = hold.expires /\ h.digest = hold.digest
      /\ h.lifecycle = hold.lifecycle
      /\ h.refs = hold.refs /\ h.minDelete = hold.minDelete
  BY <1>3 DEF ExpiredHold, HoldState
<1>6. k.result = [version |-> h.version, locked |-> RetentionLockedAt(h, now)]
  BY DEF CommitOf
<1> HIDE DEF h, k
<1>7. commits' # <<>> /\ commits'[1] = k
  BY <1>2, <1>4
<1>8. Len(audit') = Len(audit) + 1 /\ Len(outbox') = Len(outbox) + 1
  BY <1>2, <1>3
<1>9. now \in 0 .. clock
  BY DEF ServerNow
<1>10. Lifecycle!Change
  BY <1>1, <1>2, <1>5 DEF Lifecycle!Change
<1>11. commits'[1].result = [version |-> hold'.version,
                             locked |-> \/ hold'.active # {}
                                        \/ hold.refs > 0
                                        \/ /\ hold.minDelete # None
                                           /\ now < hold.minDelete]
  BY <1>2, <1>5, <1>6, <1>7 DEF RetentionLockedAt
<1>12. QED
  BY <1>1, <1>2, <1>4, <1>5, <1>7, <1>8, <1>9, <1>10, <1>11
  DEF Lifecycle!Expire

LEMMA LifecycleWriter ==
    ASSUME IInv, OtherWriter
    PROVE  Lifecycle!Next \/ UNCHANGED Lifecycle!vars
<1>0. hold \in HoldState
  BY DEF IInv, TypeOK
<1>1. ASSUME NEW digest \in Digests, NEW expires \in Instants \cup {None},
             Renew(digest, expires)
      PROVE  Lifecycle!Renew
  <2>1. expires \in Nat \cup {None}
    BY BoundAssumption DEF Instants
  <2>2. /\ hold'.version = hold.version + 1 /\ hold'.digest = digest
        /\ hold'.expires = expires /\ hold'.status = hold.status
        /\ hold'.active = hold.active /\ hold'.refs = hold.refs
        /\ hold'.minDelete = hold.minDelete
        /\ hold'.lifecycle = hold.lifecycle
    BY <1>0, <1>1 DEF Renew, Write, HoldState
  <2>3. QED
    BY <1>1, <2>1, <2>2
    DEF Renew, Write, Writable, evidenceVars, Lifecycle!Renew, Lifecycle!Change
<1>2. ASSUME Release PROVE Lifecycle!Release
  <2>1. /\ hold'.version = hold.version + 1 /\ hold'.digest = hold.digest
        /\ hold'.expires = hold.expires /\ hold'.status = "RELEASED"
        /\ hold'.active = hold.active \ {Hold} /\ hold'.refs = hold.refs
        /\ hold'.minDelete = hold.minDelete
        /\ hold'.lifecycle = hold.lifecycle
    BY <1>0, <1>2 DEF Release, Write, HoldState
  <2>2. QED
    BY <1>2, <2>1 DEF Release, Write, Writable, evidenceVars,
                      Lifecycle!Release, Lifecycle!Change
<1>3. ASSUME NEW others \in SUBSET OtherHolds, NEW refs \in 0 .. MaxRefs,
             ChangeRetention(others, refs)
      PROVE  Lifecycle!ChangeRetention
  <2>1. /\ hold'.version = hold.version + 1 /\ hold'.digest = hold.digest
        /\ hold'.expires = hold.expires /\ hold'.status = hold.status
        /\ hold'.active = (hold.active \cap {Hold}) \cup others
        /\ hold'.refs = refs
        /\ hold'.minDelete = hold.minDelete
        /\ hold'.lifecycle = hold.lifecycle
    BY <1>0, <1>3 DEF ChangeRetention, Write, HoldState
  <2>2. hold'.active \in {(hold.active \cap {Hold}) \cup S :
                            S \in SUBSET OtherHolds}
    BY <2>1
  <2>3. QED
    BY <1>3, <2>1, <2>2, BoundAssumption
    DEF ChangeRetention, Write, Writable, evidenceVars,
        Lifecycle!ChangeRetention, Lifecycle!Change
<1>4. ASSUME NEW now \in ServerNow, BeginDelete(now)
      PROVE  Lifecycle!BeginDelete
  <2>1. /\ hold'.version = hold.version + 1 /\ hold'.digest = hold.digest
        /\ hold'.expires = hold.expires /\ hold'.status = hold.status
        /\ hold'.active = hold.active /\ hold'.refs = hold.refs
        /\ hold'.minDelete = hold.minDelete
        /\ hold'.lifecycle = "DELETING"
    BY <1>0, <1>4 DEF BeginDelete, Write, HoldState
  <2>2. now \in 0 .. clock /\ ~Lifecycle!Locked(now)
    BY <1>4 DEF ServerNow, BeginDelete, RetentionLockedAt, Lifecycle!Locked
  <2>3. QED
    BY <1>4, <2>1, <2>2
    DEF BeginDelete, Write, Writable, evidenceVars,
        Lifecycle!BeginDelete, Lifecycle!Change
<1>5. ASSUME BurnFence PROVE UNCHANGED Lifecycle!vars
  BY <1>0, <1>5, LifecycleStutter DEF BurnFence
<1>6. QED
  BY <1>1, <1>2, <1>3, <1>4, <1>5 DEF OtherWriter, Lifecycle!Next

\* Any number of reapers, scans, claims and retries add up to a hold that
\* expires at most once, when due, with one fixed and announced outcome.
THEOREM Refinement == Spec => ImplementsLifecycle
<1>1. ASSUME IInv, [Next]_vars
      PROVE  [Lifecycle!Next]_(Lifecycle!vars)
  <2>0. hold \in HoldState /\ highWater \in Nat
    BY <1>1 DEF IInv, TypeOK
  <2>1. ASSUME NEW who \in Caller, NEW now \in ServerNow, ReaperCall(who, now)
        PROVE  Lifecycle!Next \/ UNCHANGED Lifecycle!vars
    <3>1. ASSUME NEW request \in ScanRequest, NEW lease \in Tokens,
                 Scan(who, request, lease, now)
          PROVE  UNCHANGED Lifecycle!vars
      BY <2>0, <3>1, LifecycleStutter DEF Scan
    <3>2. ASSUME NEW c \in Issued, NEW fence \in 1 .. highWater,
                 Expire(who, c, fence, now)
          PROVE  Lifecycle!Next
      BY <1>1, <2>0, <3>2, LifecycleExpire DEF Lifecycle!Next
    <3>3. ASSUME NEW r \in ReplayClaimRequest,
                 NEW until \in now .. now + LeaseMax + 1,
                 ReplayClaim(who, r.due, r.lease, until, now)
          PROVE  UNCHANGED Lifecycle!vars
      BY <2>0, <3>3, LifecycleStutter DEF ReplayClaim
    <3>4. ASSUME NEW request \in ScanRequest, ScanAgain(who, request)
          PROVE  UNCHANGED Lifecycle!vars
      BY <2>0, <3>4, LifecycleStutter DEF ScanAgain
    <3>5. ASSUME NEW c \in Issued, NEW fence \in 1 .. highWater,
                 ExpireAgain(who, c, fence, now)
          PROVE  UNCHANGED Lifecycle!vars
      BY <2>0, <3>5, LifecycleStutter DEF ExpireAgain
    <3>6. ASSUME NEW r \in ReplayClaimRequest,
                 ReplayClaimAgain(who, r.due, r.lease)
          PROVE  UNCHANGED Lifecycle!vars
      BY <2>0, <3>6, LifecycleStutter DEF ReplayClaimAgain
    <3>7. QED
      BY <2>1, <3>1, <3>2, <3>3, <3>4, <3>5, <3>6 DEF ReaperCall
  <2>2. ASSUME OtherWriter
        PROVE  Lifecycle!Next \/ UNCHANGED Lifecycle!vars
    BY <1>1, <2>2, LifecycleWriter
  <2>3. ASSUME Tick PROVE Lifecycle!Next
    BY <2>3 DEF Tick, evidenceVars, Lifecycle!Next, Lifecycle!Tick
  <2>4. ASSUME UNCHANGED vars PROVE UNCHANGED Lifecycle!vars
    BY <2>0, <2>4, LifecycleStutter DEF vars, evidenceVars
  <2>5. QED
    BY <1>1, <2>1, <2>2, <2>3, <2>4 DEF Next
<1>2. QED
  BY <1>1, LifecycleInit, Invariance, PTL
  DEF Spec, ImplementsLifecycle, Lifecycle!Spec

=============================================================================
