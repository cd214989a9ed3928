-------------------------- MODULE MemoryStore_proofs --------------------------
(***************************************************************************)
(* For any number of writers, attempts and changes of the entry: the       *)
(* inductive invariant of MemoryStore, the reason it gives for every       *)
(* conflict, and the refinement of SessionLog.                             *)
(***************************************************************************)
EXTENDS MemoryStore, TLAPS

-----------------------------------------------------------------------------
(* The empty entry and the entry a call writes are entries. *)

LEMMA AbsentType ==
  ASSUME NEW r \in Nat
  PROVE  /\ Absent(r) \in Entry
         /\ Absent(r).rev = r
         /\ ~Absent(r).present
         /\ Absent(r).history = << >>
BY DEF Absent, Entry

LEMMA PayloadType ==
  ASSUME TypeOK, NEW w \in Writers
  PROVE  Payload(w) \in Seq(Writers)
<1>1. seen[w].history \in Seq(Writers)
  BY DEF TypeOK, Entry
<1> QED
  BY <1>1 DEF Payload

-----------------------------------------------------------------------------
LEMMA InitInv == Init => IInv
<1> SUFFICES ASSUME Init PROVE IInv
  OBVIOUS
<1>1. Absent(0) \in Entry /\ Absent(0).rev = 0 /\ ~Absent(0).present
      /\ Absent(0).history = << >>
  BY AbsentType
<1>2. TypeOK
  BY <1>1 DEF Init, TypeOK, Commands, Told
<1>3. RevisionInv
  BY <1>1 DEF Init, RevisionInv
<1>4. LostInv
  BY AttemptsAssumption DEF Init, LostInv
<1> QED
  BY <1>2, <1>3, <1>4 DEF IInv

(* Whatever makes a new entry moves the revision past everything read. *)
LEMMA NewEntry ==
  ASSUME IInv,
         kv' \in Entry, kv'.rev = kv.rev + 1,
         ~kv'.present => kv'.history = << >>,
         UNCHANGED <<seen, tries, told, began>>,
         \/ UNCHANGED cmd
         \/ \E w \in Writers : /\ cmd[w] = "out"
                               /\ cmd' = [cmd EXCEPT ![w] = "applied"]
  PROVE  IInv'
<1> USE DEF IInv
<1>1. kv.rev \in Nat /\ \A w \in Writers : seen[w].rev \in Nat
  BY DEF TypeOK, Entry
<1>2. TypeOK'
  BY DEF TypeOK, Commands
<1>3. RevisionInv'
  BY <1>1 DEF RevisionInv
<1>4. LostInv'
  <2> SUFFICES ASSUME NEW v \in Writers
               PROVE  /\ told[v] = "idle" => cmd'[v] = "none" /\ tries[v] = 0
                      /\ told[v] = "pending" =>
                           /\ tries[v] < MaxAttempts
                           /\ cmd'[v] = "none" => began[v] + tries[v] <= kv'.rev
                           /\ cmd'[v] # "none" => began[v] + tries[v] <= seen[v].rev
                      /\ cmd'[v] = "rejected" => seen[v].rev < kv'.rev
                      /\ told[v] = "ok" => cmd'[v] = "applied"
                      /\ told[v] = "conflict" =>
                           cmd'[v] = "rejected" /\ began[v] + MaxAttempts <= kv'.rev
    BY DEF LostInv
  <2>1. \/ cmd'[v] = cmd[v]
        \/ cmd[v] = "out" /\ cmd'[v] = "applied"
    BY DEF TypeOK
  <2>2. began[v] \in Nat /\ tries[v] \in Nat /\ MaxAttempts \in Nat
    BY AttemptsAssumption DEF TypeOK
  <2> QED
    BY <1>1, <2>1, <2>2 DEF LostInv
<1> QED
  BY <1>2, <1>3, <1>4

LEMMA NextInv == IInv /\ [Next]_vars => IInv'
<1> SUFFICES ASSUME IInv, [Next]_vars PROVE IInv'
  OBVIOUS
<1> USE DEF IInv
<1>1. kv.rev \in Nat /\ \A w \in Writers : seen[w].rev \in Nat
  BY DEF TypeOK, Entry
<1>2. MaxAttempts \in Nat /\ MaxAttempts > 0
  BY AttemptsAssumption
<1>3. ASSUME NEW w \in Writers, SessionAppend(w) PROVE IInv'
  <2>1. TypeOK'
    BY <1>1, <1>3 DEF SessionAppend, TypeOK, Told
  <2>2. RevisionInv'
    BY <1>3 DEF SessionAppend, RevisionInv
  <2>3. LostInv'
    BY <1>1, <1>2, <1>3 DEF SessionAppend, LostInv, TypeOK
  <2> QED
    BY <2>1, <2>2, <2>3
<1>4. ASSUME NEW w \in Writers, Get(w) PROVE IInv'
  <2>1. TypeOK'
    BY <1>4 DEF Get, TypeOK, Commands
  <2>2. RevisionInv'
    BY <1>1, <1>4 DEF Get, RevisionInv, TypeOK
  <2>3. LostInv'
    BY <1>1, <1>2, <1>4 DEF Get, LostInv, TypeOK
  <2> QED
    BY <2>1, <2>2, <2>3
<1>5. ASSUME NEW w \in Writers, Apply(w) PROVE IInv'
  <2>1. Payload(w) \in Seq(Writers)
    BY PayloadType
  <2>2. kv' \in Entry /\ kv'.rev = kv.rev + 1 /\ kv'.present
    BY <1>1, <1>5, <2>1 DEF Apply, Entry
  <2> QED
    BY <1>5, <2>2, NewEntry DEF Apply
<1>6. ASSUME NEW w \in Writers, Reject(w) PROVE IInv'
  <2>1. TypeOK'
    BY <1>6 DEF Reject, TypeOK, Commands
  <2>2. RevisionInv'
    BY <1>6 DEF Reject, RevisionInv
  <2>3. LostInv'
    BY <1>1, <1>6 DEF Reject, LostInv, RevisionInv, TypeOK
  <2> QED
    BY <2>1, <2>2, <2>3
<1>7. ASSUME NEW w \in Writers, Return(w) PROVE IInv'
  <2>1. TypeOK'
    BY <1>7 DEF Return, TypeOK, Told
  <2>2. RevisionInv'
    BY <1>7 DEF Return, RevisionInv
  <2>3. LostInv'
    BY <1>7 DEF Return, LostInv, TypeOK
  <2> QED
    BY <2>1, <2>2, <2>3
<1>8. ASSUME NEW w \in Writers, Retry(w) PROVE IInv'
  <2>1. TypeOK'
    BY <1>8 DEF Retry, TypeOK, Told, Commands
  <2>2. RevisionInv'
    BY <1>8 DEF Retry, RevisionInv
  <2>3. LostInv'
    BY <1>1, <1>2, <1>8 DEF Retry, LostInv, TypeOK
  <2> QED
    BY <2>1, <2>2, <2>3
<1>9. ASSUME NEW w \in Writers, Raise(w) PROVE IInv'
  <2>1. TypeOK'
    BY <1>9 DEF Raise, TypeOK, Told
  <2>2. RevisionInv'
    BY <1>9 DEF Raise, RevisionInv
  <2>3. LostInv'
    BY <1>9 DEF Raise, LostInv, TypeOK
  <2> QED
    BY <2>1, <2>2, <2>3
<1>10. CASE SessionClose
  BY <1>1, <1>10, AbsentType, NewEntry DEF SessionClose
<1>11. CASE Expire
  BY <1>1, <1>11, AbsentType, NewEntry DEF Expire
<1>12. CASE UNCHANGED vars
  BY <1>12 DEF vars, TypeOK, RevisionInv, LostInv
<1> QED
  BY <1>3, <1>4, <1>5, <1>6, <1>7, <1>8, <1>9, <1>10, <1>11, <1>12 DEF Next

(* The invariant holds of every reachable state of the store: equal          *)
(* revisions are equal entries, and every lost condition is a change.        *)
THEOREM Invariance == Spec => []IInv
BY InitInv, NextInv, PTL DEF Spec

(* session_append reports a conflict only when the entry changed as often as *)
(* it tried, for any number of attempts and of writers.                      *)
THEOREM ConflictsAreReal == Spec => []NoSpuriousConflict
<1>1. IInv => NoSpuriousConflict
  BY DEF IInv, LostInv, NoSpuriousConflict
<1> QED
  BY <1>1, Invariance, PTL

-----------------------------------------------------------------------------
(* The refinement: a write applies only on the history it was made from. *)

LEMMA PayloadExtends ==
  ASSUME IInv, NEW w \in Writers, Holds(w)
  PROVE  Payload(w) = Append(kv.history, w)
<1>1. CASE seen[w].present
  BY <1>1 DEF IInv, RevisionInv, Holds, Payload
<1>2. CASE ~seen[w].present
  BY <1>2 DEF IInv, RevisionInv, Holds, Payload
<1> QED
  BY <1>1, <1>2

LEMMA InitLog == Init => Log!Init
BY DEF Init, Log!Init, Absent

LEMMA NextLog == IInv /\ [Next]_vars => [Log!Next]_Log!vars
<1> SUFFICES ASSUME IInv, [Next]_vars PROVE [Log!Next]_Log!vars
  OBVIOUS
<1> DEFINE Written == {w \in Writers : cmd[w] = "applied"}
<1>0. cmd \in [Writers -> Commands]
  BY DEF IInv, TypeOK
<1>1. ASSUME NEW w \in Writers, SessionAppend(w) PROVE Log!Next
  <2>1. Log!Call(w)
    BY <1>1 DEF SessionAppend, Log!Call
  <2> QED
    BY <2>1 DEF Log!Next
<1>2. ASSUME NEW w \in Writers, Get(w) PROVE UNCHANGED Log!vars
  <2>1. Written' = Written
    BY <1>0, <1>2 DEF Get
  <2> QED
    BY <1>2, <2>1 DEF Get, Log!vars
<1>3. ASSUME NEW w \in Writers, Apply(w) PROVE Log!Next
  <2>1. kv'.history = Append(kv.history, w)
    BY <1>3, PayloadExtends DEF Apply
  <2>2. w \notin Written /\ Written' = Written \cup {w}
    BY <1>0, <1>3 DEF Apply
  <2>3. told[w] \in {"pending", "error"}
    BY <1>3 DEF Apply, IInv, LostInv, TypeOK, Told
  <2>4. Log!Enter(w)
    BY <1>3, <2>1, <2>2, <2>3 DEF Apply, Log!Enter
  <2> QED
    BY <2>4 DEF Log!Next
<1>4. ASSUME NEW w \in Writers, Reject(w) PROVE UNCHANGED Log!vars
  <2>1. Written' = Written
    BY <1>0, <1>4 DEF Reject
  <2> QED
    BY <1>4, <2>1 DEF Reject, Log!vars
<1>5. ASSUME NEW w \in Writers, Return(w) PROVE Log!Next
  <2>1. Log!Tell(w, "ok")
    BY <1>5 DEF Return, Log!Tell
  <2> QED
    BY <2>1 DEF Log!Next
<1>6. ASSUME NEW w \in Writers, Retry(w) PROVE [Log!Next]_Log!vars
  <2>1. Written' = Written
    BY <1>0, <1>6 DEF Retry
  <2>2. CASE tries[w] + 1 < MaxAttempts
    BY <1>6, <2>1, <2>2 DEF Retry, Log!vars
  <2>3. CASE ~(tries[w] + 1 < MaxAttempts)
    <3>1. Log!Tell(w, "conflict")
      BY <1>6, <2>1, <2>3 DEF Retry, Log!Tell
    <3> QED
      BY <3>1 DEF Log!Next
  <2> QED
    BY <2>2, <2>3
<1>7. ASSUME NEW w \in Writers, Raise(w) PROVE Log!Next
  <2>1. Log!Tell(w, "error")
    BY <1>7 DEF Raise, Log!Tell
  <2> QED
    BY <2>1 DEF Log!Next
<1>8. CASE SessionClose
  <2>1. Log!Empty
    BY <1>8 DEF SessionClose, Absent, Log!Empty
  <2> QED
    BY <2>1 DEF Log!Next
<1>9. CASE Expire
  <2>1. Log!Empty
    BY <1>9 DEF Expire, Absent, Log!Empty
  <2> QED
    BY <2>1 DEF Log!Next
<1>10. CASE UNCHANGED vars
  BY <1>10 DEF vars, Log!vars
<1> QED
  BY <1>1, <1>2, <1>3, <1>4, <1>5, <1>6, <1>7, <1>8, <1>9, <1>10 DEF Next

(* session_append is the atomic append of SessionLog, whatever the number of *)
(* writers and attempts, and whenever the session is closed or expires.      *)
THEOREM Refinement == Spec => ImplementsLog
BY InitLog, NextLog, Invariance, PTL DEF Spec, ImplementsLog, Log!Spec
=============================================================================
