----------------------------- MODULE MemoryStore -----------------------------
(***************************************************************************)
(* memory/store.py: concurrent calls of session_append on one session of a *)
(* JetStream KV bucket, with session_close and the bucket's TTL.           *)
(*                                                                         *)
(* A call reads the entry, adds its message to the history it read, and    *)
(* writes the whole history back on condition that the entry has not       *)
(* changed: create when there was none, update with the revision read      *)
(* otherwise.  The store answers a lost condition with                     *)
(* KeyWrongLastSequenceError, and the call tries again, MaxAttempts times  *)
(* in all; any other exception of the client ends the call at once.  The   *)
(* command and its answer are messages of their own: the store may apply a *)
(* command whose caller no longer waits.                                   *)
(*                                                                         *)
(* A message is named by the call that appends it; its JSON is left out.   *)
(* Reads are those of the KV leader.                                       *)
(***************************************************************************)
EXTENDS Naturals, Sequences

CONSTANTS
  Writers,              \* calls of session_append
  MaxAttempts,          \* the range(8) of session_append
  MaxRev                \* bound of the model: changes of the entry

ASSUME AttemptsAssumption == MaxAttempts \in Nat \ {0}
ASSUME RevAssumption == MaxRev \in Nat

VARIABLES
  kv,                   \* the session's entry: present or not, revision, history
  seen,                 \* the entry each call read last
  cmd,                  \* the conditional write of each call
  tries,                \* conditions lost so far by each call
  told,                 \* what each call has told its caller
  began                 \* revision at which each call began, for the properties

vars == <<kv, seen, cmd, tries, told, began>>

Entry == [present : BOOLEAN, rev : Nat, history : Seq(Writers)]
Commands == {"none", "out", "applied", "rejected"}
Told == {"idle", "pending", "ok", "conflict", "error"}

Absent(rev) == [present |-> FALSE, rev |-> rev, history |-> << >>]

Init ==
  /\ kv = Absent(0)
  /\ seen = [w \in Writers |-> Absent(0)]
  /\ cmd = [w \in Writers |-> "none"]
  /\ tries = [w \in Writers |-> 0]
  /\ told = [w \in Writers |-> "idle"]
  /\ began = [w \in Writers |-> 0]

-----------------------------------------------------------------------------
(* The bucket. *)

\* Mutant: put() in place of update(..., last=entry.revision).
HoldsWithoutRevision(w) == seen[w].present \/ ~kv.present

\* A call that read an entry names its revision, one that found none asks that
\* there be none.
Holds(w) ==
  IF seen[w].present THEN kv.present /\ kv.rev = seen[w].rev ELSE ~kv.present

\* The history a call writes is the one it read with its message added.
Payload(w) == Append(seen[w].history, w)

Apply(w) ==
  /\ cmd[w] = "out" /\ Holds(w) /\ kv.rev < MaxRev
  /\ kv' = [present |-> TRUE, rev |-> kv.rev + 1, history |-> Payload(w)]
  /\ cmd' = [cmd EXCEPT ![w] = "applied"]
  /\ UNCHANGED <<seen, tries, told, began>>

\* A create may also lose to an entry that came and went since it looked.
Reject(w) ==
  /\ cmd[w] = "out" /\ kv.rev # seen[w].rev
  /\ cmd' = [cmd EXCEPT ![w] = "rejected"]
  /\ UNCHANGED <<kv, seen, tries, told, began>>

\* The TTL of the bucket removes the entry.
Expire ==
  /\ kv.present /\ kv.rev < MaxRev
  /\ kv' = Absent(kv.rev + 1)
  /\ UNCHANGED <<seen, cmd, tries, told, began>>

-----------------------------------------------------------------------------
(* The callers. *)

SessionAppend(w) ==
  /\ told[w] = "idle"
  /\ told' = [told EXCEPT ![w] = "pending"]
  /\ began' = [began EXCEPT ![w] = kv.rev]
  /\ UNCHANGED <<kv, seen, cmd, tries>>

\* get() answers; the conditional write is sent at once.
Get(w) ==
  /\ told[w] = "pending" /\ cmd[w] = "none"
  /\ seen' = [seen EXCEPT ![w] = kv]
  /\ cmd' = [cmd EXCEPT ![w] = "out"]
  /\ UNCHANGED <<kv, tries, told, began>>

Return(w) ==
  /\ told[w] = "pending" /\ cmd[w] = "applied"
  /\ told' = [told EXCEPT ![w] = "ok"]
  /\ UNCHANGED <<kv, seen, cmd, tries, began>>

\* Mutant: the last attempt is not made.
RetryOneShort(w) ==
  /\ told[w] = "pending" /\ cmd[w] = "rejected"
  /\ tries' = [tries EXCEPT ![w] = @ + 1]
  /\ IF tries[w] + 2 < MaxAttempts
     THEN cmd' = [cmd EXCEPT ![w] = "none"] /\ UNCHANGED told
     ELSE told' = [told EXCEPT ![w] = "conflict"] /\ UNCHANGED cmd
  /\ UNCHANGED <<kv, seen, began>>

\* KeyWrongLastSequenceError: go round the loop again, or give up.
Retry(w) ==
  /\ told[w] = "pending" /\ cmd[w] = "rejected"
  /\ tries' = [tries EXCEPT ![w] = @ + 1]
  /\ IF tries[w] + 1 < MaxAttempts
     THEN cmd' = [cmd EXCEPT ![w] = "none"] /\ UNCHANGED told
     ELSE told' = [told EXCEPT ![w] = "conflict"] /\ UNCHANGED cmd
  /\ UNCHANGED <<kv, seen, began>>

\* A request that times out, or a lost connection, at any await.
Raise(w) ==
  /\ told[w] = "pending"
  /\ told' = [told EXCEPT ![w] = "error"]
  /\ UNCHANGED <<kv, seen, cmd, tries, began>>

\* session_close: delete() leaves a marker, a revision of its own.
SessionClose ==
  /\ kv.rev < MaxRev
  /\ kv' = Absent(kv.rev + 1)
  /\ UNCHANGED <<seen, cmd, tries, told, began>>

-----------------------------------------------------------------------------
Next ==
  \/ \E w \in Writers :
       \/ SessionAppend(w)
       \/ Get(w)
       \/ Apply(w)
       \/ Reject(w)
       \/ Return(w)
       \/ Retry(w)
       \/ Raise(w)
  \/ SessionClose
  \/ Expire

Spec == Init /\ [][Next]_vars

-----------------------------------------------------------------------------
(* Type invariant of the store and its callers. *)
TypeOK ==
  /\ kv \in Entry
  /\ seen \in [Writers -> Entry]
  /\ cmd \in [Writers -> Commands]
  /\ tries \in [Writers -> Nat]
  /\ told \in [Writers -> Told]
  /\ began \in [Writers -> Nat]

(* A call gives up with a conflict only if the entry changed MaxAttempts     *)
(* times or more while it ran: session_append's retries are lost to the      *)
(* progress of others, never to the call itself.                             *)
NoSpuriousConflict ==
  \A w \in Writers :
    told[w] = "conflict" => began[w] + MaxAttempts <= kv.rev

-----------------------------------------------------------------------------
(* The inductive invariant of MemoryStore_proofs. *)

\* Every change moves the revision, so equal revisions are equal entries.
RevisionInv ==
  /\ ~kv.present => kv.history = << >>
  /\ \A w \in Writers :
       /\ seen[w].rev <= kv.rev
       /\ seen[w].rev = kv.rev => seen[w] = kv
       /\ ~seen[w].present => seen[w].history = << >>

\* A condition lost is a change seen by nobody but the loser.
LostInv ==
  \A w \in Writers :
    /\ told[w] = "idle" => cmd[w] = "none" /\ tries[w] = 0
    /\ told[w] = "pending" =>
         /\ tries[w] < MaxAttempts
         /\ cmd[w] = "none" => began[w] + tries[w] <= kv.rev
         /\ cmd[w] # "none" => began[w] + tries[w] <= seen[w].rev
    /\ cmd[w] = "rejected" => seen[w].rev < kv.rev
    /\ told[w] = "ok" => cmd[w] = "applied"
    /\ told[w] = "conflict" =>
         cmd[w] = "rejected" /\ began[w] + MaxAttempts <= kv.rev

IInv == TypeOK /\ RevisionInv /\ LostInv

-----------------------------------------------------------------------------
(* The log the store keeps: a call's message is in once its write applied. *)
Log == INSTANCE SessionLog WITH
  log <- kv.history,
  told <- told,
  written <- {w \in Writers : cmd[w] = "applied"}

(* session_append is atomic: under concurrent appends, closes, expiry and    *)
(* lost answers, no message overwrites another, none enters twice, and what  *)
(* each caller is told is true of the log.                                   *)
ImplementsLog == Log!Spec

=============================================================================
