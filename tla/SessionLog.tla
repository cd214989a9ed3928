----------------------------- MODULE SessionLog -----------------------------
(***************************************************************************)
(* What MemoryStore.session_append promises ("Append atomically, retrying  *)
(* on concurrent KV revisions", memory/store.py:44): one session is a log  *)
(* of messages; a message enters it at most once, at its end, whatever the *)
(* other writers do; the caller is told success only if the message is in, *)
(* told a conflict only if it is not and never will be, and after any      *)
(* other error cannot know.  Closing the session, or its expiry, empties   *)
(* the log.                                                                *)
(***************************************************************************)
EXTENDS Sequences

CONSTANT Writers        \* calls of session_append, each with its own message

VARIABLES
  log,                  \* the messages of the session, by the call they are of
  told,                 \* what each call has been told
  written               \* the calls whose message has entered the log

vars == <<log, told, written>>

Init ==
  /\ log = << >>
  /\ told = [w \in Writers |-> "idle"]
  /\ written = {}

Call(w) ==
  /\ told[w] = "idle"
  /\ told' = [told EXCEPT ![w] = "pending"]
  /\ UNCHANGED <<log, written>>

\* The message enters the log, possibly after its caller gave up waiting.
Enter(w) ==
  /\ told[w] \in {"pending", "error"}
  /\ w \notin written
  /\ log' = Append(log, w)
  /\ written' = written \cup {w}
  /\ UNCHANGED told

Tell(w, answer) ==
  /\ told[w] = "pending"
  /\ answer = "ok" => w \in written
  /\ answer = "conflict" => w \notin written
  /\ told' = [told EXCEPT ![w] = answer]
  /\ UNCHANGED <<log, written>>

Empty ==
  /\ log' = << >>
  /\ UNCHANGED <<told, written>>

Next ==
  \/ \E w \in Writers :
       \/ Call(w)
       \/ Enter(w)
       \/ \E answer \in {"ok", "conflict", "error"} : Tell(w, answer)
  \/ Empty

Spec == Init /\ [][Next]_vars
=============================================================================
