--------------------------- MODULE StreamSession ---------------------------
(***************************************************************************)
(* How a caller follows a task over NATS: the session-open response with   *)
(* its snapshot frame and the cursor every live frame must pass            *)
(* (bindings/nats_v1/stream.py).                                           *)
(*                                                                         *)
(* The State plane commits the events of one task and the session          *)
(* controller publishes them; neither is in the repository.  All that is   *)
(* assumed of them is that the session of one open numbers the events      *)
(* after its snapshot 1, 2, 3, ...; its frames may be marked final wrongly.*)
(* Frames are delivered in any order, any number of times and any time     *)
(* later, also those of earlier opens, and the response to an open may be  *)
(* late as well.                                                           *)
(*                                                                         *)
(* Abstractions.  An event is its eventSeq, counted without gaps; the last *)
(* one may be terminal.  A payload digest is the frame it is computed      *)
(* from, so a frame that passed __post_init__ is a record.  Session, task  *)
(* and delivery subject are fixed by the open id; frames whose payload is  *)
(* not a committed update are refused before the cursor sees them.         *)
(***************************************************************************)
EXTENDS Naturals, Sequences

CONSTANTS
    SafeInteger,    \* the largest sequence a frame may carry
    MaxEvents,      \* bound: events of the task
    MaxOpens,       \* bound: how often the caller opens a stream
    None            \* Python's None

ASSUME SessionBounds ==
    SafeInteger \in Nat /\ MaxEvents \in Nat /\ MaxOpens \in Nat

\* StreamSessionFrameV1.  terminal is what the frame's payload says of the task.
Frame == [open : 1 .. MaxOpens, sequence : 0 .. SafeInteger,
          eventSeq : 0 .. SafeInteger, final : BOOLEAN, terminal : BOOLEAN]

ASSUME NoneIsNoFrame == None \notin Frame

\* StreamFrameCursorV1: last is the last frame (None: last_sequence is 0)
Cursor == [open : Nat, snapshot : 0 .. SafeInteger, last : Frame \cup {None}]

VARIABLES
    committed,      \* the task's events are 1 .. committed
    ended,          \* the last of them is terminal
    snapshots,      \* snapshotEventSeq of each open the server has granted
    cursor,         \* the caller's cursor
    view,           \* the events the caller has been shown, in order
    disposition     \* what became of the last frame

vars == <<committed, ended, snapshots, cursor, view, disposition>>

NoCursor == [open |-> 0, snapshot |-> 0, last |-> None]

LastSequence(c) == IF c.last = None THEN 0 ELSE c.last.sequence
LastEventSeq(c) == IF c.last = None THEN c.snapshot ELSE c.last.eventSeq
IsFinal(c) == IF c.last = None THEN FALSE ELSE c.last.final

-----------------------------------------------------------------------------
(* The State plane and the session controller *)

CommitEvent(terminal) ==
    /\ ~ended
    /\ committed < MaxEvents
    /\ committed' = committed + 1
    /\ ended' = terminal
    /\ UNCHANGED <<snapshots, cursor, view, disposition>>

GrantOpen ==
    /\ Len(snapshots) < MaxOpens
    /\ committed <= SafeInteger
    /\ snapshots' = Append(snapshots, committed)
    /\ UNCHANGED <<committed, ended, cursor, view, disposition>>

\* The frames an open's session has published so far, or will publish again.
Published(open) ==
    {f \in Frame :
        /\ f.open = open
        /\ f.sequence > 0
        /\ f.eventSeq = snapshots[open] + f.sequence
        /\ f.eventSeq <= committed
        /\ f.terminal = (ended /\ f.eventSeq = committed)}

-----------------------------------------------------------------------------
(* The caller *)

\* StreamSessionOpenedV1: the initial frame shows the task up to its snapshot.
Opened(open) ==
    /\ open > cursor.open
    /\ cursor' = [open |-> open, snapshot |-> snapshots[open], last |-> None]
    /\ view' = [e \in 1 .. snapshots[open] |-> e]
    /\ UNCHANGED <<committed, ended, snapshots, disposition>>

\* Mutant: the frame's own word for the end of the task is taken.
RightStreamUnchecked(f) == cursor.open > 0 /\ f.open = cursor.open

\* The frame is of this open, and final says what its event says.
RightStream(f) ==
    /\ cursor.open > 0
    /\ f.open = cursor.open
    /\ f.final = f.terminal

\* The frame that was accepted last, unchanged.
IsRedelivery(f) == RightStream(f) /\ cursor.last = f

\* Mutant: a gap is accepted as long as the events go up.
IsNextAfterGap(f) ==
    /\ RightStream(f)
    /\ ~IsFinal(cursor)
    /\ f.sequence > LastSequence(cursor)
    /\ f.eventSeq > cursor.snapshot
    /\ f.eventSeq > LastEventSeq(cursor)

\* Mutant: only the sequence is compared.
IsNextInSequence(f) ==
    /\ cursor.open > 0
    /\ ~IsFinal(cursor)
    /\ f.sequence = LastSequence(cursor) + 1

IsNext(f) ==
    /\ RightStream(f)
    /\ ~IsFinal(cursor)
    /\ f.sequence = LastSequence(cursor) + 1
    /\ f.eventSeq > cursor.snapshot
    /\ f.eventSeq > LastEventSeq(cursor)

AcceptNew(f) ==
    /\ ~IsRedelivery(f)
    /\ IsNext(f)
    /\ cursor' = [cursor EXCEPT !.last = f]
    /\ view' = Append(view, f.eventSeq)
    /\ disposition' = "new"
    /\ UNCHANGED <<committed, ended, snapshots>>

AcceptRedelivery(f) ==
    /\ IsRedelivery(f)
    /\ disposition' = "redelivery"
    /\ UNCHANGED <<committed, ended, snapshots, cursor, view>>

\* BindingValidationError
Refuse(f) ==
    /\ ~IsRedelivery(f)
    /\ ~IsNext(f)
    /\ disposition' = "refused"
    /\ UNCHANGED <<committed, ended, snapshots, cursor, view>>

-----------------------------------------------------------------------------
Init ==
    /\ committed = 0
    /\ ended = FALSE
    /\ snapshots = <<>>
    /\ cursor = NoCursor
    /\ view = <<>>
    /\ disposition = "none"

Deliver(f) == AcceptNew(f) \/ AcceptRedelivery(f) \/ Refuse(f)

Next ==
    \/ \E terminal \in BOOLEAN : CommitEvent(terminal)
    \/ GrantOpen
    \/ \E open \in 1 .. Len(snapshots) : Opened(open)
    \/ \E open \in 1 .. Len(snapshots) : \E f \in Published(open) : Deliver(f)

Spec == Init /\ [][Next]_vars

-----------------------------------------------------------------------------
(* Properties *)

\* Every cursor accept builds passes its own __post_init__.
TypeOK ==
    /\ committed \in Nat
    /\ ended \in BOOLEAN
    /\ snapshots \in Seq(0 .. SafeInteger)
    /\ cursor \in Cursor
    /\ cursor.last # None => cursor.last.eventSeq > cursor.snapshot
    /\ view \in Seq(Nat)
    /\ disposition \in {"none", "new", "redelivery", "refused"}

\* Whatever is lost, repeated, reordered or left over from an earlier open, the
\* caller is shown a prefix of the task's committed events: no gap, no repeat,
\* none out of order (StreamFrameCursorV1.accept).
ViewIsPrefix ==
    /\ Len(view) <= committed
    /\ \A e \in 1 .. Len(view) : view[e] = e

\* A caller told that a frame is final has been shown the whole task, and the
\* cursor never takes a frame after it.
FinalIsComplete == IsFinal(cursor) => ended /\ Len(view) = committed

-----------------------------------------------------------------------------
(* The inductive invariant of StreamSession_proofs *)

\* What the session controller has granted.
GrantsInv ==
    /\ Len(snapshots) <= MaxOpens
    /\ \A i \in 1 .. Len(snapshots) : snapshots[i] <= committed

\* The cursor belongs to a granted open and stands where its sequence says.
CursorInv ==
    /\ cursor.open <= Len(snapshots)
    /\ cursor.open = 0 => cursor = NoCursor
    /\ cursor.open > 0 => cursor.snapshot = snapshots[cursor.open]
    /\ LastEventSeq(cursor) = cursor.snapshot + LastSequence(cursor)
    /\ LastEventSeq(cursor) <= committed

\* The caller has been shown the events up to the cursor.
ViewInv ==
    /\ Len(view) = LastEventSeq(cursor)
    /\ \A e \in 1 .. Len(view) : view[e] = e

FinalInv == IsFinal(cursor) => ended /\ LastEventSeq(cursor) = committed

IInv == TypeOK /\ GrantsInv /\ CursorInv /\ ViewInv /\ FinalInv
=============================================================================
