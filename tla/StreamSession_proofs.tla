------------------------ MODULE StreamSession_proofs ------------------------
(***************************************************************************)
(* What the frame cursor guarantees for every number of events and opens:  *)
(* the caller sees a prefix of the task, and all of it at the final frame. *)
(***************************************************************************)
EXTENDS StreamSession, SequenceTheorems, TLAPS

\* Nothing has been committed and no stream opened.
LEMMA InitIInv == Init => IInv
<1> SUFFICES ASSUME Init PROVE IInv
  OBVIOUS
<1> USE DEF Init
<1>1. NoCursor \in Cursor /\ NoCursor.last = None /\ NoCursor.open = 0
  BY SessionBounds DEF NoCursor, Cursor
<1>2. LastEventSeq(cursor) = 0 /\ LastSequence(cursor) = 0 /\ ~IsFinal(cursor)
  <2>1. cursor.last = None /\ cursor.snapshot = 0
    BY DEF NoCursor
  <2>2. LastEventSeq(cursor) = 0
    BY <2>1 DEF LastEventSeq
  <2>3. LastSequence(cursor) = 0
    BY <2>1 DEF LastSequence
  <2>4. ~IsFinal(cursor)
    BY <2>1 DEF IsFinal
  <2> QED
    BY <2>2, <2>3, <2>4
<1>3. TypeOK
  <2>1. committed \in Nat /\ cursor \in Cursor /\ cursor.last = None
    BY <1>1
  <2>2. snapshots \in Seq(0 .. SafeInteger) /\ view \in Seq(Nat)
    OBVIOUS
  <2>3. ended \in BOOLEAN /\ disposition \in {"none", "new", "redelivery", "refused"}
    OBVIOUS
  <2> QED
    BY <2>1, <2>2, <2>3 DEF TypeOK
<1>4. GrantsInv
  BY SessionBounds DEF GrantsInv
<1>5. CursorInv
  BY <1>2 DEF CursorInv, NoCursor
<1>6. ViewInv /\ FinalInv
  BY <1>2 DEF ViewInv, FinalInv
<1> QED
  BY <1>3, <1>4, <1>5, <1>6 DEF IInv

\* The facts about a state that every step's proof starts from.
LEMMA CursorFacts ==
  ASSUME IInv
  PROVE  /\ committed \in Nat /\ Len(snapshots) \in Nat /\ Len(view) \in Nat
         /\ cursor.open \in Nat /\ cursor.snapshot \in Nat
         /\ cursor.last # None => cursor.last \in Frame
         /\ LastEventSeq(cursor) \in Nat /\ LastSequence(cursor) \in Nat
  BY SessionBounds DEF IInv, TypeOK, Cursor, Frame, LastEventSeq, LastSequence

\* A new event leaves the cursor behind it; none follows the terminal one.
LEMMA CommitEventIInv ==
  ASSUME IInv, NEW terminal \in BOOLEAN, CommitEvent(terminal)
  PROVE  IInv'
<1> USE DEF CommitEvent
<1>1. TypeOK'
  BY DEF IInv, TypeOK
<1>2. GrantsInv'
  BY CursorFacts, SessionBounds DEF IInv, GrantsInv, TypeOK
<1>3. CursorInv'
  BY CursorFacts DEF IInv, CursorInv, LastEventSeq, LastSequence, NoCursor
<1>4. ViewInv'
  BY DEF IInv, ViewInv, LastEventSeq
<1>5. FinalInv'
  BY DEF IInv, FinalInv, IsFinal
<1> QED
  BY <1>1, <1>2, <1>3, <1>4, <1>5 DEF IInv

\* A granted open takes its snapshot of what is committed.
LEMMA GrantOpenIInv ==
  ASSUME IInv, GrantOpen
  PROVE  IInv'
<1> USE DEF GrantOpen
<1>0. snapshots \in Seq(0 .. SafeInteger) /\ committed \in 0 .. SafeInteger
  BY CursorFacts, SessionBounds DEF IInv, TypeOK
<1>1. /\ snapshots' \in Seq(0 .. SafeInteger)
      /\ Len(snapshots') = Len(snapshots) + 1
      /\ \A i \in 1 .. Len(snapshots) : snapshots'[i] = snapshots[i]
      /\ snapshots'[Len(snapshots) + 1] = committed
  BY <1>0
<1>2. TypeOK'
  BY <1>1 DEF IInv, TypeOK
<1>3. GrantsInv'
  BY <1>0, <1>1, CursorFacts, SessionBounds DEF IInv, GrantsInv
<1>4. CursorInv'
  BY <1>1, CursorFacts DEF IInv, CursorInv, LastEventSeq, LastSequence, NoCursor
<1>5. ViewInv' /\ FinalInv'
  BY DEF IInv, ViewInv, FinalInv, LastEventSeq, IsFinal
<1> QED
  BY <1>2, <1>3, <1>4, <1>5 DEF IInv

\* The initial frame replaces the view and starts a fresh cursor.
LEMMA OpenedIInv ==
  ASSUME IInv, NEW open \in 1 .. Len(snapshots), Opened(open)
  PROVE  IInv'
<1> USE DEF Opened
<1>0. open \in Nat /\ open > 0 /\ snapshots[open] \in 0 .. SafeInteger
  BY CursorFacts, SessionBounds DEF IInv, TypeOK
<1>1. /\ view' \in Seq(Nat)
      /\ Len(view') = snapshots[open]
      /\ \A e \in 1 .. snapshots[open] : view'[e] = e
  BY <1>0, SessionBounds
<1>2. cursor' \in Cursor
  BY <1>0 DEF Cursor
<1>3. TypeOK'
  BY <1>1, <1>2 DEF IInv, TypeOK
<1>4. GrantsInv'
  BY DEF IInv, GrantsInv
<1>5. CursorInv'
  BY <1>0, CursorFacts, SessionBounds
     DEF IInv, CursorInv, GrantsInv, LastEventSeq, LastSequence
<1>6. ViewInv'
  BY <1>0, <1>1 DEF ViewInv, LastEventSeq
<1>7. FinalInv'
  BY DEF FinalInv, IsFinal
<1> QED
  BY <1>3, <1>4, <1>5, <1>6, <1>7 DEF IInv

\* The frame that passes the gate is the event after the last one shown: its
\* sequence is one more, and both count from the same snapshot.
LEMMA NextFrameIsNextEvent ==
  ASSUME IInv, NEW open \in 1 .. Len(snapshots), NEW f \in Published(open),
         IsNext(f)
  PROVE  /\ f \in Frame
         /\ f.eventSeq = LastEventSeq(cursor) + 1
         /\ f.eventSeq = cursor.snapshot + f.sequence
         /\ f.eventSeq <= committed
         /\ f.eventSeq > cursor.snapshot
         /\ f.final => ended /\ f.eventSeq = committed
<1>1. f \in Frame /\ f.open = open
  BY DEF Published
<1>2. open = cursor.open /\ cursor.open > 0
  BY <1>1 DEF IsNext, RightStream
<1>3. cursor.snapshot = snapshots[open]
  BY <1>2 DEF IInv, CursorInv
<1>4. f.sequence = LastSequence(cursor) + 1
  BY DEF IsNext
<1>5. f.eventSeq = cursor.snapshot + f.sequence /\ f.eventSeq <= committed
  BY <1>3 DEF Published
<1>6. LastEventSeq(cursor) = cursor.snapshot + LastSequence(cursor)
  BY DEF IInv, CursorInv
<1>7. f.final => ended /\ f.eventSeq = committed
  BY DEF IsNext, RightStream, Published
<1>8. f.sequence \in Nat /\ f.eventSeq \in Nat
  BY <1>1, SessionBounds DEF Frame
<1>9. f.eventSeq = LastEventSeq(cursor) + 1
  BY <1>4, <1>5, <1>6, <1>8, CursorFacts
<1>10. f.eventSeq > cursor.snapshot
  BY DEF IsNext
<1> QED
  BY <1>1, <1>5, <1>7, <1>9, <1>10

\* An accepted frame moves cursor and view on by one event.
LEMMA AcceptNewIInv ==
  ASSUME IInv, NEW open \in 1 .. Len(snapshots), NEW f \in Published(open),
         AcceptNew(f)
  PROVE  IInv'
<1> USE DEF AcceptNew
<1>0. /\ f \in Frame /\ f # None
      /\ f.eventSeq = LastEventSeq(cursor) + 1
      /\ f.eventSeq = cursor.snapshot + f.sequence
      /\ f.eventSeq <= committed /\ f.eventSeq > cursor.snapshot
      /\ f.final => ended /\ f.eventSeq = committed
  BY NextFrameIsNextEvent, NoneIsNoFrame
<1>1. /\ cursor' \in Cursor /\ cursor'.last = f
      /\ cursor'.open = cursor.open /\ cursor'.snapshot = cursor.snapshot
  BY <1>0 DEF IInv, TypeOK, Cursor
<1>2. f.eventSeq \in Nat /\ f.sequence \in Nat
  BY <1>0, SessionBounds DEF Frame
<1>3. /\ view' \in Seq(Nat)
      /\ Len(view') = Len(view) + 1
      /\ \A e \in 1 .. Len(view) : view'[e] = view[e]
      /\ view'[Len(view) + 1] = f.eventSeq
  BY <1>2 DEF IInv, TypeOK
<1>4. TypeOK'
  BY <1>0, <1>1, <1>3 DEF IInv, TypeOK
<1>5. GrantsInv'
  BY DEF IInv, GrantsInv
<1>a. /\ LastEventSeq(cursor') = f.eventSeq
      /\ LastSequence(cursor') = f.sequence
      /\ IsFinal(cursor') = f.final
  BY <1>0, <1>1 DEF LastEventSeq, LastSequence, IsFinal
<1>6. CursorInv'
  <2>1. cursor.open > 0 /\ cursor.open <= Len(snapshots)
    BY DEF IInv, CursorInv, IsNext, RightStream
  <2>2. cursor.snapshot = snapshots[cursor.open]
    BY <2>1 DEF IInv, CursorInv
  <2> QED
    BY <2>1, <2>2, <1>0, <1>1, <1>a, CursorFacts DEF CursorInv
<1>7. ViewInv'
  <2>1. Len(view) = LastEventSeq(cursor) /\ \A e \in 1 .. Len(view) : view[e] = e
    BY DEF IInv, ViewInv
  <2>2. Len(view') = f.eventSeq
    BY <2>1, <1>0, <1>3
  <2>3. ASSUME NEW e \in 1 .. Len(view') PROVE view'[e] = e
    <3>1. CASE e \in 1 .. Len(view)
      BY <3>1, <2>1, <1>3
    <3>2. CASE e = Len(view) + 1
      BY <3>2, <2>1, <1>0, <1>3
    <3> QED
      BY <3>1, <3>2, <1>3, CursorFacts
  <2> QED
    BY <2>2, <2>3, <1>a DEF ViewInv
<1>8. FinalInv'
  BY <1>0, <1>a DEF FinalInv
<1> QED
  BY <1>4, <1>5, <1>6, <1>7, <1>8 DEF IInv

\* A redelivered or refused frame changes nothing but the disposition.
LEMMA NotNewIInv ==
  ASSUME IInv, NEW f, AcceptRedelivery(f) \/ Refuse(f)
  PROVE  IInv'
  BY DEF AcceptRedelivery, Refuse, IInv, TypeOK, GrantsInv, CursorInv, ViewInv,
         FinalInv, LastEventSeq, LastSequence, IsFinal, NoCursor

\* No step, however late or repeated the frame it delivers, breaks it.
THEOREM SessionInvariant == Spec => []IInv
<1>1. IInv /\ [Next]_vars => IInv'
  <2> SUFFICES ASSUME IInv, [Next]_vars PROVE IInv'
    OBVIOUS
  <2>1. CASE UNCHANGED vars
    BY <2>1 DEF vars, IInv, TypeOK, GrantsInv, CursorInv, ViewInv, FinalInv,
                LastEventSeq, LastSequence, IsFinal, NoCursor
  <2>2. CASE \E terminal \in BOOLEAN : CommitEvent(terminal)
    BY <2>2, CommitEventIInv
  <2>3. CASE GrantOpen
    BY <2>3, GrantOpenIInv
  <2>4. CASE \E open \in 1 .. Len(snapshots) : Opened(open)
    BY <2>4, OpenedIInv
  <2>5. CASE \E open \in 1 .. Len(snapshots) : \E f \in Published(open) :
                Deliver(f)
    BY <2>5, AcceptNewIInv, NotNewIInv DEF Deliver
  <2> QED
    BY <2>1, <2>2, <2>3, <2>4, <2>5 DEF Next
<1> QED
  BY <1>1, InitIInv, PTL DEF Spec

\* Type correctness of the session: the cursor never holds a sequence, an event
\* number or a view outside the task (StreamFrameCursorV1.__post_init__).
THEOREM TypeCorrect == Spec => []TypeOK
<1>1. IInv => TypeOK
  BY DEF IInv
<1> QED
  BY <1>1, SessionInvariant, PTL

\* Whatever is lost, repeated, reordered or left over from an earlier open, the
\* caller is shown a prefix of the committed events (StreamFrameCursorV1.accept).
THEOREM PrefixShown == Spec => []ViewIsPrefix
<1>1. IInv => ViewIsPrefix
  BY DEF IInv, ViewInv, CursorInv, ViewIsPrefix
<1> QED
  BY <1>1, SessionInvariant, PTL

\* A caller that was told a frame is final has been shown the whole task.
THEOREM CompleteAtFinal == Spec => []FinalIsComplete
<1>1. IInv => FinalIsComplete
  BY DEF IInv, ViewInv, FinalInv, FinalIsComplete
<1> QED
  BY <1>1, SessionInvariant, PTL
=============================================================================
