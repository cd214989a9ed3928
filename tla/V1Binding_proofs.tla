--------------------------- MODULE V1Binding_proofs ---------------------------
(***************************************************************************)
(* For any number of calls, ids, tasks and deliveries, any clocks and any  *)
(* crashes: the inductive invariant of V1Binding and what follows from it. *)
(***************************************************************************)
EXTENDS V1Binding, TLAPS

-----------------------------------------------------------------------------
(* Times cut to whole seconds. *)

LEMMA SubType == Sub \in Nat \ {0}
BY TimesAssumption

LEMMA WireBounds ==
  ASSUME NEW t \in Int
  PROVE  Wire(t) \in Int /\ Wire(t) <= t /\ t < Wire(t) + Sub
BY SubType DEF Wire

LEMMA SmallMultiple ==
  ASSUME NEW m \in Int, m * Sub < Sub, -Sub < m * Sub
  PROVE  m = 0
<1>1. CASE m >= 1
  BY <1>1, SubType
<1>2. CASE m <= -1
  BY <1>2, SubType
<1> QED
  BY <1>1, <1>2

LEMMA WireShift ==
  ASSUME NEW t \in Int, NEW k \in Int
  PROVE  Wire(t + k * Sub) = Wire(t) + k * Sub
<1> DEFINE a == t \div Sub
           b == (t + k * Sub) \div Sub
<1>1. a \in Int /\ b \in Int /\ t + k * Sub \in Int
  BY SubType
<1>2. a * Sub <= t /\ t < a * Sub + Sub
  BY SubType
<1>3. b * Sub <= t + k * Sub /\ t + k * Sub < b * Sub + Sub
  BY SubType, <1>1, WireBounds DEF Wire
<1>4. (b - a - k) * Sub = b * Sub - a * Sub - k * Sub
  BY SubType, <1>1
<1>5. b - a - k = 0
  <2> HIDE DEF a, b
  <2>1. a * Sub \in Int /\ b * Sub \in Int /\ k * Sub \in Int
    BY <1>1, SubType
  <2>2. b * Sub - a * Sub - k * Sub < Sub /\ -Sub < b * Sub - a * Sub - k * Sub
    BY <1>2, <1>3, <2>1, SubType
  <2>3. b - a - k \in Int
    BY <1>1
  <2> QED
    BY <1>4, <2>2, <2>3, SmallMultiple
<1>6. b * Sub = a * Sub + k * Sub
  <2> HIDE DEF a, b
  <2>1. b = a + k
    BY <1>1, <1>5
  <2>2. (a + k) * Sub = a * Sub + k * Sub
    BY <1>1, SubType
  <2> QED
    BY <2>1, <2>2
<1> QED
  BY <1>6 DEF Wire
-----------------------------------------------------------------------------
LEMMA WireMonotone ==
  ASSUME NEW s \in Int, NEW t \in Int, s <= t
  PROVE  Wire(s) <= Wire(t)
<1> DEFINE a == s \div Sub
           b == t \div Sub
<1>1. a \in Int /\ b \in Int /\ a * Sub <= s /\ t < b * Sub + Sub
  BY SubType
<1> HIDE DEF a, b
<1>2. a <= b
  <2>1. SUFFICES ASSUME b + 1 <= a PROVE FALSE
    BY <1>1
  <2>2. (a - b - 1) * Sub >= 0
    BY <1>1, <2>1, SubType
  <2>3. (a - b - 1) * Sub = a * Sub - b * Sub - Sub
    BY <1>1, SubType
  <2> QED
    BY <1>1, <2>2, <2>3, SubType
<1>3. (b - a) * Sub >= 0 /\ (b - a) * Sub = b * Sub - a * Sub
  BY <1>1, <1>2, SubType
<1>4. a * Sub <= b * Sub
  BY <1>1, <1>3, SubType
<1> QED
  BY <1>4 DEF Wire, a, b

LEMMA InitInv == Init => IInv
<1> SUFFICES ASSUME Init PROVE IInv
  OBVIOUS
<1>1. NewCall \in Envelope /\ FreeTask \in TaskState /\ FreeCloser \in CloserState
  BY DEF NewCall, FreeTask, FreeCloser, Envelope, TaskState, CloserState
<1>2. TypeOK
  BY <1>1 DEF Init, TypeOK
<1>3. TaskInv
  BY NoneAssumption DEF Init, TaskInv, FreeTask
<1>4. ClaimInv /\ AwaitInv
  BY DEF Init, ClaimInv, AwaitInv, FreeTask, FreeCloser
<1>5. CallInv /\ AnswerIsTrue
  BY DEF Init, CallInv, AnswerIsTrue, NewCall
<1>6. ListenInv
  BY DEF Init, ListenInv, ClosedIsDeaf, FreeCloser
<1> QED
  BY <1>2, <1>3, <1>4, <1>5, <1>6 DEF IInv

-----------------------------------------------------------------------------
LEMMA TimeoutType == Timeouts \cup {0} \subseteq Nat
BY TimesAssumption

LEMMA RecordType ==
  ASSUME IInv, NEW c \in Calls
  PROVE  /\ Until(c) \in Int
         /\ Wire(Expires(c)) \in Int /\ Wire(Deadline(c)) \in Int
         /\ calls[c].id \in Ids => Record(c) \in [id : Ids, until : Int]
<1>1. \A t \in Int : Wire(t) \in Int
  BY TimesAssumption DEF Wire
<1>2. calls[c] \in Envelope
  BY DEF IInv, TypeOK
<1>3. calls[c].sent \in Int /\ calls[c].timeout \in Int /\ AuthTtl * Sub \in Int
  <2>1. calls[c].sent \in Nat /\ calls[c].timeout \in Nat
    BY <1>2, TimeoutType DEF Envelope
  <2>2. AuthTtl \in Nat /\ Sub \in Nat
    BY TimesAssumption
  <2>3. AuthTtl * Sub \in Int
    BY <2>2
  <2> QED
    BY <2>1, <2>3
<1>4. Deadline(c) \in Int /\ Expires(c) \in Int
  BY <1>3 DEF Deadline, Expires, Earlier
<1>5. Wire(Expires(c)) \in Int /\ Wire(Deadline(c)) \in Int
  BY <1>1, <1>4
<1>6. Until(c) \in Int
  BY <1>5 DEF Until, Earlier
<1> QED
  BY <1>5, <1>6 DEF Record

(* Records stay, and envelopes do not change with what becomes of their calls. *)
LEMMA ClaimKept ==
  ASSUME IInv,
         \A c \in Calls : calls[c].status # "new" =>
           /\ calls'[c].status # "new" /\ calls'[c].id = calls[c].id
           /\ calls'[c].sent = calls[c].sent /\ calls'[c].timeout = calls[c].timeout,
         claimed \subseteq claimed',
         \A c \in granted' :
           \/ c \in granted
           \/ c \in Calls /\ calls[c].status # "new" /\ Record(c) \in claimed',
         \A h \in Handlers : handler'[h].pc = "claim" => handler'[h] = handler[h]
  PROVE  ClaimInv'
<1> USE DEF IInv
<1>1. ASSUME NEW c \in granted' PROVE calls'[c].status # "new" /\ Record(c)' \in claimed'
  <2>1. c \in Calls /\ calls[c].status # "new" /\ Record(c) \in claimed'
    BY <1>1 DEF ClaimInv, TypeOK
  <2>2. Record(c)' = Record(c)
    BY <2>1 DEF Record, Until, Expires, Deadline, Earlier, Wire
  <2> QED
    BY <2>1, <2>2
<1>2. ASSUME NEW h \in Handlers, handler'[h].pc = "claim"
      PROVE  ~Lapsed(handler[h].call, handler[h].read)'
  <2>1. handler'[h] = handler[h] /\ handler[h].call \in Calls
        /\ calls[handler[h].call].status # "new"
    BY <1>2 DEF TaskInv
  <2>2. ~Lapsed(handler[h].call, handler[h].read)
    BY <1>2, <2>1 DEF ClaimInv
  <2> QED
    BY <2>1, <2>2 DEF Lapsed, Until, Expires, Deadline, Earlier, Wire
<1> QED
  BY <1>1, <1>2 DEF ClaimInv

(* A task that moves on, the guard or the application having acted or not. *)
LEMMA StepInv ==
  ASSUME IInv, NEW h \in Handlers, NEW pc, NEW reply,
         handler[h].pc \notin {"free", "cancelled"},
         Goes(h, pc, reply),
         pc \in {"dispatch", "run", "respond"}, reply \in {None, "payload", "error"},
         pc = "dispatch" => calls[handler[h].call].fit \in {"yes", "streaming"},
         pc = "run" => calls[handler[h].call].fit = "yes",
         reply = "payload" =>
           pc = "respond" /\ handler[h].call \in served' /\ calls[handler[h].call].fit = "yes",
         UNCHANGED <<clock, offset, calls, deliveries>>,
         claimed' = claimed \/ claimed' = claimed \cup {Record(handler[h].call)},
         \/ granted' = granted
         \/ granted' = granted \cup {handler[h].call} /\ Record(handler[h].call) \in claimed',
         served' = served \/ served' = served \cup {handler[h].call}
  PROVE  IInv'
<1> USE DEF IInv
<1>1. handler' = [handler EXCEPT ![h].pc = pc, ![h].reply = reply, ![h].read = 0]
      /\ UNCHANGED <<lifecycle, tasks, closer>>
  BY DEF Goes
<1>2. /\ handler'[h].pc = pc /\ handler'[h].reply = reply
      /\ handler'[h].call = handler[h].call
      /\ handler'[h] \in TaskState
      /\ \A g \in Handlers : g # h => handler'[g] = handler[g]
  <2>1. handler \in [Handlers -> TaskState]
    BY DEF TypeOK
  <2>2. handler'[h] = [handler[h] EXCEPT !.pc = pc, !.reply = reply, !.read = 0]
        /\ \A g \in Handlers : g # h => handler'[g] = handler[g]
    BY <1>1, <2>1
  <2>3. handler[h] \in TaskState
    BY <2>1
  <2>4. /\ handler'[h].pc = pc /\ handler'[h].reply = reply
        /\ handler'[h].call = handler[h].call /\ handler'[h].read = 0
        /\ handler'[h] = [pc |-> pc, call |-> handler[h].call, reply |-> reply, read |-> 0]
    BY <2>2, <2>3 DEF TaskState
  <2>5. handler'[h] \in TaskState
    BY <2>3, <2>4 DEF TaskState
  <2> QED
    BY <2>2, <2>4, <2>5
<1>3. handler[h].call \in Calls /\ calls[handler[h].call].status # "new"
      /\ calls[handler[h].call].id \in Ids
  BY DEF TaskInv, CallInv
<1>4. TypeOK'
  <2>1. handler' \in [Handlers -> TaskState]
    BY <1>1, <1>2 DEF TypeOK
  <2>2. claimed' \subseteq [id : Ids, until : Int]
    BY <1>3, RecordType DEF TypeOK
  <2> QED
    BY <1>1, <1>3, <2>1, <2>2 DEF TypeOK, lifecycle
<1>5. TaskInv'
  BY <1>2, <1>3 DEF TaskInv
<1>6. ClaimInv'
  BY <1>2, <1>3, ClaimKept
<1>7. AwaitInv'
  BY <1>1, <1>2 DEF AwaitInv, TypeOK, CloserState
<1>8. CallInv' /\ ListenInv' /\ AnswerIsTrue'
  BY <1>1 DEF CallInv, ListenInv, ClosedIsDeaf, AnswerIsTrue, lifecycle
<1> QED
  BY <1>4, <1>5, <1>6, <1>7, <1>8

(* A task that ends, an answer reaching its caller or not. *)
LEMMA OverInv ==
  ASSUME IInv, NEW h \in Handlers, Over(h),
         UNCHANGED <<clock, offset, history, deliveries>>,
         \/ UNCHANGED calls
         \/ /\ handler[h].pc = "respond"
            /\ Ends(handler[h].call, Heard(h))
  PROVE  IInv'
<1> USE DEF IInv
<1>1. handler' = [handler EXCEPT ![h] = FreeTask] /\ FreeTask \in TaskState
      /\ FreeTask.pc = "free" /\ FreeTask.reply = None
  BY DEF Over, FreeTask, TaskState
<1>2. \A c \in Calls : /\ calls'[c].id = calls[c].id /\ calls'[c].fit = calls[c].fit
                       /\ calls'[c].sent = calls[c].sent /\ calls'[c].timeout = calls[c].timeout
                       /\ calls[c].status = "new" <=> calls'[c].status = "new"
                       /\ calls'[c].status \in {calls[c].status, "error"}
                          \/ /\ calls'[c].status = "payload"
                             /\ c = handler[h].call /\ handler[h].reply = "payload"
  BY DEF Ends, Heard, TypeOK, Envelope
<1>3. calls' \in [Calls -> Envelope]
  BY DEF Ends, Heard, TypeOK, Envelope
<1>4. /\ \A k \in Closers : /\ closer'[k].pc = closer[k].pc
                            /\ closer'[k].target = closer[k].target
                            /\ closer'[k].awaited = closer[k].awaited \ {h}
      /\ closer' \in [Closers -> CloserState]
  BY DEF Over, TypeOK, CloserState
<1>5. TypeOK'
  BY <1>1, <1>3, <1>4 DEF TypeOK, Over, history, lifecycle
<1>6. TaskInv'
  BY <1>1, <1>2, NoneAssumption DEF TaskInv, TypeOK, history
<1>7. ClaimInv'
  <2>1. \A g \in Handlers : handler'[g].pc = "claim" => handler'[g] = handler[g]
    BY <1>1 DEF TypeOK
  <2> QED
    BY <1>2, <2>1, ClaimKept DEF history
<1>8. AwaitInv'
  BY <1>1, <1>4 DEF AwaitInv, TypeOK, CloserState
<1>9. CallInv' /\ ListenInv'
  BY <1>2, <1>3, <1>4 DEF CallInv, ListenInv, ClosedIsDeaf, Over, lifecycle
<1>10. AnswerIsTrue'
  BY <1>2 DEF AnswerIsTrue, TaskInv, history
<1> QED
  BY <1>5, <1>6, <1>7, <1>8, <1>9, <1>10

(* A step of start() or close(), or a crash: tasks go on, or are cut off. *)
LEMMA LifecycleInv ==
  ASSUME IInv, UNCHANGED idle,
         peer' \in {"NEW", "RUNNING", "CLOSED"},
         starting' \subseteq Subs, live' \subseteq Subs,
         subscription' \in Subs \cup {None}, overlapped' \in BOOLEAN,
         tasks' \subseteq Handlers,
         closer' \in [Closers -> CloserState],
         AwaitInv', ListenInv',
         handler' \in [Handlers -> TaskState],
         \A h \in Handlers :
           \/ handler'[h] = handler[h]
           \/ handler'[h].pc \in {"free", "cancelled"} /\ handler'[h].reply = None
  PROVE  IInv'
<1> USE DEF IInv
<1>1. TypeOK'
  BY DEF TypeOK, idle, history
<1>2. TaskInv'
  BY NoneAssumption DEF TaskInv, idle, history
<1>3. ClaimInv'
  BY ClaimKept DEF ClaimInv, idle, history
<1>4. CallInv' /\ AnswerIsTrue'
  BY DEF CallInv, AnswerIsTrue, idle, history
<1> QED
  BY <1>1, <1>2, <1>3, <1>4

-----------------------------------------------------------------------------
(* Of start() and close() only the listening and the waiting are at stake. *)

LEMMA StartInv ==
  ASSUME IInv, NEW s \in Subs, Start(s) \/ Subscribed(s) \/ SubscribeFails(s)
  PROVE  IInv'
<1> USE DEF IInv
<1>1. UNCHANGED <<idle, tasks, handler, closer>>
  BY DEF Start, Subscribed, SubscribeFails
<1>2. /\ peer' \in {"NEW", "RUNNING", "CLOSED"}
      /\ starting' \subseteq Subs /\ live' \subseteq Subs
      /\ subscription' \in Subs \cup {None} /\ overlapped' \in BOOLEAN
  BY DEF Start, Subscribed, SubscribeFails, TypeOK
<1>3. AwaitInv'
  BY <1>1 DEF AwaitInv
<1>4. ListenInv'
  <2>1. CASE Start(s)
    BY <1>1, <2>1 DEF Start, ListenInv, ClosedIsDeaf, TypeOK
  <2>2. CASE Subscribed(s)
    BY <1>1, <2>2 DEF Subscribed, ListenInv, ClosedIsDeaf, TypeOK
  <2>3. CASE SubscribeFails(s)
    BY <1>1, <2>3 DEF SubscribeFails, ListenInv, ClosedIsDeaf, TypeOK
  <2> QED
    BY <2>1, <2>2, <2>3
<1> QED
  BY <1>1, <1>2, <1>3, <1>4, LifecycleInv DEF TypeOK

(* What close() does once its tasks are gone. *)
LEMMA AfterTasksInv ==
  ASSUME IInv, NEW k \in Closers, AfterTasks(k),
         UNCHANGED <<starting, live, subscription, overlapped, handler>>
  PROVE  /\ closer' \in [Closers -> CloserState]
         /\ peer' \in {"NEW", "RUNNING", "CLOSED"}
         /\ AwaitInv' /\ ListenInv'
<1> USE DEF IInv
<1>1. CASE subscription = None
  <2>1. closer' = [closer EXCEPT ![k] = FreeCloser] /\ peer' = "CLOSED"
    BY <1>1 DEF AfterTasks
  <2>2. closer' \in [Closers -> CloserState]
    BY <2>1 DEF FreeCloser, CloserState, TypeOK
  <2>3. AwaitInv'
    BY <2>1 DEF AwaitInv, FreeCloser, TypeOK
  <2>4. ~overlapped => live = {}
    <3>1. \A x \in Subs : x # None
      BY NoneAssumption DEF Subs
    <3> QED
      BY <1>1, <3>1 DEF ListenInv, TypeOK
  <2>5. \A j \in Closers : closer'[j].pc = "unsubscribe" => j # k /\ closer'[j] = closer[j]
    BY <2>1 DEF FreeCloser, TypeOK
  <2>6. ListenInv'
    BY <2>1, <2>4, <2>5 DEF ListenInv, ClosedIsDeaf
  <2> QED
    BY <2>1, <2>2, <2>3, <2>6
<1>2. CASE subscription # None
  <2> DEFINE new == [pc |-> "unsubscribe", awaited |-> {}, target |-> subscription]
  <2>1. closer' = [closer EXCEPT ![k] = new] /\ peer' = peer
    BY <1>2 DEF AfterTasks
  <2>2. closer' \in [Closers -> CloserState]
    BY <2>1 DEF CloserState, TypeOK
  <2>3. AwaitInv'
    BY <2>1 DEF AwaitInv, TypeOK
  <2>4. \A j \in Closers : IF j = k THEN closer'[j].target = subscription
                                    ELSE closer'[j] = closer[j]
    BY <2>1 DEF TypeOK
  <2>5. ListenInv'
    BY <1>2, <2>1, <2>4 DEF ListenInv, ClosedIsDeaf
  <2> QED
    BY <2>1, <2>2, <2>3, <2>5 DEF TypeOK
<1> QED
  BY <1>1, <1>2

LEMMA CloseInv ==
  ASSUME IInv, NEW k \in Closers, Close(k) \/ Gathered(k) \/ Unsubscribed(k)
  PROVE  IInv'
<1> USE DEF IInv
<1>1. CASE (Close(k) /\ tasks = {}) \/ Gathered(k)
  <2>1. /\ AfterTasks(k)
        /\ UNCHANGED <<starting, live, subscription, overlapped, handler, idle>>
        /\ tasks' \subseteq Handlers
    BY <1>1 DEF Close, Gathered, TypeOK
  <2> QED
    BY <2>1, AfterTasksInv, LifecycleInv DEF TypeOK
<1>2. CASE Close(k) /\ tasks # {}
  <2> DEFINE cut == [FreeTask EXCEPT !.pc = "cancelled"]
             new == [pc |-> "gather", awaited |-> tasks, target |-> None]
  <2>1. /\ handler' = [h \in Handlers |-> IF h \in tasks THEN cut ELSE handler[h]]
        /\ closer' = [closer EXCEPT ![k] = new]
        /\ UNCHANGED <<peer, starting, live, subscription, overlapped, tasks, idle>>
    BY <1>2 DEF Close
  <2>2. cut \in TaskState /\ cut.pc = "cancelled" /\ cut.reply = None
    BY DEF FreeTask, TaskState
  <2> HIDE DEF cut
  <2>3. handler' \in [Handlers -> TaskState]
    BY <2>1, <2>2 DEF TypeOK
  <2>4. \A h \in Handlers :
           \/ handler'[h] = handler[h]
           \/ handler'[h].pc \in {"free", "cancelled"} /\ handler'[h].reply = None
    BY <2>1, <2>2
  <2>5. closer' \in [Closers -> CloserState]
    BY <2>1 DEF TypeOK, CloserState
  <2>6. AwaitInv'
    <3>1. \A h \in tasks : h \in Handlers /\ handler'[h].pc = "cancelled"
      BY <2>1, <2>2 DEF TypeOK
    <3>2. \A h \in Handlers : handler[h].pc = "cancelled" => handler'[h].pc = "cancelled"
      BY <2>1, <2>2
    <3>3. \A j \in Closers : closer'[j].awaited = IF j = k THEN tasks ELSE closer[j].awaited
      BY <2>1 DEF TypeOK
    <3>4. \A j \in Closers : closer[j].awaited \subseteq Handlers
      BY DEF TypeOK, CloserState
    <3> QED
      BY <3>1, <3>2, <3>3, <3>4 DEF AwaitInv
  <2>7. ListenInv'
    <3>1. \A j \in Closers : closer'[j].pc = "unsubscribe" => closer'[j] = closer[j]
      BY <2>1 DEF TypeOK
    <3> QED
      BY <2>1, <3>1 DEF ListenInv, ClosedIsDeaf
  <2> QED
    BY <2>1, <2>3, <2>4, <2>5, <2>6, <2>7, LifecycleInv DEF TypeOK
<1>3. CASE Unsubscribed(k)
  <2>1. /\ closer' = [closer EXCEPT ![k] = FreeCloser] /\ closer[k].pc = "unsubscribe"
        /\ UNCHANGED <<starting, overlapped, tasks, handler, idle>>
        /\ \/ /\ live' = live \ {closer[k].target}
              /\ subscription' = None /\ peer' = "CLOSED"
           \/ UNCHANGED <<live, subscription, peer>>
    BY <1>3 DEF Unsubscribed
  <2>2. closer' \in [Closers -> CloserState]
    BY <2>1 DEF FreeCloser, CloserState, TypeOK
  <2>3. AwaitInv'
    BY <2>1 DEF AwaitInv, FreeCloser, TypeOK
  <2>4. \A j \in Closers : closer'[j].pc = "unsubscribe" => closer'[j] = closer[j]
    BY <2>1 DEF FreeCloser, TypeOK
  <2>5. ~overlapped /\ live' # live => live' = {}
    BY <2>1 DEF ListenInv
  <2>6. ListenInv'
    BY <2>1, <2>4, <2>5 DEF ListenInv, ClosedIsDeaf
  <2> QED
    BY <2>1, <2>2, <2>3, <2>6, LifecycleInv DEF TypeOK
<1> QED
  BY <1>1, <1>2, <1>3

LEMMA CrashInv == IInv /\ Crash => IInv'
<1> SUFFICES ASSUME IInv, Crash PROVE IInv'
  OBVIOUS
<1>1. FreeTask \in TaskState /\ FreeTask.pc = "free" /\ FreeTask.reply = None
  BY DEF FreeTask, TaskState
<1>2. FreeCloser \in CloserState /\ FreeCloser.pc = "no" /\ FreeCloser.awaited = {}
  BY DEF FreeCloser, CloserState
<1>3. AwaitInv' /\ ListenInv'
  BY <1>2 DEF Crash, AwaitInv, ListenInv, ClosedIsDeaf
<1> QED
  BY <1>1, <1>2, <1>3, LifecycleInv DEF Crash

-----------------------------------------------------------------------------
(* What is let through to the guard had not lapsed when the clock was read. *)
LEMMA VerifyInv ==
  ASSUME IInv, NEW h \in Handlers, Verify(h)
  PROVE  IInv'
<1> USE DEF IInv
<1> DEFINE c == handler[h].call
<1>1. handler[h].pc = "resolve" /\ UNCHANGED <<clock, offset, calls, history, deliveries>>
  BY DEF Verify
<1>2. c \in Calls /\ calls[c].status # "new"
  BY <1>1 DEF TaskInv
<1>3. CASE ~(calls[c].fit \in {"yes", "streaming"} /\ InTime(c))
  <2>1. Goes(h, "respond", "error")
    BY <1>3 DEF Verify
  <2> QED
    BY <1>1, <2>1, NoneAssumption, StepInv DEF history
<1>4. CASE calls[c].fit \in {"yes", "streaming"} /\ InTime(c)
  <2>1. /\ handler' = [handler EXCEPT ![h].pc = "claim", ![h].read = PeerNow]
        /\ UNCHANGED <<lifecycle, tasks, closer>>
    BY <1>4 DEF Verify
  <2>2. PeerNow \in Int
    BY TimesAssumption DEF PeerNow, TypeOK
  <2>3. /\ handler'[h].pc = "claim" /\ handler'[h].read = PeerNow
        /\ handler'[h].call = c /\ handler'[h].reply = handler[h].reply
        /\ handler'[h] \in TaskState
        /\ \A g \in Handlers : g # h => handler'[g] = handler[g]
    BY <2>1, <2>2 DEF TypeOK, TaskState
  <2>4. TypeOK'
    <3>1. handler' \in [Handlers -> TaskState]
      BY <2>1, <2>3 DEF TypeOK
    <3> QED
      BY <1>1, <2>1, <3>1 DEF TypeOK, lifecycle, history
  <2>5. TaskInv'
    BY <1>1, <1>2, <1>4, <2>3 DEF TaskInv, history
  <2>6. ClaimInv'
    <3>1. ~(Until(c) <= PeerNow - Skew * Sub)
      <4>1. Wire(Expires(c)) > PeerNow - Skew * Sub /\ Wire(Deadline(c)) > PeerNow - Skew * Sub
        BY <1>4 DEF InTime
      <4>2. Wire(Expires(c)) \in Int /\ Wire(Deadline(c)) \in Int
        BY <1>2, RecordType
      <4>3. PeerNow - Skew * Sub \in Int
        <5>1. Skew * Sub \in Int
          BY TimesAssumption
        <5> QED
          BY <2>2, <5>1
      <4> HIDE DEF c
      <4> QED
        BY <4>1, <4>2, <4>3 DEF Until, Earlier
    <3>2. \A d \in granted' : calls'[d].status # "new" /\ Record(d)' \in claimed'
      BY <1>1 DEF ClaimInv, history, Record, Until, Expires, Deadline, Earlier, Wire
    <3>3. ASSUME NEW g \in Handlers, handler'[g].pc = "claim"
          PROVE  ~Lapsed(handler[g].call, handler[g].read)'
      <4>1. CASE g = h
        BY <1>1, <2>3, <3>1, <4>1 DEF Lapsed, Until, Expires, Deadline, Earlier, Wire
      <4>2. CASE g # h
        BY <1>1, <2>3, <3>3, <4>2
          DEF ClaimInv, Lapsed, Until, Expires, Deadline, Earlier, Wire
      <4> QED
        BY <4>1, <4>2
    <3> QED
      BY <3>2, <3>3 DEF ClaimInv
  <2>7. AwaitInv'
    BY <1>1, <2>1, <2>3 DEF AwaitInv, TypeOK, CloserState
  <2>8. CallInv' /\ ListenInv' /\ AnswerIsTrue'
    BY <1>1, <2>1 DEF CallInv, ListenInv, ClosedIsDeaf, AnswerIsTrue, lifecycle, history
  <2> QED
    BY <2>4, <2>5, <2>6, <2>7, <2>8
<1> QED
  BY <1>3, <1>4

LEMMA NextInv == IInv /\ [Next]_vars => IInv'
<1> SUFFICES ASSUME IInv, [Next]_vars PROVE IInv'
  OBVIOUS
<1> USE DEF IInv
<1>1. CASE Tick
  <2>1. TypeOK'
    BY <1>1 DEF Tick, TypeOK, server, lifecycle, history
  <2>2. \A c \in Calls : calls[c].sent \in Nat
    BY DEF TypeOK, Envelope
  <2>3. CallInv'
    BY <1>1, <2>2 DEF Tick, CallInv, TypeOK
  <2>4. TaskInv' /\ AnswerIsTrue'
    BY <1>1 DEF Tick, server, history, TaskInv, AnswerIsTrue
  <2>5. ClaimInv'
    BY <1>1, ClaimKept DEF Tick, server, history
  <2>6. AwaitInv' /\ ListenInv'
    BY <1>1 DEF Tick, server, lifecycle, AwaitInv, ListenInv, ClosedIsDeaf
  <2> QED
    BY <2>1, <2>3, <2>4, <2>5, <2>6
<1>2. ASSUME NEW c \in Calls, NEW id \in Ids, NEW timeout \in Timeouts, NEW fit \in Fits,
             Request(c, id, timeout, fit)
      PROVE  IInv'
  <2>1. \A d \in Calls : d # c => calls'[d] = calls[d]
    BY <1>2 DEF Request, TypeOK
  <2>2. calls[c].status = "new" /\ calls'[c].status = "waiting"
      /\ calls'[c] \in Envelope /\ calls'[c].id = id
      /\ calls'[c].sent = clock /\ calls'[c].timeout = timeout /\ Sub <= timeout
    BY <1>2 DEF Request, TypeOK, Envelope
  <2>3. TypeOK'
    BY <1>2, <2>2 DEF Request, TypeOK, server, lifecycle, history
  <2>4. TaskInv'
    BY <1>2, <2>1, <2>2 DEF Request, TaskInv, server, history
  <2>5. ClaimInv'
    BY <1>2, <2>1, <2>2, ClaimKept DEF Request, server, history
  <2>6. AnswerIsTrue'
    BY <1>2, <2>1, <2>2 DEF Request, AnswerIsTrue, server, history
  <2>7. CallInv'
    <3>1. clock' = clock /\ clock \in Nat
      BY <1>2 DEF Request, TypeOK
    <3> QED
      BY <2>1, <2>2, <3>1 DEF CallInv
  <2>8. AwaitInv' /\ ListenInv'
    BY <1>2 DEF Request, server, lifecycle, AwaitInv, ListenInv, ClosedIsDeaf
  <2> QED
    BY <2>3, <2>4, <2>5, <2>6, <2>7, <2>8
<1>3. ASSUME NEW c \in Calls, TimeOut(c) \/ Disconnect(c) PROVE IInv'
  <2>1. /\ calls' = [calls EXCEPT ![c].status = "error"] /\ calls[c].status = "waiting"
        /\ UNCHANGED <<clock, offset, server, history, deliveries>>
    BY <1>3 DEF TimeOut, Disconnect, Ends
  <2>2. TypeOK'
    BY <2>1 DEF TypeOK, Envelope, server, lifecycle, history
  <2>3. \A d \in Calls : /\ calls'[d].id = calls[d].id /\ calls'[d].fit = calls[d].fit
                         /\ calls'[d].sent = calls[d].sent
                         /\ calls'[d].timeout = calls[d].timeout
                         /\ calls[d].status = "new" <=> calls'[d].status = "new"
                         /\ calls'[d].status \in {calls[d].status, "error"}
    BY <2>1 DEF TypeOK, Envelope
  <2>4. TaskInv'
    BY <2>1, <2>3 DEF TaskInv, server, history
  <2>5. ClaimInv'
    BY <2>1, <2>3, ClaimKept DEF server, history
  <2>6. CallInv' /\ AnswerIsTrue'
    BY <2>1, <2>3 DEF AnswerIsTrue, CallInv, server, history
  <2>7. AwaitInv' /\ ListenInv'
    BY <2>1 DEF server, lifecycle, AwaitInv, ListenInv, ClosedIsDeaf
  <2> QED
    BY <2>2, <2>4, <2>5, <2>6, <2>7
<1>4. ASSUME NEW c \in Calls, Deliver(c) PROVE IInv'
  <2> DEFINE new == [pc |-> "resolve", call |-> c, reply |-> None, read |-> 0]
  <2>1. PICK h \in Handlers : /\ handler[h].pc = "free"
                              /\ handler' = [handler EXCEPT ![h] = new]
                              /\ tasks' = tasks \cup {h}
    BY <1>4 DEF Deliver
  <2>2. calls[c].status # "new"
        /\ UNCHANGED <<clock, offset, calls, lifecycle, closer, history>>
        /\ deliveries' = deliveries + 1
    BY <1>4 DEF Deliver
  <2>3. new \in TaskState /\ new.pc = "resolve" /\ new.call = c /\ new.reply = None
    BY DEF TaskState
  <2> HIDE DEF new
  <2>4. \A g \in Handlers : handler'[g] = IF g = h THEN new ELSE handler[g]
    BY <2>1 DEF TypeOK
  <2>5. TypeOK'
    BY <2>1, <2>2, <2>3 DEF TypeOK, lifecycle, history
  <2>6. TaskInv'
    BY <2>2, <2>3, <2>4, NoneAssumption DEF TaskInv, history
  <2>7. ClaimInv'
    BY <2>2, <2>3, <2>4, ClaimKept DEF history
  <2>8. AwaitInv'
    BY <2>1, <2>2, <2>4 DEF AwaitInv, TypeOK, CloserState
  <2>9. CallInv' /\ ListenInv' /\ AnswerIsTrue'
    BY <2>2 DEF CallInv, ListenInv, ClosedIsDeaf, AnswerIsTrue, lifecycle, history
  <2> QED
    BY <2>5, <2>6, <2>7, <2>8, <2>9
<1>5. ASSUME NEW h \in Handlers, Drop(h) \/ RespondLost(h) \/ Cancelled(h) PROVE IInv'
  BY <1>5, OverInv DEF Drop, RespondLost, Cancelled
<1>6. ASSUME NEW h \in Handlers, Respond(h) PROVE IInv'
  BY <1>6, OverInv DEF Respond
<1>7. ASSUME NEW h \in Handlers, ResolveFails(h) \/ Raises(h) \/ RespondFails(h) PROVE IInv'
  BY <1>7, StepInv DEF ResolveFails, Raises, RespondFails, history
<1>8. ASSUME NEW h \in Handlers, ClaimFails(h) PROVE IInv'
  BY <1>8, StepInv DEF ClaimFails
<1>9. ASSUME NEW h \in Handlers, Claim(h) PROVE IInv'
  <2>1. CASE ~Fresh(handler[h].call)
    BY <1>9, <2>1, StepInv DEF Claim
  <2>2. CASE Fresh(handler[h].call)
    <3>1. /\ handler[h].pc = "claim" /\ claimed' = claimed \cup {Record(handler[h].call)}
          /\ granted' = granted \cup {handler[h].call}
          /\ Goes(h, "dispatch", None)
          /\ UNCHANGED <<clock, offset, calls, served, deliveries>>
      BY <1>9, <2>2 DEF Claim
    <3>2. calls[handler[h].call].fit \in {"yes", "streaming"}
      BY <3>1 DEF TaskInv
    <3> QED
      BY <3>1, <3>2, NoneAssumption, StepInv
  <2> QED
    BY <2>1, <2>2
<1>10. ASSUME NEW h \in Handlers, Dispatch(h) PROVE IInv'
  <2>1. CASE calls[handler[h].call].fit = "streaming"
    BY <1>10, <2>1, StepInv DEF Dispatch, history
  <2>2. CASE calls[handler[h].call].fit # "streaming"
    <3>1. calls[handler[h].call].fit = "yes"
      BY <1>10, <2>2 DEF Dispatch, TaskInv
    <3> QED
      BY <1>10, <2>2, <3>1, NoneAssumption, StepInv DEF Dispatch, history
  <2> QED
    BY <2>1, <2>2
<1>11. ASSUME NEW h \in Handlers, Returns(h) PROVE IInv'
  <2>1. calls[handler[h].call].fit = "yes"
    BY <1>11 DEF Returns, TaskInv
  <2> QED
    BY <1>11, <2>1, StepInv DEF Returns
<1>12. CASE UNCHANGED vars
  <2>1. TypeOK' /\ CallInv' /\ TaskInv'
    BY <1>12 DEF vars, server, lifecycle, history, TypeOK, CallInv, TaskInv
  <2>2. ClaimInv'
    BY <1>12, ClaimKept DEF vars, server, history
  <2>3. AwaitInv' /\ ListenInv' /\ AnswerIsTrue'
    BY <1>12 DEF vars, server, lifecycle, history, AwaitInv, ListenInv, ClosedIsDeaf, AnswerIsTrue
  <2> QED
    BY <2>1, <2>2, <2>3
<1>13. CASE Caller
  BY <1>2, <1>3, <1>4, <1>13 DEF Caller
<1>14. CASE Task
  BY <1>5, <1>6, <1>7, <1>8, <1>9, <1>10, <1>11, <1>14, VerifyInv DEF Task
<1>15. CASE Lifecycle
  BY <1>15, StartInv, CloseInv, CrashInv DEF Lifecycle
<1> QED
  BY <1>1, <1>12, <1>13, <1>14, <1>15 DEF Next

(* The invariant holds of every reachable state of callers and peer.         *)
THEOREM Invariance == Spec => []IInv
BY InitInv, NextInv, PTL DEF Spec

(* A claim that the guard answers in time is granted only if its envelope was *)
(* not granted before, and no other envelope with its id, once granted, would *)
(* still be accepted: duplicates, retries under the same id, clock skew,      *)
(* close() and crashes notwithstanding, for any retention of the guard.       *)
THEOREM PromptGrants == Spec => GrantedOnce
<1> DEFINE Step ==
      \A h \in Handlers :
        LET c == handler[h].call IN
        Claim(h) /\ handler'[h].pc = "dispatch" /\ Prompt(h) =>
          /\ c \notin granted
          /\ \A d \in granted :
               calls[d].id = calls[c].id => Lapsed(d, handler[h].read)
<1>1. IInv /\ [Next]_vars => [Step]_vars
  <2> SUFFICES ASSUME IInv, NEW h \in Handlers,
                      Claim(h), handler'[h].pc = "dispatch", Prompt(h)
               PROVE  /\ handler[h].call \notin granted
                      /\ \A d \in granted :
                           calls[d].id = calls[handler[h].call].id =>
                             Lapsed(d, handler[h].read)
    OBVIOUS
  <2>1. handler \in [Handlers -> TaskState] /\ handler[h].read \in Int
    BY DEF IInv, TypeOK, TaskState
  <2>2. Fresh(handler[h].call)
    <3>1. Goes(h, "respond", "error") => handler'[h].pc = "respond"
      BY <2>1 DEF Goes, TaskState
    <3> QED
      BY <3>1 DEF Claim
  <2>3. ASSUME NEW d \in granted, calls[d].id = calls[handler[h].call].id
        PROVE  Lapsed(d, handler[h].read)
    <3>1. d \in Calls /\ Record(d) \in claimed /\ Until(d) \in Int
      BY RecordType DEF IInv, ClaimInv, TypeOK
    <3>2. Until(d) + Retention * Sub <= GuardNow
      BY <2>2, <2>3, <3>1 DEF Fresh, Record
    <3> DEFINE R == Retention * Sub
               K == Skew * Sub
    <3>3. R \in Int /\ K \in Int /\ (Retention - Skew) * Sub = R - K
      BY TimesAssumption
    <3>4. GuardNow \in Int
      BY TimesAssumption DEF GuardNow, IInv, TypeOK
    <3>5. GuardNow - handler[h].read <= R - K
      BY <3>3 DEF Prompt
    <3>6. Until(d) + R <= GuardNow
      BY <3>2
    <3> HIDE DEF R, K
    <3>7. Until(d) <= handler[h].read - K
      BY <2>1, <3>1, <3>3, <3>4, <3>5, <3>6
    <3> QED
      BY <3>7 DEF Lapsed, K
  <2>4. ~Lapsed(handler[h].call, handler[h].read)
    BY DEF Claim, IInv, ClaimInv
  <2> QED
    BY <2>3, <2>4
<1> QED
  BY <1>1, Invariance, PTL DEF Spec, GrantedOnce

(* A payload returned to a caller is the application's result for that call. *)
THEOREM TrueAnswers == Spec => []AnswerIsTrue
<1>1. IInv => AnswerIsTrue
  BY DEF IInv
<1> QED
  BY <1>1, Invariance, PTL

(* A proper envelope is refused for its times at most a second early when    *)
(* the clocks are within the skew, and is never unreadable.                  *)
LEMMA Timely ==
  ASSUME IInv, NEW c \in Calls, calls[c].status # "new"
  PROVE  /\ ~Readable(c) => calls[c].fit = "misdirected"
         /\ /\ ~InTime(c)
            /\ offset <= Skew * Sub /\ -(Skew * Sub) <= offset
            => clock + Sub > Expires(c)
<1> DEFINE S == calls[c].sent
           D == Deadline(c)
           E == Expires(c)
           K == Skew * Sub
           A == AuthTtl * Sub
           L == Lifetime * Sub
<1>1. S \in Nat /\ calls[c].timeout \in Nat /\ S <= clock /\ Sub <= calls[c].timeout
  <2>1. calls[c] \in Envelope
    BY DEF IInv, TypeOK
  <2>2. calls[c].sent \in Nat /\ calls[c].timeout \in Nat
    BY <2>1, TimeoutType DEF Envelope
  <2> QED
    BY <2>2 DEF IInv, CallInv
<1>2. clock \in Nat /\ offset \in Int /\ Sub \in Nat /\ Sub > 0
  BY TimesAssumption DEF IInv, TypeOK
<1>3. K \in Int /\ A \in Int /\ L \in Int /\ Sub <= A /\ A <= L
  <2>1. AuthTtl \in Nat /\ Lifetime \in Nat /\ Skew \in Nat /\ 1 <= AuthTtl /\ AuthTtl <= Lifetime
    BY TimesAssumption
  <2>2. (AuthTtl - 1) * Sub >= 0 /\ (Lifetime - AuthTtl) * Sub >= 0
    BY <1>2, <2>1
  <2>3. (AuthTtl - 1) * Sub = A - Sub /\ (Lifetime - AuthTtl) * Sub = L - A
    BY <1>2, <2>1
  <2> QED
    BY <1>2, <2>1, <2>2, <2>3
<1>4. D \in Int /\ E \in Int /\ S + Sub <= D /\ S + Sub <= E /\ E <= D /\ E <= S + A
  <2> HIDE DEF A
  <2>1. D = S + calls[c].timeout /\ E = IF S + A <= D THEN S + A ELSE D
    BY DEF Deadline, Expires, Earlier, A
  <2> HIDE DEF S, D, E
  <2> QED
    BY <1>1, <1>2, <1>3, <2>1
<1>5. /\ Wire(S) \in Int /\ Wire(S) <= S /\ S < Wire(S) + Sub
      /\ Wire(D) \in Int /\ Wire(D) <= D /\ D < Wire(D) + Sub
      /\ Wire(E) \in Int /\ Wire(E) <= E /\ E < Wire(E) + Sub
  BY <1>1, <1>4, WireBounds
<1>6. Wire(E) - Wire(S) <= L
  <2>1. Wire(S + A) = Wire(S) + A
    BY <1>1, TimesAssumption, WireShift
  <2>2. Wire(E) <= Wire(S + A)
    BY <1>1, <1>3, <1>4, WireMonotone
  <2> QED
    BY <1>3, <1>5, <2>1, <2>2
<1>7. ~Readable(c) => calls[c].fit = "misdirected"
  <2>1. Wire(S) < Wire(D) /\ Wire(S) < Wire(E)
    <3> HIDE DEF S, D, E
    <3> QED
      BY <1>1, <1>2, <1>4, <1>5
  <2> QED
    BY <2>1 DEF Readable
<1>8. ASSUME ~InTime(c), offset <= K, -K <= offset
      PROVE  clock + Sub > E
  <2>1. \/ ~(Wire(S) <= PeerNow + K)
        \/ ~(Wire(E) > PeerNow - K)
        \/ ~(Wire(D) > PeerNow - K)
    BY <1>6, <1>8, Zenon DEF InTime
  <2>2. PeerNow = clock + offset
    BY DEF PeerNow
  <2> HIDE DEF S, D, E, K
  <2> QED
    BY <1>1, <1>2, <1>3, <1>4, <1>5, <1>8, <2>1, <2>2
<1> QED
  BY <1>7, <1>8

(* With clocks within the skew, no proper envelope is refused for its times  *)
(* more than a second before it expires, whatever the fractions of a second. *)
THEOREM TimelyAccepted == Spec => NoTimelyRefusal
<1> DEFINE Step ==
      \A h \in Handlers :
        LET c == handler[h].call IN
        /\ Drop(h) => calls[c].fit = "misdirected"
        /\ /\ Verify(h) /\ handler'[h].pc = "respond"
           /\ calls[c].fit \in {"yes", "streaming"}
           /\ offset <= Skew * Sub /\ -(Skew * Sub) <= offset
           => clock + Sub > Expires(c)
<1>1. IInv /\ [Next]_vars => [Step]_vars
  <2> SUFFICES ASSUME IInv, NEW h \in Handlers
               PROVE  LET c == handler[h].call IN
                      /\ Drop(h) => calls[c].fit = "misdirected"
                      /\ /\ Verify(h) /\ handler'[h].pc = "respond"
                         /\ calls[c].fit \in {"yes", "streaming"}
                         /\ offset <= Skew * Sub /\ -(Skew * Sub) <= offset
                         => clock + Sub > Expires(c)
    OBVIOUS
  <2> DEFINE c == handler[h].call
  <2>1. handler[h].pc = "resolve" => c \in Calls /\ calls[c].status # "new"
    BY DEF IInv, TaskInv
  <2>2. Drop(h) => calls[c].fit = "misdirected"
    BY <2>1, Timely DEF Drop
  <2>3. ASSUME Verify(h), handler'[h].pc = "respond", calls[c].fit \in {"yes", "streaming"}
        PROVE  ~InTime(c)
    <3>1. handler \in [Handlers -> TaskState]
      BY DEF IInv, TypeOK
    <3>2. handler' = [handler EXCEPT ![h].pc = "claim", ![h].read = PeerNow]
            => handler'[h].pc = "claim"
      BY <3>1 DEF TaskState
    <3> QED
      BY <2>3, <3>2 DEF Verify
  <2>4. Verify(h) => handler[h].pc = "resolve"
    BY DEF Verify
  <2> QED
    BY <2>1, <2>2, <2>3, <2>4, Timely
<1> QED
  BY <1>1, Invariance, PTL DEF Spec, NoTimelyRefusal

(* However start(), close() and their failures overlap, short of two start() *)
(* calls at once, a peer that says CLOSED and starts nothing has no          *)
(* subscription left at the broker.                                          *)
THEOREM DeafAfterClose == Spec => []ClosedIsDeaf
<1>1. IInv => ClosedIsDeaf
  BY DEF IInv, ListenInv, ClosedIsDeaf
<1> QED
  BY <1>1, Invariance, PTL

(* The safety half of CloseEnds: close() never waits for a task it has not   *)
(* cancelled, such as one that was delivered while it waited.                *)
THEOREM WaitsForCancelled == Spec => []AwaitInv
<1>1. IInv => AwaitInv
  BY DEF IInv
<1> QED
  BY <1>1, Invariance, PTL
=============================================================================
