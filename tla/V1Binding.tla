------------------------------ MODULE V1Binding ------------------------------
(***************************************************************************)
(* The signed A2A v1 unary binding over NATS: callers of                   *)
(* V1NatsClient.request, one peer process (V1PeerRuntime, V1NatsServer,    *)
(* BindingAuthVerifier, dispatch_unary), and between them a network that   *)
(* loses, delays and repeats.                                              *)
(*                                                                         *)
(* A request is a signed envelope with its own reply inbox, a request id   *)
(* that a caller may choose, and times the wire carries in whole seconds.  *)
(* The peer starts one task per delivery.  The task asks who the caller    *)
(* is, compares the envelope with it and with the peer's own clock, claims *)
(* the request id from the durable replay guard, runs the application and  *)
(* answers.  close() cancels the tasks it finds, waits for them and only   *)
(* then unsubscribes.  start() and close() may be called again while one   *)
(* of them waits.  A crash loses everything the process keeps.             *)
(*                                                                         *)
(* Signature, policy, identity and subject are compared with one answer:   *)
(* the envelope fits or it does not (Fits).  The application, the replay   *)
(* guard and the broker are external.  The guard is told when the envelope *)
(* expires; it keeps a claim, by its own clock, for Retention beyond that. *)
(***************************************************************************)
EXTENDS Integers, FiniteSets

CONSTANTS
  NCalls,               \* calls of request(), numbered as they are made
  Ids,                  \* request ids
  NHandlers,            \* tasks the peer runs at once
  NStarts,              \* start() calls and subscriptions there may be at once
  NCloses,              \* close() calls under way at once
  Sub,                  \* ticks in a second
  Timeouts,             \* the timeouts callers ask for, in ticks
  AuthTtl,              \* auth_ttl_seconds
  Skew,                 \* clock_skew_seconds
  Lifetime,             \* max_auth_lifetime_seconds
  Offsets,              \* by how much the peer's clock may be ahead, in ticks
  GuardOffset,          \* by how much the replay guard's clock is ahead, in ticks
  Retention,            \* for how many seconds past expires_at the guard keeps a claim
  Fits,                 \* what may be wrong with an envelope
  MaxClock,             \* bounds of the model: time,
  MaxDeliveries,        \* deliveries of envelopes,
  MaxLoad,              \* calls, envelopes with something wrong, deliveries,
                        \*   subscriptions, close() calls and an overlap of start() calls
  None

ASSUME TimesAssumption ==
  /\ Timeouts \subseteq Nat /\ Offsets \subseteq Int
  /\ GuardOffset \in Int
  /\ Sub \in Nat \ {0} /\ Skew \in Nat /\ Retention \in Nat
  /\ Lifetime \in Nat /\ AuthTtl \in 1 .. Lifetime

ASSUME NoneAssumption == None # "payload" /\ None \notin Nat

ASSUME FitsAssumption ==
  Fits \subseteq {"yes", "streaming", "foreign", "misdirected"}

Calls == 1 .. NCalls
Handlers == 1 .. NHandlers
Subs == 1 .. NStarts
Closers == 1 .. NCloses

VARIABLES
  clock,                \* the callers' clock
  offset,               \* the peer's clock minus the callers'
  calls,                \* each call: its envelope, and what became of it
  peer,                 \* V1PeerRuntime._state
  starting,             \* the subscriptions that start() calls are waiting for
  live,                 \* the subscriptions the broker serves
  subscription,         \* V1NatsServer._subscription
  overlapped,           \* a start() began while another was waiting
  tasks,                \* V1NatsServer._tasks
  handler,              \* each task: where it stands, of which call, its answer,
                        \*   and the time verify_subject took for now
  closer,               \* each close(): where it stands, the tasks it waits for,
                        \*   the subscription it is ending
  claimed,              \* every record the replay guard made
  granted,              \* the calls whose id the guard granted
  served,               \* the calls the application returned a result for
  deliveries            \* envelopes delivered so far

lifecycle == <<peer, starting, live, subscription, overlapped>>
server == <<lifecycle, tasks, handler, closer>>
history == <<claimed, granted, served>>
vars == <<clock, offset, calls, server, history, deliveries>>

-----------------------------------------------------------------------------
(* The envelope. *)

NewCall == [status |-> "new", id |-> None, fit |-> "yes", sent |-> 0, timeout |-> 0]
FreeTask == [pc |-> "free", call |-> None, reply |-> None, read |-> 0]
FreeCloser == [pc |-> "no", awaited |-> {}, target |-> None]

\* The wire carries whole seconds.
Wire(t) == (t \div Sub) * Sub

Deadline(c) == calls[c].sent + calls[c].timeout

Earlier(s, t) == IF s <= t THEN s ELSE t

Expires(c) == Earlier(calls[c].sent + AuthTtl * Sub, Deadline(c))

\* The envelope parses, and its reply subject is the one NATS delivered it with.
Readable(c) ==
  /\ calls[c].fit # "misdirected"
  /\ Wire(calls[c].sent) < Wire(Deadline(c))
  /\ Wire(calls[c].sent) < Wire(Expires(c))

\* What the guard is told: the envelope's replay_expires_at.
Until(c) == Earlier(Wire(Expires(c)), Wire(Deadline(c)))

PeerNow == clock + offset
GuardNow == clock + GuardOffset

\* Mutant: the clock skew is allowed for on one side only.
InTimeOneSided(c) ==
  /\ Wire(calls[c].sent) <= PeerNow + Skew * Sub
  /\ Wire(Expires(c)) > PeerNow
  /\ Wire(Expires(c)) - Wire(calls[c].sent) <= Lifetime * Sub
  /\ Wire(Deadline(c)) > PeerNow

\* verify_subject's comparisons with the peer's clock.
InTime(c) ==
  /\ Wire(calls[c].sent) <= PeerNow + Skew * Sub
  /\ Wire(Expires(c)) > PeerNow - Skew * Sub
  /\ Wire(Expires(c)) - Wire(calls[c].sent) <= Lifetime * Sub
  /\ Wire(Deadline(c)) > PeerNow - Skew * Sub

-----------------------------------------------------------------------------
Init ==
  /\ clock = 0
  /\ offset \in Offsets
  /\ calls = [c \in Calls |-> NewCall]
  /\ peer = "NEW" /\ subscription = None
  /\ starting = {} /\ live = {} /\ overlapped = FALSE
  /\ tasks = {}
  /\ handler = [h \in Handlers |-> FreeTask]
  /\ closer = [k \in Closers |-> FreeCloser]
  /\ claimed = {}
  /\ granted = {}
  /\ served = {}
  /\ deliveries = 0

Tick ==
  /\ clock < MaxClock
  /\ clock' = clock + 1
  /\ UNCHANGED <<offset, calls, server, history, deliveries>>

-----------------------------------------------------------------------------
(* V1NatsClient.request *)

\* How much is going on, for the bound MaxLoad.
Load == Cardinality({c \in Calls : calls[c].status # "new"})
        + Cardinality({c \in Calls : calls[c].fit # "yes"})
        + Cardinality(starting \cup live) + (IF overlapped THEN 1 ELSE 0)
        + deliveries
        + Cardinality({k \in Closers : closer[k].pc # "no"})

Request(c, id, timeout, fit) ==
  /\ calls[c].status = "new" /\ \A d \in Calls : d < c => calls[d].status # "new"
  /\ timeout >= Sub
  /\ clock + Sub <= MaxClock
  /\ Load + (IF fit = "yes" THEN 1 ELSE 2) <= MaxLoad
  /\ calls' = [calls EXCEPT ![c] = [status |-> "waiting", id |-> id, fit |-> fit,
                                    sent |-> clock, timeout |-> timeout]]
  /\ UNCHANGED <<clock, offset, server, history, deliveries>>

Ends(c, status) ==
  /\ calls[c].status = "waiting"
  /\ calls' = [calls EXCEPT ![c].status = status]

TimeOut(c) ==
  /\ clock >= Deadline(c)
  /\ Ends(c, "error")
  /\ UNCHANGED <<clock, offset, server, history, deliveries>>

\* publish, flush or the subscription fails, with the envelope sent or not.
Disconnect(c) ==
  /\ Ends(c, "error")
  /\ UNCHANGED <<clock, offset, server, history, deliveries>>

-----------------------------------------------------------------------------
(* V1NatsServer._handle *)

\* Task h comes to a new point.
Goes(h, pc, reply) ==
  /\ handler' = [handler EXCEPT ![h].pc = pc, ![h].reply = reply, ![h].read = 0]
  /\ UNCHANGED <<lifecycle, tasks, closer>>

\* Task h is over; its callback takes it out of _tasks.
Over(h) ==
  /\ handler' = [handler EXCEPT ![h] = FreeTask]
  /\ tasks' = tasks \ {h}
  /\ closer' = [k \in Closers |-> [closer[k] EXCEPT !.awaited = @ \ {h}]]
  /\ UNCHANGED lifecycle

\* The broker delivers an envelope, perhaps not for the first time, and _schedule
\* makes a task of it.
Deliver(c) ==
  /\ starting # {} \/ live # {}
  /\ calls[c].status # "new"
  /\ deliveries < MaxDeliveries /\ Load < MaxLoad
  /\ deliveries' = deliveries + 1
  /\ \E h \in Handlers :
       /\ handler[h].pc = "free"
       /\ \A g \in Handlers : g < h => handler[g].pc # "free"
       /\ handler' = [handler EXCEPT ![h] = [pc |-> "resolve", call |-> c, reply |-> None,
                                             read |-> 0]]
       /\ tasks' = tasks \cup {h}
  /\ UNCHANGED <<clock, offset, calls, lifecycle, closer, history>>

\* Nobody to answer: the envelope is unreadable or its reply subject is not its own.
Drop(h) ==
  /\ handler[h].pc = "resolve" /\ ~Readable(handler[h].call)
  /\ Over(h)
  /\ UNCHANGED <<clock, offset, calls, history, deliveries>>

\* The identity resolver raises, or returns no identity.
ResolveFails(h) ==
  /\ handler[h].pc = "resolve" /\ Readable(handler[h].call)
  /\ Goes(h, "respond", "error")
  /\ UNCHANGED <<clock, offset, calls, history, deliveries>>

\* The resolver answers; the clock is read now, and not again after the guard is asked.
Verify(h) ==
  LET c == handler[h].call IN
  /\ handler[h].pc = "resolve" /\ Readable(c)
  /\ IF calls[c].fit \in {"yes", "streaming"} /\ InTime(c)
     THEN /\ handler' = [handler EXCEPT ![h].pc = "claim", ![h].read = PeerNow]
          /\ UNCHANGED <<lifecycle, tasks, closer>>
     ELSE Goes(h, "respond", "error")
  /\ UNCHANGED <<clock, offset, calls, history, deliveries>>

\* Mutant: a guard that forgets a request at the expires_at it was given.
FreshUntilExpiry(c) ==
  \A r \in claimed : r.id = calls[c].id => r.until <= GuardNow

\* The guard has no record of the id, or has forgotten it.
Fresh(c) ==
  \A r \in claimed : r.id = calls[c].id => r.until + Retention * Sub <= GuardNow

Record(c) == [id |-> calls[c].id, until |-> Until(c)]

\* Mutant: a request claimed before is taken for done and answered as such.
ClaimOrDone(h) ==
  LET c == handler[h].call IN
  /\ handler[h].pc = "claim"
  /\ \/ /\ Fresh(c)
        /\ claimed' = claimed \cup {Record(c)}
        /\ granted' = granted \cup {c}
        /\ Goes(h, "dispatch", None)
     \/ /\ ~Fresh(c)
        /\ Goes(h, "respond", "payload")
        /\ UNCHANGED <<claimed, granted>>
  /\ UNCHANGED <<clock, offset, calls, served, deliveries>>

Claim(h) ==
  LET c == handler[h].call IN
  /\ handler[h].pc = "claim"
  /\ \/ /\ Fresh(c)
        /\ claimed' = claimed \cup {Record(c)}
        /\ granted' = granted \cup {c}
        /\ Goes(h, "dispatch", None)
     \/ /\ ~Fresh(c)
        /\ Goes(h, "respond", "error")
        /\ UNCHANGED <<claimed, granted>>
  /\ UNCHANGED <<clock, offset, calls, served, deliveries>>

\* The guard raises, its record made or not.
ClaimFails(h) ==
  LET c == handler[h].call IN
  /\ handler[h].pc = "claim"
  /\ \/ Fresh(c) /\ claimed' = claimed \cup {Record(c)}
     \/ UNCHANGED claimed
  /\ Goes(h, "respond", "error")
  /\ UNCHANGED <<clock, offset, calls, granted, served, deliveries>>

\* A streaming operation is refused here, its id claimed; any other goes to the
\* application.
Dispatch(h) ==
  /\ handler[h].pc = "dispatch"
  /\ IF calls[handler[h].call].fit = "streaming"
     THEN Goes(h, "respond", "error")
     ELSE Goes(h, "run", None)
  /\ UNCHANGED <<clock, offset, calls, history, deliveries>>

Returns(h) ==
  /\ handler[h].pc = "run"
  /\ served' = served \cup {handler[h].call}
  /\ Goes(h, "respond", "payload")
  /\ UNCHANGED <<clock, offset, calls, claimed, granted, deliveries>>

\* The application raises, or returns what is not the operation's response.
Raises(h) ==
  /\ handler[h].pc = "run"
  /\ Goes(h, "respond", "error")
  /\ UNCHANGED <<clock, offset, calls, history, deliveries>>

\* request() returns the payload and raises for anything else.
Heard(h) == IF handler[h].reply = "payload" THEN "payload" ELSE "error"

\* The answer reaches its caller, who reads only the first.
Respond(h) ==
  /\ handler[h].pc = "respond"
  /\ Ends(handler[h].call, Heard(h))
  /\ Over(h)
  /\ UNCHANGED <<clock, offset, history, deliveries>>

\* The answer is lost or comes too late; _respond_error lets its failure pass.
RespondLost(h) ==
  /\ handler[h].pc = "respond"
  /\ Over(h)
  /\ UNCHANGED <<clock, offset, calls, history, deliveries>>

\* A result that cannot be sent is answered with an error.
RespondFails(h) ==
  /\ handler[h].pc = "respond" /\ handler[h].reply = "payload"
  /\ Goes(h, "respond", "error")
  /\ UNCHANGED <<clock, offset, calls, history, deliveries>>

\* The CancelledError of close() ends the task wherever it waits.
Cancelled(h) ==
  /\ handler[h].pc = "cancelled"
  /\ Over(h)
  /\ UNCHANGED <<clock, offset, calls, history, deliveries>>

-----------------------------------------------------------------------------
(* V1PeerRuntime and V1NatsServer: start() and close() *)

idle == <<clock, offset, calls, history, deliveries>>

\* Neither check of start() sees another start() that waits for its subscription.
Start(s) ==
  /\ peer = "NEW" /\ subscription = None
  /\ s \notin starting \cup live /\ \A t \in Subs : t < s => t \in starting \cup live
  /\ Load + (IF starting = {} THEN 1 ELSE 2) <= MaxLoad
  /\ overlapped' = (overlapped \/ starting # {})
  /\ starting' = starting \cup {s}
  /\ UNCHANGED <<peer, live, subscription, tasks, handler, closer, idle>>

\* start() sets its subscription and RUNNING whatever others did meanwhile.
Subscribed(s) ==
  /\ s \in starting
  /\ starting' = starting \ {s}
  /\ live' = live \cup {s}
  /\ subscription' = s /\ peer' = "RUNNING"
  /\ UNCHANGED <<overlapped, tasks, handler, closer, idle>>

SubscribeFails(s) ==
  /\ s \in starting
  /\ starting' = starting \ {s}
  /\ UNCHANGED <<peer, live, subscription, overlapped, tasks, handler, closer, idle>>

\* Mutant: close() returns once there is nothing to cancel.
AfterTasksOnly(k) ==
  IF subscription # None /\ closer[k].pc # "no"
  THEN /\ closer' = [closer EXCEPT ![k] = [pc |-> "unsubscribe", awaited |-> {},
                                           target |-> subscription]]
       /\ UNCHANGED peer
  ELSE closer' = [closer EXCEPT ![k] = FreeCloser] /\ peer' = "CLOSED"

\* With the tasks gone, close() unsubscribes from the subscription it finds.
AfterTasks(k) ==
  IF subscription # None
  THEN /\ closer' = [closer EXCEPT ![k] = [pc |-> "unsubscribe", awaited |-> {},
                                           target |-> subscription]]
       /\ UNCHANGED peer
  ELSE closer' = [closer EXCEPT ![k] = FreeCloser] /\ peer' = "CLOSED"

\* close() k is called; the lowest free number stands for it.
Called(k) ==
  /\ peer # "CLOSED"
  /\ closer[k].pc = "no" /\ \A j \in Closers : j < k => closer[j].pc # "no"
  /\ Load < MaxLoad

\* Mutant: the tasks are waited for and not cancelled.
CloseWithoutCancel(k) ==
  /\ Called(k)
  /\ IF tasks = {}
     THEN AfterTasks(k) /\ UNCHANGED handler
     ELSE /\ closer' = [closer EXCEPT ![k] = [pc |-> "gather", awaited |-> tasks,
                                              target |-> None]]
          /\ UNCHANGED <<peer, handler>>
  /\ UNCHANGED <<starting, live, subscription, overlapped, tasks, idle>>

Close(k) ==
  /\ Called(k)
  /\ IF tasks = {}
     THEN AfterTasks(k) /\ UNCHANGED handler
     ELSE /\ handler' = [h \in Handlers |->
               IF h \in tasks THEN [FreeTask EXCEPT !.pc = "cancelled"] ELSE handler[h]]
          /\ closer' = [closer EXCEPT ![k] = [pc |-> "gather", awaited |-> tasks,
                                              target |-> None]]
          /\ UNCHANGED peer
  /\ UNCHANGED <<starting, live, subscription, overlapped, tasks, idle>>

\* _tasks is cleared, tasks that came meanwhile with it.
Gathered(k) ==
  /\ closer[k].pc = "gather" /\ closer[k].awaited = {}
  /\ tasks' = {}
  /\ AfterTasks(k)
  /\ UNCHANGED <<starting, live, subscription, overlapped, handler, idle>>

\* The field is cleared, whatever subscription it holds by now.
Unsubscribed(k) ==
  /\ closer[k].pc = "unsubscribe"
  /\ \/ /\ live' = live \ {closer[k].target}
        /\ subscription' = None /\ peer' = "CLOSED"
     \/ UNCHANGED <<live, subscription, peer>>        \* unsubscribe() raises
  /\ closer' = [closer EXCEPT ![k] = FreeCloser]
  /\ UNCHANGED <<starting, overlapped, tasks, handler, idle>>

\* The process dies and is run again.
Crash ==
  /\ peer' = "NEW" /\ subscription' = None
  /\ starting' = {} /\ live' = {} /\ overlapped' = FALSE
  /\ tasks' = {}
  /\ handler' = [h \in Handlers |-> FreeTask]
  /\ closer' = [k \in Closers |-> FreeCloser]
  /\ UNCHANGED idle

-----------------------------------------------------------------------------
Caller ==
  \E c \in Calls :
    \/ \E id \in Ids, timeout \in Timeouts, fit \in Fits : Request(c, id, timeout, fit)
    \/ TimeOut(c)
    \/ Disconnect(c)
    \/ Deliver(c)

Task ==
  \E h \in Handlers :
    \/ Drop(h)
    \/ ResolveFails(h)
    \/ Verify(h)
    \/ Claim(h)
    \/ ClaimFails(h)
    \/ Dispatch(h)
    \/ Returns(h)
    \/ Raises(h)
    \/ Respond(h)
    \/ RespondLost(h)
    \/ RespondFails(h)
    \/ Cancelled(h)

Lifecycle ==
  \/ \E s \in Subs : Start(s) \/ Subscribed(s) \/ SubscribeFails(s)
  \/ \E k \in Closers : Close(k) \/ Gathered(k) \/ Unsubscribed(k)
  \/ Crash

Next == Tick \/ Caller \/ Task \/ Lifecycle

\* A cancelled task is resumed, and close() goes on once what it waits for is there.
\* Nothing is asked of the application, the guard, the resolver or the network.
Fairness ==
  /\ \A h \in Handlers : WF_vars(Cancelled(h))
  /\ \A k \in Closers : WF_vars(Gathered(k)) /\ WF_vars(Unsubscribed(k))

Spec == Init /\ [][Next]_vars /\ Fairness

-----------------------------------------------------------------------------
(* Properties *)

Envelope == [status : {"new", "waiting", "payload", "error"}, id : Ids \cup {None},
             fit : Fits \cup {"yes"}, sent : Nat, timeout : Timeouts \cup {0}]

TaskState == [pc : {"free", "resolve", "claim", "dispatch", "run", "respond", "cancelled"},
              call : Calls \cup {None},
              reply : {None, "payload", "error"},
              read : Int]

CloserState == [pc : {"no", "gather", "unsubscribe"}, awaited : SUBSET Handlers,
                target : Subs \cup {None}]

(* Type invariant of the callers, the peer and the replay guard. *)
TypeOK ==
  /\ clock \in Nat /\ offset \in Offsets
  /\ calls \in [Calls -> Envelope]
  /\ peer \in {"NEW", "RUNNING", "CLOSED"}
  /\ starting \subseteq Subs /\ live \subseteq Subs
  /\ subscription \in Subs \cup {None} /\ overlapped \in BOOLEAN
  /\ tasks \subseteq Handlers
  /\ handler \in [Handlers -> TaskState]
  /\ closer \in [Closers -> CloserState]
  /\ claimed \subseteq [id : Ids, until : Int]
  /\ granted \subseteq Calls
  /\ served \subseteq Calls
  /\ deliveries \in Nat

\* The guard answers task h in time: since verify_subject read the peer's clock, no
\* more has passed on the guard's than its records outlast the skew by.
Prompt(h) == GuardNow - handler[h].read <= (Retention - Skew) * Sub

\* An envelope that verify_subject refuses as expired at time now.
Lapsed(c, now) == Until(c) <= now - Skew * Sub

(* Whatever is delivered twice, sent again under the same id, delayed into   *)
(* the clock skew after its expiry, or left over from before a crash: the    *)
(* guard grants an envelope to the application once, and its id to another   *)
(* call only when every further copy of the first is refused as expired, as  *)
(* long as it answers in time (BindingAuthVerifier.verify_subject, "claim a  *)
(* verified request ID before Core claim/dispatch").                         *)
GrantedOnce ==
  [][\A h \in Handlers :
       LET c == handler[h].call IN
       Claim(h) /\ handler'[h].pc = "dispatch" /\ Prompt(h) =>
         /\ c \notin granted
         /\ \A d \in granted :
              calls[d].id = calls[c].id => Lapsed(d, handler[h].read)]_vars

(* A caller that is returned a payload asked something the application       *)
(* answered for that very call, not for another with the same id, and asked  *)
(* it in an envelope that fits.                                              *)
AnswerIsTrue ==
  \A c \in Calls :
    calls[c].status = "payload" => c \in served /\ calls[c].fit = "yes"

(* With clocks apart by no more than the allowed skew, a proper envelope is  *)
(* never refused as too early, and as expired at most a second before it is: *)
(* the second its times lose on the wire.  Nor does that loss ever make the  *)
(* peer unable to read it.                                                   *)
NoTimelyRefusal ==
  [][\A h \in Handlers :
       LET c == handler[h].call IN
       /\ Drop(h) => calls[c].fit = "misdirected"
       /\ /\ Verify(h) /\ handler'[h].pc = "respond"
          /\ calls[c].fit \in {"yes", "streaming"}
          /\ offset <= Skew * Sub /\ -(Skew * Sub) <= offset
          => clock + Sub > Expires(c)]_vars

(* A peer that says CLOSED has no subscription left at the broker, however   *)
(* start(), close() and failures of either overlap, unless a start() is      *)
(* still under way, which will say RUNNING when it has subscribed, or two    *)
(* start() calls overlapped, which neither of start()'s checks prevents.     *)
ClosedIsDeaf == peer = "CLOSED" /\ starting = {} /\ ~overlapped => live = {}

(* Every close() ends although the application, the guard or the resolver    *)
(* may never answer, other close() calls overlap with it, and requests keep  *)
(* coming while it waits.                                                    *)
CloseEnds == \A k \in Closers : closer[k].pc # "no" ~> closer[k].pc = "no"

-----------------------------------------------------------------------------
(* The inductive invariant of V1Binding_proofs. *)

\* A request that was sent has an id, was sent by now and for a second at least.
CallInv ==
  \A c \in Calls :
    calls[c].status # "new" =>
      calls[c].id \in Ids /\ calls[c].sent <= clock /\ Sub <= calls[c].timeout

\* What a task works on was sent, and what it found out about it is so.
TaskInv ==
  \A h \in Handlers :
    LET t == handler[h]
        e == calls[t.call] IN
    /\ t.pc \notin {"free", "cancelled"} =>
         t.call \in Calls /\ e.status # "new"
    /\ t.pc \in {"claim", "dispatch"} => e.fit \in {"yes", "streaming"}
    /\ t.pc = "run" => e.fit = "yes"
    /\ t.reply = "payload" => t.pc = "respond" /\ t.call \in served /\ e.fit = "yes"

\* What the guard granted it has a record of, and what is about to be claimed was not
\* expired when it was verified.
ClaimInv ==
  /\ \A c \in granted : calls[c].status # "new" /\ Record(c) \in claimed
  /\ \A h \in Handlers :
       handler[h].pc = "claim" => ~Lapsed(handler[h].call, handler[h].read)

\* A close() waits only for tasks it has cancelled.
AwaitInv ==
  \A k \in Closers : \A h \in closer[k].awaited : handler[h].pc = "cancelled"

\* Without overlapping start() calls there is one subscription, the one the field
\* holds, and close() ends that one.
ListenInv ==
  ~overlapped =>
    /\ \A s, t \in starting : s = t
    /\ live \subseteq {subscription}
    /\ starting # {} \/ peer = "NEW" => live = {} /\ subscription = None
    /\ \A k \in Closers :
         closer[k].pc = "unsubscribe" =>
           live \subseteq {closer[k].target} /\ starting = {} /\ peer # "NEW"
    /\ ClosedIsDeaf

IInv ==
  /\ TypeOK
  /\ CallInv /\ TaskInv /\ ClaimInv /\ AwaitInv /\ ListenInv
  /\ AnswerIsTrue
=============================================================================
