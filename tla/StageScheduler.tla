--------------------------- MODULE StageScheduler ---------------------------
(***************************************************************************)
(* The per-deployment pass scheduler of a worker                           *)
(* (cpp/src/worker/scheduler.cpp).                                         *)
(*                                                                         *)
(* RPC handler threads call execute() once per prefill chunk or decode     *)
(* step.  Each call puts a Ticket that lives on its own stack into one of  *)
(* two FIFO queues and loops under a mutex.  The caller whose ticket is    *)
(* next() leads: it claims a prefix of its queue, unlocks, runs the        *)
(* backend for all claimed members, and delivers the outcome to each.      *)
(*                                                                         *)
(* A step of the model is one critical section of the mutex.  A request's  *)
(* cancelled flag and deadline are shared with other threads and change    *)
(* between any two steps; every read of them inside one critical section   *)
(* concerns a different request, so reading them all at once loses no      *)
(* behaviour.  The payloads, the queue-wait clock and the monotone metric  *)
(* counters are left out.                                                  *)
(***************************************************************************)
EXTENDS Naturals, Sequences, FiniteSets

CONSTANTS
  Requests,             \* the requests whose handlers call execute()
  kMaximumDecodeBatch,  \* scheduler.cpp:12
  kMaximumDecodeStreak, \* scheduler.cpp:13
  BatchSupported        \* backend.supports_decode_batch()

ASSUME SchedulerAssumption ==
  /\ IsFiniteSet(Requests)
  /\ kMaximumDecodeBatch \in Nat \ {0}
  /\ kMaximumDecodeStreak \in Nat \ {0}
  /\ BatchSupported \in BOOLEAN

Kinds == {"prefill", "decode"}

\* What execute() hands back: a result, the backend's error, or the error of a
\* ticket stopped in the queue.
Answers == {"ok", "error", "cancelled", "deadline"}

VARIABLES
  pc,         \* "idle": between passes; "inside": in execute(); "leading": running
              \* a dispatch with the mutex released; "gone": the request ended
  kind,       \* the queue the request's current ticket belongs to
  prefills,   \* prefills_
  decodes,    \* decodes_
  claimed,    \* tickets with claimed = true
  answer,     \* "none" until the ticket is done, then what execute() will return
  dispatch,   \* the members of the pass being run
  executing,  \* executing_
  streak,     \* decode_streak_
  maxBatch,   \* maximum_decode_batch_
  cancelled,  \* requests whose cancelled flag is set
  expired,    \* requests whose deadline has passed
  overtaken,  \* history: decode items dispatched over the waiting prefills
  delayed     \* history: prefill passes dispatched over the waiting decodes

tickets == <<pc, kind, prefills, decodes, claimed, answer>>
passVars == <<dispatch, executing, streak, overtaken, delayed>>
stopVars == <<cancelled, expired>>
vars == <<tickets, passVars, stopVars, maxBatch>>

Elements(q) == {q[i] : i \in DOMAIN q}

Stopped(r) == r \in cancelled \/ r \in expired

\* The error of a ticket stopped before it was dispatched: the clock is read
\* again after the stop was noticed, so a passed deadline takes precedence.
StopAnswer(r) == IF r \in expired THEN "deadline" ELSE "cancelled"

QueueOf(k) == IF k = "prefill" THEN prefills ELSE decodes

\* Mutation: prefills wait until no decode does.
NextKindDecodesFirst ==
  IF decodes # <<>> THEN "decode" ELSE IF prefills # <<>> THEN "prefill" ELSE "none"

\* next(): whose turn it is, as the kind of queue to serve, or "none".
NextKind ==
  IF prefills # <<>> /\ (decodes = <<>> \/ streak >= kMaximumDecodeStreak)
  THEN "prefill"
  ELSE IF decodes # <<>> THEN "decode" ELSE "none"

\* Mutation: no saturation.
Unsaturated(m, n) == m
Minimum(m, n) == IF m <= n THEN m ELSE n

\* Mutation: prefills are batched like decodes.
LimitAnyKind(k) == IF BatchSupported THEN maxBatch ELSE 1

\* Mutation: a pass may overrun the streak while a prefill waits.
LimitUncut(k) == IF k = "prefill" \/ ~BatchSupported THEN 1 ELSE maxBatch

\* How many live tickets one pass may take.  The subtraction is unsigned in the
\* code; NextKind never picks decodes over a waiting prefill once the streak is
\* used up, so it cannot wrap.
Limit(k) ==
  LET width == IF k = "prefill" \/ ~BatchSupported THEN 1 ELSE maxBatch
  IN  IF k = "decode" /\ prefills # <<>>
      THEN Minimum(width, kMaximumDecodeStreak - streak)
      ELSE width

-----------------------------------------------------------------------------

Init ==
  /\ pc = [r \in Requests |-> "idle"]
  /\ kind = [r \in Requests |-> "prefill"]
  /\ prefills = <<>> /\ decodes = <<>>
  /\ claimed = {}
  /\ answer = [r \in Requests |-> "none"]
  /\ dispatch = {} /\ executing = 0 /\ streak = 0
  /\ maxBatch = 1
  /\ cancelled = {} /\ expired = {}
  /\ overtaken = 0 /\ delayed = 0

\* The history counters run while somebody waits in the queue they watch.
Track(ov, de) ==
  /\ overtaken' = IF prefills' = <<>> THEN 0 ELSE ov
  /\ delayed' = IF decodes' = <<>> THEN 0 ELSE de

\* configure(): refused while any ticket is queued or executing.
Configure(n) ==
  /\ executing = 0 /\ prefills = <<>> /\ decodes = <<>>
  /\ maxBatch' = n
  /\ UNCHANGED <<tickets, passVars, stopVars>>

\* execute() enters: a request first runs prefill chunks, then decode steps.
Submit(r, k) ==
  /\ pc[r] = "idle"
  /\ kind[r] = "decode" => k = "decode"
  /\ pc' = [pc EXCEPT ![r] = "inside"]
  /\ kind' = [kind EXCEPT ![r] = k]
  /\ IF k = "prefill"
     THEN prefills' = Append(prefills, r) /\ UNCHANGED decodes
     ELSE decodes' = Append(decodes, r) /\ UNCHANGED prefills
  /\ Track(overtaken, delayed)
  /\ UNCHANGED <<claimed, answer, dispatch, executing, streak, stopVars, maxBatch>>

\* queue.erase(find(ticket)): the queue without its i-th ticket.
Erase(q, i) == [j \in 1..(Len(q) - 1) |-> IF j < i THEN q[j] ELSE q[j + 1]]

\* execute() threw: its handler unwinds, and the request with its flags is gone.
EndRequest(r) ==
  /\ pc' = [pc EXCEPT ![r] = "gone"]
  /\ kind' = [kind EXCEPT ![r] = "prefill"]
  /\ cancelled' = cancelled \ {r} /\ expired' = expired \ {r}

\* Mutation: the ticket is left in its queue.
DropInPlace(r) ==
  /\ pc[r] = "inside" /\ r \notin claimed /\ answer[r] = "none" /\ Stopped(r)
  /\ EndRequest(r)
  /\ UNCHANGED <<prefills, decodes, claimed, answer, passVars, maxBatch>>

\* An unclaimed ticket that sees its own stop leaves its queue and throws.
Drop(r) ==
  /\ pc[r] = "inside" /\ r \notin claimed /\ answer[r] = "none"
  /\ Stopped(r)
  /\ \E i \in DOMAIN QueueOf(kind[r]) :
       /\ QueueOf(kind[r])[i] = r
       /\ IF kind[r] = "prefill"
          THEN prefills' = Erase(prefills, i) /\ UNCHANGED decodes
          ELSE decodes' = Erase(decodes, i) /\ UNCHANGED prefills
  /\ EndRequest(r)
  /\ Track(overtaken, delayed)
  /\ UNCHANGED <<claimed, answer, dispatch, executing, streak, maxBatch>>

\* The prefixes of q a leader may pop: it stops once it holds `limit` live
\* tickets, or when the queue is empty.
Live(q, n) == {i \in 1..n : ~Stopped(q[i])}
ClaimSize(q, limit, n) ==
  /\ n \in 1..Len(q)
  /\ Cardinality(Live(q, n)) <= limit
  /\ \/ n = Len(q)
     \/ Cardinality(Live(q, n)) = limit
  /\ Cardinality(Live(q, n - 1)) < limit

\* The owner of next() claims a prefix of its queue.  Stopped members are
\* answered on the spot; if nobody is left there is no pass.  The leader may
\* itself have been stopped since it last looked, and still runs the others.
Lead(r) ==
  LET q == QueueOf(kind[r]) IN
  /\ pc[r] = "inside" /\ r \notin claimed /\ answer[r] = "none"
  /\ executing = 0
  /\ NextKind = kind[r] /\ q[1] = r
  /\ \E n \in 1..Len(q) :
       LET live == Live(q, n)
           taken == Cardinality(live)
       IN
       /\ ClaimSize(q, Limit(kind[r]), n)
       /\ claimed' = claimed \cup {q[i] : i \in 1..n}
       /\ answer' = [m \in Requests |->
                       IF m \in {q[i] : i \in (1..n) \ live} THEN StopAnswer(m)
                       ELSE answer[m]]
       /\ IF kind[r] = "prefill"
          THEN prefills' = SubSeq(q, n + 1, Len(q)) /\ UNCHANGED decodes
          ELSE decodes' = SubSeq(q, n + 1, Len(q)) /\ UNCHANGED prefills
       /\ dispatch' = {q[i] : i \in live}
       /\ executing' = taken
       /\ IF live = {}
          THEN UNCHANGED <<pc, streak>> /\ Track(overtaken, delayed)
          ELSE /\ pc' = [pc EXCEPT ![r] = "leading"]
               /\ streak' = IF kind[r] = "prefill" THEN 0
                            ELSE Minimum(streak + taken, kMaximumDecodeStreak)
               /\ IF kind[r] = "prefill" THEN Track(0, delayed + 1)
                                         ELSE Track(overtaken + taken, 0)
  /\ UNCHANGED <<kind, stopVars, maxBatch>>

\* Mutation: only the leader gets its answer.
DeliverToLeader(r) ==
  /\ pc[r] = "leading"
  /\ answer' = [answer EXCEPT ![r] = IF r \in dispatch THEN "ok" ELSE @]
  /\ dispatch' = {} /\ executing' = 0
  /\ pc' = [pc EXCEPT ![r] = "inside"]
  /\ UNCHANGED <<kind, prefills, decodes, claimed, streak, overtaken, delayed,
                 stopVars, maxBatch>>

\* The pass ends: its outcome, the same for every member, is delivered under the
\* lock.  A backend error includes a single pass that noticed its own
\* cancellation; batched passes run to the end whatever their members' flags.
Deliver(r) ==
  /\ pc[r] = "leading"
  /\ \E outcome \in {"ok", "error"} :
       answer' = [m \in Requests |-> IF m \in dispatch THEN outcome ELSE answer[m]]
  /\ dispatch' = {} /\ executing' = 0
  /\ pc' = [pc EXCEPT ![r] = "inside"]
  /\ UNCHANGED <<kind, prefills, decodes, claimed, streak, overtaken, delayed,
                 stopVars, maxBatch>>

\* execute() returns its result, or rethrows and so ends the request.
Return(r) ==
  /\ pc[r] = "inside" /\ answer[r] # "none"
  /\ IF answer[r] = "ok"
     THEN pc' = [pc EXCEPT ![r] = "idle"] /\ UNCHANGED <<kind, stopVars>>
     ELSE EndRequest(r)
  /\ claimed' = claimed \ {r}
  /\ answer' = [answer EXCEPT ![r] = "none"]
  /\ UNCHANGED <<prefills, decodes, passVars, maxBatch>>

\* Another thread sets the request's cancelled flag, or its deadline passes.
Cancel(r) ==
  /\ pc[r] # "gone" /\ r \notin cancelled
  /\ cancelled' = cancelled \cup {r}
  /\ UNCHANGED <<tickets, passVars, expired, maxBatch>>

Expire(r) ==
  /\ pc[r] # "gone" /\ r \notin expired
  /\ expired' = expired \cup {r}
  /\ UNCHANGED <<tickets, passVars, cancelled, maxBatch>>

Next ==
  \/ \E n \in 1..kMaximumDecodeBatch : Configure(n)
  \/ \E r \in Requests, k \in Kinds : Submit(r, k)
  \/ \E r \in Requests :
       Drop(r) \/ Lead(r) \/ Deliver(r) \/ Return(r) \/ Cancel(r) \/ Expire(r)

\* A caller in execute() polls at least every 5 ms, so a step it can take is
\* eventually taken; that a pass ends at all is the backend's promise.  Nobody
\* has to submit, cancel or reconfigure.
Fairness ==
  \A r \in Requests :
    WF_vars(Drop(r)) /\ WF_vars(Lead(r)) /\ WF_vars(Deliver(r)) /\ WF_vars(Return(r))

Spec == Init /\ [][Next]_vars
FairSpec == Spec /\ Fairness

-----------------------------------------------------------------------------
(***************************************************************************)
(* Properties                                                              *)
(***************************************************************************)

\* Every variable has its type.
TypeOK ==
  /\ pc \in [Requests -> {"idle", "inside", "leading", "gone"}]
  /\ kind \in [Requests -> Kinds]
  /\ prefills \in Seq(Requests) /\ decodes \in Seq(Requests)
  /\ claimed \in SUBSET Requests
  /\ answer \in [Requests -> Answers \cup {"none"}]
  /\ dispatch \in SUBSET Requests
  /\ executing \in Nat
  /\ streak \in 0..kMaximumDecodeStreak
  /\ maxBatch \in 1..kMaximumDecodeBatch
  /\ cancelled \in SUBSET Requests /\ expired \in SUBSET Requests
  /\ overtaken \in Nat /\ delayed \in Nat

\* Tickets live on their caller's stack: a ticket some queue or running pass
\* still points to belongs to a caller that is inside execute(), is unclaimed
\* exactly while it is queued, and is queued once, in the queue of its kind.
NoDanglingTicket ==
  /\ \A k \in Kinds : \A i \in DOMAIN QueueOf(k) :
       LET r == QueueOf(k)[i] IN
       /\ pc[r] = "inside" /\ kind[r] = k /\ r \notin claimed /\ answer[r] = "none"
       /\ \A j \in DOMAIN QueueOf(k) : QueueOf(k)[j] = r => j = i
  /\ \A r \in dispatch :
       pc[r] \in {"inside", "leading"} /\ r \in claimed /\ answer[r] = "none"

\* No ticket is forgotten: a caller inside execute() without an answer is
\* queued or is a member of the running pass.
NoLostTicket ==
  \A r \in Requests :
    pc[r] = "inside" /\ answer[r] = "none" =>
      r \in Elements(QueueOf(kind[r])) \cup dispatch

\* One pass at a time, led by one caller, no wider than admission reserved
\* workspace for: a prefill alone or at most maxBatch decodes.
OnePass ==
  /\ executing = Cardinality(dispatch)
  /\ Cardinality(dispatch) <= maxBatch
  /\ dispatch = {} <=> \A r \in Requests : pc[r] # "leading"
  /\ \A r, s \in Requests : pc[r] = "leading" /\ pc[s] = "leading" => r = s
  /\ \A r \in dispatch : kind[r] = "prefill" \/ ~BatchSupported => dispatch = {r}

\* The promise of docs/milestone-6.md: at most kMaximumDecodeStreak decode items
\* run before a waiting prefill chunk gets its turn, and a waiting decode is
\* passed over by at most one prefill.
BoundedBypass == overtaken <= kMaximumDecodeStreak /\ delayed <= 1

\* What a caller of execute() can tell about its request: its answer may be
\* settled while it still leads the pass of the others.
CallerView ==
  [r \in Requests |->
     IF pc[r] \in {"idle", "gone"} THEN pc[r]
     ELSE IF answer[r] # "none" THEN "answered"
     ELSE IF r \in claimed THEN "running" ELSE "waiting"]

Passes == INSTANCE PassServer WITH Width <- kMaximumDecodeBatch, state <- CallerView

\* The queues, turns and leaders implement the one-pass-at-a-time service.
ImplementsPassServer == Passes!Spec

\* Every call of execute() returns, whatever the other callers do.
EveryCallReturns ==
  \A r \in Requests : pc[r] = "inside" ~> pc[r] \in {"idle", "gone"}
=============================================================================
