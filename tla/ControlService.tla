--------------------------- MODULE ControlService ---------------------------
(***************************************************************************)
(* The request and deployment table of a worker                            *)
(* (cpp/src/worker/control_service.cpp), with the part of the execution    *)
(* handlers that owns a lease on it (RequestGuard and Watchdog of          *)
(* execution_service.cpp).                                                 *)
(*                                                                         *)
(* A step is one critical section of the control mutex, or one thing a     *)
(* handler does without it.  reserve() releases the mutex while the        *)
(* backend allocates the sequence, and the execution handlers run, finish  *)
(* and unwind without it; everything else interleaves there.               *)
(*                                                                         *)
(* ActiveRequest and LoadedDeployment are reference-counted heap objects:  *)
(* `Objects` and `Deployments` are their addresses, reusable as soon as    *)
(* nothing refers to them.  A deadline is the flag it turns into when it   *)
(* passes.  Memory is one domain with a budget; the code applies the same  *)
(* check to each of its four.  `cancelled` and `stop_cause` are written    *)
(* by one call, stop(), and are one variable here.  Calls that name        *)
(* another plan, version or stage than the loaded one return before they   *)
(* touch anything and are left out.  The flags of a retired request are    *)
(* never read again; running is cleared to keep freed addresses alike.     *)
(***************************************************************************)
EXTENDS Naturals, FiniteSets, FiniteSetsExt

CONSTANTS
  Ids,                      \* request IDs
  Calls,                    \* server threads for ReserveRequest, Generate and Execute
  Objects,                  \* addresses of ActiveRequest objects
  Deployments,              \* addresses of LoadedDeployment objects
  Shapes,                   \* (maximum_tokens, maximum_query_tokens) of a reservation
  CacheBytes(_),            \* sequence_memory(shape).cache
  WorkspaceBytes(_),        \* sequence_memory(shape).workspace
  CachedTokens(_),          \* maximum_tokens of the shape
  WeightBytes,              \* weight_memory() of a loaded stage
  Capacity,                 \* the configured memory capacity
  maximum_active_requests,
  maximum_cached_tokens,    \* zero: no token limit
  PassRows,                 \* pass_rows()
  None

ASSUME ControlAssumption ==
  /\ None \notin Objects /\ None \notin Deployments
  /\ IsFiniteSet(Ids) /\ IsFiniteSet(Objects)
  /\ maximum_active_requests \in Nat \ {0}
  /\ {WeightBytes, Capacity, PassRows} \subseteq Nat
  /\ \A sh \in Shapes : CacheBytes(sh) \in Nat /\ WorkspaceBytes(sh) \in Nat

Causes == {"none", "cancelled", "expired"}
Reasons == {"completed", "cancelled", "expired", "failed", "allocation-failed"}
Phases ==
  {"idle",
   "allocating",   \* reserve(): the mutex is released, the backend allocates
   "allocated",    \* ... and returned a sequence
   "unallocated",  \* ... or threw
   "running",      \* an execution handler owns the lease
   "committing",   \* past its last check_running(), about to release kCompleted
   "completed",    \* released kCompleted, still writing its last messages
   "ended"}        \* the guard has released; the lease itself is still alive

VARIABLES
  deployment,     \* deployment_
  active,         \* active_
  shape,          \* of each ActiveRequest: its sizes,
  allocating,     \*   its allocating flag,
  running,        \*   its running flag,
  cause,          \*   stop_cause; cancelled is cause # "none",
  expired,        \*   whether its deadline has passed,
  sequence,       \*   the deployment its sequence was allocated on, or None
  phase,          \* of each call: where it is,
  executes,       \*   whether it is an execution handler, else ReserveRequest,
  id,             \*   the request ID it was called with,
  object,         \*   the ActiveRequest it refers to, or None,
  lease,          \*   the LoadedDeployment it refers to, or None,
  disconnected,   \*   whether its ServerContext is cancelled
  retired         \* the lifecycle events of the last step: why each request retired

requestVars == <<shape, allocating, running, cause, expired, sequence>>
callVars == <<phase, executes, id, object, lease, disconnected>>
vars == <<deployment, active, requestVars, callVars, retired>>

-----------------------------------------------------------------------------
(* Helpers *)

Mapped == {active[i] : i \in Ids} \ {None}
cancelled(o) == cause[o] # "none"

\* ActiveRequest::stop(): the first cause wins.
Stop(o, why) == [cause EXCEPT ![o] = IF @ = "none" THEN why ELSE @]

Silence == [o \in Objects |-> "none"]
RetiredFor(S, why) == [o \in Objects |-> IF o \in S THEN why ELSE "none"]

\* An address is free when neither the table nor a call refers to it.
FreeObject(o) == o \notin Mapped /\ \A c \in Calls : object[c] # o
FreeDeployment(d) == d # deployment /\ \A c \in Calls : lease[c] # d

\* Mutation: an entry being allocated is taken for an abandoned one.
IdleWhileAllocating(o) == o \notin running

\* Nobody is executing or allocating the entry, so it may be retired at once.
Idle(o) == o \notin running /\ o \notin allocating

\* Mutation: expired reservations are told to stop and left in the table.
StaleKept == {}

\* prune_expired(): every expired entry is told to stop, and those nobody is
\* allocating or executing are retired on the spot.
Stale == {o \in Mapped \cap expired : Idle(o)}
PrunedActive == [i \in Ids |-> IF active[i] \in Stale THEN None ELSE active[i]]
PrunedCause ==
  [o \in Objects |-> IF o \in Mapped \cap expired /\ cause[o] = "none"
                     THEN "expired" ELSE cause[o]]
PrunedSequence == [o \in Objects |-> IF o \in Stale THEN None ELSE sequence[o]]

PruneExpired ==
  /\ active' = PrunedActive
  /\ cause' = PrunedCause
  /\ sequence' = PrunedSequence
  /\ retired' = RetiredFor(Stale, "expired")

Total(amounts, S) == MapThenSumSet(LAMBDA o : amounts[o], S)

\* The sum of the PassRows largest workspaces (largest_workspaces()).
LargestWorkspaces(S, ws) ==
  Max({Total(ws, T) : T \in {U \in SUBSET S : Cardinality(U) <= PassRows}})

\* Mutation: the new request is checked as if it were alone.
FitsAlone(S, new, sh) == WeightBytes + CacheBytes(sh) + WorkspaceBytes(sh) <= Capacity

\* The check reserve() makes before it admits `new` beside the entries in S.
Fits(S, new, sh) ==
  LET size(o) == IF o = new THEN sh ELSE shape[o]
      all == S \cup {new}
      cache == [o \in all |-> CacheBytes(size(o))]
      work == [o \in all |-> WorkspaceBytes(size(o))]
      tokens == [o \in all |-> CachedTokens(size(o))]
  IN  /\ maximum_cached_tokens = 0 \/ Total(tokens, all) <= maximum_cached_tokens
      /\ WeightBytes + Total(cache, all) + LargestWorkspaces(all, work) <= Capacity

\* Mutation: the limit is reached one request late.
BelowLimitOrAt == Cardinality(Mapped \ Stale) <= maximum_active_requests
BelowLimit == Cardinality(Mapped \ Stale) < maximum_active_requests

\* Mutation: an executing request can be claimed again.
ClaimableTwice(o, sh) == o \notin allocating /\ shape[o] = sh /\ PrunedCause[o] = "none"

\* What acquire() demands of an entry that is already there.
Claimable(o, sh) ==
  o \notin allocating /\ shape[o] = sh /\ PrunedCause[o] = "none" /\ o \notin running

-----------------------------------------------------------------------------

Init ==
  /\ deployment = None
  /\ active = [i \in Ids |-> None]
  /\ shape = [o \in Objects |-> None]
  /\ allocating = {} /\ running = {} /\ expired = {}
  /\ cause = [o \in Objects |-> "none"]
  /\ sequence = [o \in Objects |-> None]
  /\ phase = [c \in Calls |-> "idle"]
  /\ executes = [c \in Calls |-> FALSE]
  /\ id = [c \in Calls |-> None]
  /\ object = [c \in Calls |-> None]
  /\ lease = [c \in Calls |-> None]
  /\ disconnected = {}
  /\ retired = Silence

\* prune_expired() and nothing else: a pass of the reaper thread, a memory
\* report, and every LoadStage, UnloadStage or reserve() that is then refused
\* or finds what it asked for already there.
Prune ==
  /\ Mapped \cap expired # {}
  /\ PruneExpired
  /\ UNCHANGED <<deployment, shape, allocating, running, expired, callVars>>

\* LoadStage of a plan the backend accepts, with nothing loaded.
LoadStage(d) ==
  /\ deployment = None
  /\ FreeDeployment(d)
  /\ WeightBytes <= Capacity
  /\ deployment' = d
  /\ PruneExpired
  /\ UNCHANGED <<shape, allocating, running, expired, callVars>>

\* Mutation: unloading does not wait for the requests.
UnloadUnderRequests ==
  /\ deployment # None
  /\ deployment' = None
  /\ PruneExpired
  /\ UNCHANGED <<shape, allocating, running, expired, callVars>>

\* UnloadStage of the loaded plan, refused while any entry survives the prune.
UnloadStage ==
  /\ deployment # None
  /\ \A i \in Ids : PrunedActive[i] = None
  /\ deployment' = None
  /\ PruneExpired
  /\ UNCHANGED <<shape, allocating, running, expired, callVars>>

\* reserve() admits a new request and releases the mutex to allocate.  The
\* deployment it allocates on is the one captured here.  Calls for another
\* plan or stage return before they touch anything.
Reserve(c, exec, i, sh, o) ==
  /\ phase[c] = "idle"
  /\ deployment # None
  /\ PrunedActive[i] = None
  /\ BelowLimit
  /\ FreeObject(o)
  /\ Fits(Mapped \ Stale, o, sh)
  /\ active' = [PrunedActive EXCEPT ![i] = o]
  /\ shape' = [shape EXCEPT ![o] = sh]
  /\ allocating' = allocating \cup {o}
  /\ running' = running \ {o}
  /\ expired' = expired \ {o}
  /\ cause' = [PrunedCause EXCEPT ![o] = "none"]
  /\ sequence' = PrunedSequence
  /\ phase' = [phase EXCEPT ![c] = "allocating"]
  /\ executes' = [executes EXCEPT ![c] = exec]
  /\ id' = [id EXCEPT ![c] = i]
  /\ object' = [object EXCEPT ![c] = o]
  /\ lease' = [lease EXCEPT ![c] = deployment]
  /\ retired' = RetiredFor(Stale, "expired")
  /\ UNCHANGED <<deployment, disconnected>>

\* acquire() of an earlier reservation of the same shape.  One that is being
\* allocated, was told to stop or is executing already is refused.
AcquireReserved(c, i, sh) ==
  LET o == PrunedActive[i] IN
  /\ phase[c] = "idle"
  /\ deployment # None
  /\ o # None /\ Claimable(o, sh)
  /\ PruneExpired
  /\ running' = running \cup {o}
  /\ phase' = [phase EXCEPT ![c] = "running"]
  /\ executes' = [executes EXCEPT ![c] = TRUE]
  /\ id' = [id EXCEPT ![c] = i]
  /\ object' = [object EXCEPT ![c] = o]
  /\ lease' = [lease EXCEPT ![c] = deployment]
  /\ UNCHANGED <<deployment, shape, allocating, expired, disconnected>>

\* The backend returns a sequence, or throws, while the mutex is free.
Allocate(c) ==
  /\ phase[c] = "allocating"
  /\ \/ /\ sequence' = [sequence EXCEPT ![object[c]] = lease[c]]
        /\ phase' = [phase EXCEPT ![c] = "allocated"]
     \/ /\ phase' = [phase EXCEPT ![c] = "unallocated"]
        /\ UNCHANGED sequence
  /\ retired' = Silence
  /\ UNCHANGED <<deployment, active, shape, allocating, running, cause, expired,
                 executes, id, object, lease, disconnected>>

\* The call returns: its references and its context die with it.
Leave(c) ==
  /\ phase' = [phase EXCEPT ![c] = "idle"]
  /\ executes' = [executes EXCEPT ![c] = FALSE]
  /\ id' = [id EXCEPT ![c] = None]
  /\ object' = [object EXCEPT ![c] = None]
  /\ lease' = [lease EXCEPT ![c] = None]
  /\ disconnected' = disconnected \ {c}

\* reserve() retires whatever the table holds under its ID: no identity check,
\* it relies on entries staying in the table while they are being allocated.
RetireById(i, why) ==
  /\ active' = [active EXCEPT ![i] = None]
  /\ retired' = RetiredFor({active[i]}, why)

\* The allocation threw.
AllocationFailed(c) ==
  /\ phase[c] = "unallocated"
  /\ RetireById(id[c], "allocation-failed")
  /\ allocating' = allocating \ {object[c]}
  /\ Leave(c)
  /\ UNCHANGED <<deployment, shape, running, cause, expired, sequence>>

\* Back under the mutex with a sequence, the request was stopped meanwhile.  The
\* clock is looked at before the recorded cause.  The sequence dies with the
\* last reference, before the mutex is released.
AllocationStopped(c) ==
  LET o == object[c] IN
  /\ phase[c] = "allocated"
  /\ cancelled(o) \/ o \in expired
  /\ RetireById(id[c], IF o \in expired THEN "expired" ELSE "cancelled")
  /\ allocating' = allocating \ {o}
  /\ sequence' = [sequence EXCEPT ![o] = None]
  /\ Leave(c)
  /\ UNCHANGED <<deployment, shape, running, cause, expired>>

\* Back under the mutex in time: ReserveRequest answers, acquire() goes on to
\* claim the request for its handler.
AllocationKept(c) ==
  LET o == object[c] IN
  /\ phase[c] = "allocated"
  /\ ~cancelled(o) /\ o \notin expired
  /\ allocating' = allocating \ {o}
  /\ IF executes[c]
     THEN /\ running' = running \cup {o}
          /\ phase' = [phase EXCEPT ![c] = "running"]
          /\ lease' = [lease EXCEPT ![c] = deployment]
          /\ UNCHANGED <<executes, id, object, disconnected>>
     ELSE Leave(c) /\ UNCHANGED running
  /\ retired' = Silence
  /\ UNCHANGED <<deployment, active, shape, cause, expired, sequence>>

\* CancelRequest for the loaded plan.
CancelRequest(i) ==
  LET o == active[i] IN
  /\ deployment # None
  /\ o # None
  /\ cause' = Stop(o, "cancelled")
  /\ active' = [active EXCEPT ![i] = IF Idle(o) THEN None ELSE @]
  /\ sequence' = [sequence EXCEPT ![o] = IF Idle(o) THEN None ELSE @]
  /\ retired' = RetiredFor(IF Idle(o) THEN {o} ELSE {}, "cancelled")
  /\ UNCHANGED <<deployment, shape, allocating, running, expired, callVars>>

-----------------------------------------------------------------------------
(* The execution handlers, as far as the table sees them *)

\* Mutation: whatever is in the table under the ID is released.
ReleaseById(c, why) ==
  LET o == active[id[c]] IN
  /\ active' = [active EXCEPT ![id[c]] = None]
  /\ sequence' = [s \in Objects |-> IF s = o THEN None ELSE sequence[s]]
  /\ running' = running \ {o}
  /\ retired' = RetiredFor({o}, why)

\* release(): only the entry the handler was given, never a later one that
\* reuses its ID.
Release(c, why) ==
  LET o == object[c] IN
  IF active[id[c]] = o
  THEN /\ active' = [active EXCEPT ![id[c]] = None]
       /\ sequence' = [sequence EXCEPT ![o] = None]
       /\ running' = running \ {o}
       /\ retired' = RetiredFor({o}, why)
  ELSE /\ UNCHANGED <<active, sequence, running>>
       /\ retired' = Silence

\* Mutation: only a recorded cause counts, not the clock.
FailureReasonByCause(o, why) == IF why = "none" THEN "failed" ELSE why

\* The reason release(kFailed) records for a request with this stop cause.
FailureReason(o, why) ==
  IF why = "cancelled" THEN "cancelled"
  ELSE IF why = "expired" \/ o \in expired THEN "expired" ELSE "failed"

\* The stop a handler or its watchdog derives from what it sees itself.
OwnStop(o) == Stop(o, IF o \in expired THEN "expired" ELSE "cancelled")

\* The last check_running() before the outcome is committed.
CheckRunning(c) ==
  /\ phase[c] = "running"
  /\ ~cancelled(object[c]) /\ object[c] \notin expired /\ c \notin disconnected
  /\ phase' = [phase EXCEPT ![c] = "committing"]
  /\ retired' = Silence
  /\ UNCHANGED <<deployment, active, requestVars, executes, id, object, lease,
                 disconnected>>

\* release(kCompleted), after the watchdog was joined.
Complete(c) ==
  /\ phase[c] = "committing"
  /\ Release(c, "completed")
  /\ phase' = [phase EXCEPT ![c] = "completed"]
  /\ UNCHANGED <<deployment, shape, allocating, cause, expired, executes, id, object,
                 lease, disconnected>>

\* ~RequestGuard: the handler failed, or it is leaving after kCompleted.  A
\* disconnect nobody recorded yet is recorded before the failure is classified.
Unwind(c) ==
  LET o == object[c]
      stopped == IF c \in disconnected THEN OwnStop(o) ELSE cause
  IN
  /\ phase[c] \in {"running", "completed"}
  /\ cause' = stopped
  /\ Release(c, FailureReason(o, stopped[o]))
  /\ phase' = [phase EXCEPT ![c] = "ended"]
  /\ UNCHANGED <<deployment, shape, allocating, expired, executes, id, object, lease,
                 disconnected>>

\* The lease is destroyed after the guard's body.
DropLease(c) ==
  /\ phase[c] = "ended"
  /\ Leave(c)
  /\ retired' = Silence
  /\ UNCHANGED <<deployment, active, requestVars>>

\* The watchdog of a running handler sees a stop, a disconnect or the deadline.
\* It cancels the transport too, except past the deadline outside blocked I/O.
Watchdog(c) ==
  LET o == object[c] IN
  /\ phase[c] = "running"
  /\ cancelled(o) \/ o \in expired \/ c \in disconnected
  /\ cause' = OwnStop(o)
  /\ \/ disconnected' = disconnected \cup {c}
     \/ o \in expired /\ UNCHANGED disconnected
  /\ retired' = Silence
  /\ UNCHANGED <<deployment, active, shape, allocating, running, expired, sequence,
                 phase, executes, id, object, lease>>

\* The client of an execution call goes away.
Disconnect(c) ==
  /\ executes[c] /\ c \notin disconnected
  /\ disconnected' = disconnected \cup {c}
  /\ retired' = Silence
  /\ UNCHANGED <<deployment, active, requestVars, phase, executes, id, object, lease>>

\* A deadline passes.  Every reservation has one, at most an hour away, and a
\* retry can only bring it forward.
Expire(o) ==
  /\ o \in Mapped /\ o \notin expired
  /\ expired' = expired \cup {o}
  /\ retired' = Silence
  /\ UNCHANGED <<deployment, active, shape, allocating, running, cause, sequence,
                 callVars>>

Next ==
  \/ Prune \/ UnloadStage
  \/ \E d \in Deployments : LoadStage(d)
  \/ \E c \in Calls, i \in Ids, sh \in Shapes :
       \/ AcquireReserved(c, i, sh)
       \/ \E exec \in BOOLEAN, o \in Objects : Reserve(c, exec, i, sh, o)
  \/ \E c \in Calls :
       \/ Allocate(c) \/ AllocationFailed(c) \/ AllocationStopped(c) \/ AllocationKept(c)
       \/ CheckRunning(c) \/ Complete(c) \/ Unwind(c) \/ DropLease(c)
       \/ Watchdog(c) \/ Disconnect(c)
  \/ \E i \in Ids : CancelRequest(i)
  \/ \E o \in Objects : Expire(o)

Spec == Init /\ [][Next]_vars

-----------------------------------------------------------------------------
(***************************************************************************)
(* Properties                                                              *)
(***************************************************************************)

\* Every variable has its type, and the table stays within its configured size.
TypeOK ==
  /\ Cardinality(Mapped) <= maximum_active_requests
  /\ deployment \in Deployments \cup {None}
  /\ active \in [Ids -> Objects \cup {None}]
  /\ shape \in [Objects -> Shapes \cup {None}]
  /\ allocating \in SUBSET Objects /\ running \in SUBSET Objects
  /\ expired \in SUBSET Objects
  /\ cause \in [Objects -> Causes]
  /\ sequence \in [Objects -> Deployments \cup {None}]
  /\ phase \in [Calls -> Phases]
  /\ executes \in [Calls -> BOOLEAN]
  /\ id \in [Calls -> Ids \cup {None}]
  /\ object \in [Calls -> Objects \cup {None}]
  /\ lease \in [Calls -> Deployments \cup {None}]
  /\ disconnected \in SUBSET Calls
  /\ retired \in [Objects -> Reasons \cup {"none"}]

Reserving == {"allocating", "allocated", "unallocated"}
Executing == {"running", "committing"}

\* The request a call is allocating or executing is in the table under the
\* call's ID, and is flagged so: neither cancellation, expiry, a retry, nor the
\* tail of an earlier request with the same ID removes it from under the call.
OwnedRequestsStay ==
  \A c \in Calls :
    /\ phase[c] \in Reserving => active[id[c]] = object[c] /\ object[c] \in allocating
    /\ phase[c] \in Executing => active[id[c]] = object[c] /\ object[c] \in running

\* A sequence has one execution owner, and none while it is being allocated.
OneOwner ==
  \A c, d \in Calls :
    /\ phase[c] \in Reserving \cup Executing
    /\ phase[d] \in Reserving \cup Executing
    /\ object[c] = object[d]
    => c = d

\* Whoever executes does so on a sequence that exists and was allocated by the
\* very deployment its lease holds, and that deployment is still the loaded one.
ExecutesOnItsDeployment ==
  \A c \in Calls :
    phase[c] \in Executing =>
      /\ lease[c] # None
      /\ sequence[object[c]] = lease[c]
      /\ lease[c] = deployment

\* A sequence exists only while its request is in the table, so admission counts
\* all cache memory there is.
SequencesAreAccounted == \A o \in Objects : sequence[o] # None => o \in Mapped

\* What the worker uses never exceeds its capacity: the loaded weights, the cache
\* of every existing sequence and the workspace of the widest pass the executing
\* requests can form.
MemoryWithinCapacity ==
  LET held == {o \in Objects : sequence[o] # None}
      executing == {object[c] : c \in {d \in Calls : phase[d] \in Executing}}
      cache == [o \in held |-> CacheBytes(shape[o])]
      work == [o \in executing |-> WorkspaceBytes(shape[o])]
  IN  deployment # None =>
        WeightBytes + Total(cache, held) + LargestWorkspaces(executing, work) <= Capacity

\* Every retirement the lifecycle log reports is of a request that was in the
\* table and no longer is, and every request that leaves the table is reported
\* with a reason that is true of it.
RetirementsAreTrue ==
  [][\A o \in Objects :
       /\ retired'[o] # "none" <=> (o \in Mapped /\ o \notin Mapped')
       /\ retired'[o] = "completed" =>
            \E c \in Calls : object[c] = o /\ phase[c] = "committing"
       /\ retired'[o] = "cancelled" => cause'[o] = "cancelled"
       /\ retired'[o] = "expired" => o \in expired
       /\ retired'[o] = "failed" => cause'[o] = "none" /\ o \notin expired]_vars

\* control_service.hpp: "Why a request was asked to stop. The first cause wins".
FirstCauseWins ==
  [][\A o \in Objects :
       retired'[o] \in {"cancelled", "expired"} /\ cause'[o] # "none" =>
         retired'[o] = cause'[o]]_vars

-----------------------------------------------------------------------------
(***************************************************************************)
(* Liveness                                                                *)
(***************************************************************************)

Stopped(c) == cancelled(object[c]) \/ object[c] \in expired \/ c \in disconnected

\* Deadlines pass and the reaper runs every 20 ms; allocations and the critical
\* sections end; a handler whose request was stopped notices it (compute polls
\* the flag, the watchdog breaks blocked I/O) and unwinds.  Nothing makes a
\* client call, cancel or disconnect, or a handler finish in time.
Fairness ==
  /\ WF_vars(Prune)
  /\ \A o \in Objects : WF_vars(Expire(o))
  /\ \A c \in Calls :
       /\ WF_vars(Allocate(c))
       /\ WF_vars(AllocationFailed(c) \/ AllocationStopped(c) \/ AllocationKept(c))
       /\ WF_vars(Complete(c))
       /\ WF_vars(phase[c] = "running" /\ Stopped(c) /\ Unwind(c))

FairSpec == Spec /\ Fairness

\* No reservation is leaked: whatever its client does, an admitted request
\* leaves the table.
EveryRequestRetires == \A o \in Objects : o \in Mapped ~> o \notin Mapped
=============================================================================
