---------------------------- MODULE HttpServing -----------------------------
(***************************************************************************)
(* The HTTP server in front of a deployment                                *)
(* (python/hllm_control/serving/app.py and runtime.py): FIFO admission to  *)
(* a fixed number of slots, one Generate call per slot, the cleanup that   *)
(* retires an interrupted call on every worker, and the release of the     *)
(* slot.                                                                   *)
(*                                                                         *)
(* The server is one event loop: a step is what one task does between two  *)
(* awaits.  The workers (cpp/src/worker/execution_service.cpp) run beside  *)
(* it; their handlers are reduced to entering and leaving the tables of    *)
(* active requests and may fail at any moment (ControlService and          *)
(* StagePipeline have the detail).  Stage 1 is the driver that serves      *)
(* Generate, stage 2 the one it opens a stream to.  Text, sampling and the *)
(* metrics are left out.                                                   *)
(***************************************************************************)
EXTENDS Integers, Sequences, FiniteSets, SequencesExt

CONSTANTS
  Requests,    \* HTTP requests
  maximum,     \* serving concurrency, also --max-active-requests of the workers
  QueueLimits, \* configured lengths of the admission queue
  Stages       \* 1..1 or 1..2

ASSUME ServingAssumption ==
  /\ IsFiniteSet(Requests)
  /\ maximum \in Nat \ {0} /\ QueueLimits \subseteq Nat
  /\ Stages \in {1..1, 1..2}

VARIABLES
  queued,        \* Admission.queued, from the configuration
  at,            \* where each request's task is
  streams,       \* requests that asked for a streamed response
  waiters,       \* Admission.waiters
  active,        \* Admission.active
  owners,        \* requests whose slot_owned is true
  asked,         \* workers that were sent its CancelRequest
  reports,       \* workers that answered this polling round, and what they said
  confirmed,     \* requests whose native cleanup was confirmed
  cleanupFailed, \* cleanup_failed
  expired, gone, \* requests past their deadline; whose client has disconnected
  rpc,           \* the Generate call
  quit,          \* calls cancelled by their client side
  opening,       \* the message that opens the stage-2 sequence
  on,            \* the workers that list the request as active
  started        \* requests that have produced a token

serverVars == <<queued, at, streams, waiters, active, owners>>
retireVars == <<asked, reports, confirmed, cleanupFailed>>
clientVars == <<expired, gone>>
nativeVars == <<rpc, quit, opening, on, started>>
vars == <<serverVars, retireVars, clientVars, nativeVars>>

Go(r, place) == at' = [at EXCEPT ![r] = place]

NoReports == [s \in {} |-> TRUE]

\* The locals of retire() die with it.
LeaveRetire(r) ==
  /\ Go(r, "releasing")
  /\ asked' = [asked EXCEPT ![r] = {}]
  /\ reports' = [reports EXCEPT ![r] = NoReports]

Init ==
  /\ queued \in QueueLimits
  /\ at = [r \in Requests |-> "new"]
  /\ streams \in SUBSET Requests
  /\ waiters = <<>> /\ active = 0 /\ owners = {}
  /\ asked = [r \in Requests |-> {}]
  /\ reports = [r \in Requests |-> NoReports]
  /\ confirmed = {} /\ cleanupFailed = FALSE
  /\ expired = {} /\ gone = {}
  /\ rpc = [r \in Requests |-> "none"]
  /\ quit = {} /\ opening = [r \in Requests |-> "none"]
  /\ on = [r \in Requests |-> {}]
  /\ started = {}

-----------------------------------------------------------------------------
(* Admission *)

\* complete() up to its first await: refused outright, or queued.
Arrive(r) ==
  /\ at[r] = "new"
  /\ IF cleanupFailed \/ active + Len(waiters) >= maximum + queued
     THEN Go(r, "done") /\ UNCHANGED waiters
     ELSE Go(r, "queued") /\ waiters' = Append(waiters, r)
  /\ UNCHANGED <<queued, streams, active, owners, retireVars, clientVars, nativeVars>>

\* The loop condition of acquire(): first in line, and a slot is free.
Turn(r) == Head(waiters) = r /\ active < maximum

\* Mutation: what is known before the wait is trusted after it.
AdmitUnchecked(r) ==
  /\ at[r] = "queued" /\ Turn(r) /\ r \notin expired
  /\ waiters' = Tail(waiters)
  /\ Go(r, "admitted") /\ active' = active + 1 /\ owners' = owners \cup {r}
  /\ UNCHANGED <<queued, streams, retireVars, clientVars, nativeVars>>

\* The wait is over: the slot is taken, and given back at once when a cleanup
\* has failed meanwhile.  There is no await in between.
Admit(r) ==
  /\ at[r] = "queued" /\ Turn(r) /\ r \notin expired
  /\ waiters' = Tail(waiters)
  /\ IF cleanupFailed
     THEN Go(r, "done") /\ UNCHANGED <<active, owners>>
     ELSE Go(r, "admitted") /\ active' = active + 1 /\ owners' = owners \cup {r}
  /\ UNCHANGED <<queued, streams, retireVars, clientVars, nativeVars>>

\* A waiter leaves: past its deadline, or disconnected before its turn.
GiveUp(r) ==
  /\ at[r] = "queued"
  /\ r \in expired \/ (r \in gone /\ ~Turn(r))
  /\ \E i \in DOMAIN waiters : waiters[i] = r /\ waiters' = RemoveAt(waiters, i)
  /\ Go(r, "done")
  /\ UNCHANGED <<queued, streams, active, owners, retireVars, clientVars, nativeVars>>

-----------------------------------------------------------------------------
(* One admitted request *)

\* events() starts with the first read of the response.
Begin(r) ==
  /\ at[r] = "admitted"
  /\ Go(r, "open")
  /\ UNCHANGED <<queued, streams, waiters, active, owners, retireVars, clientVars,
                 nativeVars>>

\* A streamed response whose body is never read, the client being gone or stuck
\* past the deadline: events() never starts, and only the response itself is
\* left to give the slot back.
Abandon(r) ==
  /\ at[r] = "admitted" /\ r \in streams /\ r \in gone \cup expired
  /\ Go(r, "closing")
  /\ UNCHANGED <<queued, streams, waiters, active, owners, retireVars, clientVars,
                 nativeVars>>

\* The first next_token() sends the Generate call, unless it is already too late.
Call(r) ==
  /\ at[r] = "open"
  /\ IF r \in expired
     THEN Go(r, "releasing") /\ UNCHANGED rpc
     ELSE Go(r, "calling") /\ rpc' = [rpc EXCEPT ![r] = "flight"]
  /\ UNCHANGED <<queued, streams, waiters, active, owners, retireVars, clientVars, quit,
                 opening, on, started>>

\* The client goes away before there is a call.
Quit(r) ==
  /\ at[r] = "open" /\ r \in gone
  /\ Go(r, "releasing")
  /\ UNCHANGED <<queued, streams, waiters, active, owners, retireVars, clientVars, nativeVars>>

\* The stream ended after its terminal event: nothing to retire.
Finished(r) ==
  /\ at[r] = "calling" /\ rpc[r] = "completed"
  /\ Go(r, "releasing")
  /\ confirmed' = confirmed \cup {r}
  /\ UNCHANGED <<queued, streams, waiters, active, owners, asked, reports, cleanupFailed,
                 clientVars, nativeVars>>

\* generate() is left without a terminal event: by a native error, the deadline,
\* a client that is gone, or a stop string in the text so far.
Interrupt(r) ==
  /\ at[r] = "calling"
  /\ rpc[r] = "failed" \/ r \in expired \cup gone \cup started
  /\ Go(r, "retiring")
  /\ quit' = quit \cup {r}
  /\ UNCHANGED <<queued, streams, waiters, active, owners, retireVars, clientVars, rpc,
                 opening, on, started>>

\* Mutation: the slot is given back as often as it is asked for.
FreeSlotAlways(r) == active' = active - 1 /\ owners' = owners \ {r}

\* release_slot()
FreeSlot(r) ==
  IF r \in owners THEN active' = active - 1 /\ owners' = owners \ {r}
                  ELSE UNCHANGED <<active, owners>>

\* The finally clause of events().
Release(r) ==
  /\ at[r] = "releasing"
  /\ FreeSlot(r)
  /\ Go(r, IF r \in streams THEN "closing" ELSE "done")
  /\ UNCHANGED <<queued, streams, waiters, retireVars, clientVars, nativeVars>>

\* Mutation: the response leaves the slot to events().
CloseOnly(r) ==
  /\ at[r] = "closing"
  /\ Go(r, "done")
  /\ UNCHANGED <<queued, streams, waiters, active, owners, retireVars, clientVars,
                 nativeVars>>

\* The finally clause of ManagedStream, whether or not events() ever ran.
Close(r) ==
  /\ at[r] = "closing"
  /\ FreeSlot(r)
  /\ Go(r, "done")
  /\ UNCHANGED <<queued, streams, waiters, retireVars, clientVars, nativeVars>>

-----------------------------------------------------------------------------
(* retire() *)

\* CancelRequest reaches one worker.  What it does there is for the worker to see
\* (NEnd, NLeave): a request it does not list is not remembered.
AskCancel(r, s) ==
  /\ at[r] = "retiring" /\ s \notin asked[r]
  /\ asked' = [asked EXCEPT ![r] = @ \cup {s}]
  /\ UNCHANGED <<serverVars, reports, confirmed, cleanupFailed, clientVars, nativeVars>>

\* GetMemoryReport of one worker.  The reports of a round are gathered from the
\* workers independently, in any order.
Report(r, s) ==
  /\ at[r] = "retiring" /\ asked[r] = Stages /\ s \notin DOMAIN reports[r]
  /\ reports' = [reports EXCEPT ![r] =
                   [t \in DOMAIN @ \cup {s} |-> IF t = s THEN s \in on[r] ELSE @[t]]]
  /\ UNCHANGED <<serverVars, asked, confirmed, cleanupFailed, clientVars, nativeVars>>

\* Mutation: only the driver is asked.
DriverListsNone(r) == ~reports[r][1]

\* all(identifier not in report.active_request_ids)
NoneLists(r) == \A s \in Stages : ~reports[r][s]

\* A full round confirms the cleanup, is repeated, or was the last one.
Conclude(r) ==
  /\ at[r] = "retiring" /\ DOMAIN reports[r] = Stages
  /\ \/ /\ NoneLists(r)
        /\ confirmed' = confirmed \cup {r}
        /\ LeaveRetire(r)
        /\ UNCHANGED cleanupFailed
     \/ /\ ~NoneLists(r)
        /\ reports' = [reports EXCEPT ![r] = NoReports]
        /\ UNCHANGED <<at, asked, confirmed, cleanupFailed>>
  /\ UNCHANGED <<queued, streams, waiters, active, owners, clientVars, nativeVars>>

\* A control call failed, or the request was still listed after five seconds.
Unconfirmed(r) ==
  /\ at[r] = "retiring"
  /\ cleanupFailed' = TRUE
  /\ LeaveRetire(r)
  /\ UNCHANGED <<queued, streams, waiters, active, owners, confirmed, clientVars,
                 nativeVars>>

-----------------------------------------------------------------------------
(* The clients and the workers *)

Expire(r) ==
  /\ at[r] \notin {"new", "done"} /\ r \notin expired
  /\ expired' = expired \cup {r}
  /\ UNCHANGED <<serverVars, retireVars, gone, nativeVars>>

\* A disconnect after that changes nothing.
Disconnect(r) ==
  /\ at[r] \in {"queued", "admitted", "open", "calling"} /\ r \notin gone
  /\ gone' = gone \cup {r}
  /\ UNCHANGED <<serverVars, retireVars, expired, nativeVars>>

\* --max-active-requests of a worker is not reached.
Room(s) == Cardinality({r \in Requests : s \in on[r]}) < maximum

\* The handler of Generate starts and reserves, also for a call that was
\* cancelled on its way; or it is refused (no room, its deadline has passed), or
\* never starts.
NStart(r) ==
  /\ rpc[r] = "flight"
  /\ \/ /\ Room(1) /\ r \notin expired
        /\ rpc' = [rpc EXCEPT ![r] = "serving"]
        /\ on' = [on EXCEPT ![r] = @ \cup {1}]
     \/ /\ ~Room(1) \/ r \in quit \cup expired
        /\ rpc' = [rpc EXCEPT ![r] = "failed"]
        /\ UNCHANGED on
  /\ UNCHANGED <<serverVars, retireVars, clientVars, quit, opening, started>>

\* The driver opens the sequence at stage 2.
NOpen(r) ==
  /\ rpc[r] = "serving" /\ Stages = 1..2 /\ opening[r] = "none"
  /\ opening' = [opening EXCEPT ![r] = "flight"]
  /\ UNCHANGED <<serverVars, retireVars, clientVars, rpc, quit, on, started>>

\* The handler of Execute starts and reserves, or is refused or cancelled first.
NExecute(r) ==
  /\ opening[r] = "flight"
  /\ opening' = [opening EXCEPT ![r] = "done"]
  /\ \/ Room(2) /\ r \notin expired /\ on' = [on EXCEPT ![r] = @ \cup {2}]
     \/ (~Room(2) \/ r \in expired \/ rpc[r] # "serving") /\ UNCHANGED on
  /\ UNCHANGED <<serverVars, retireVars, clientVars, rpc, quit, started>>

\* Both stages have worked, and the driver writes a token.
NToken(r) ==
  /\ at[r] = "calling" /\ rpc[r] = "serving" /\ on[r] = Stages /\ r \notin started
  /\ started' = started \cup {r}
  /\ UNCHANGED <<serverVars, retireVars, clientVars, rpc, quit, opening, on>>

\* Stage 2 retires the request, for whatever reason.
NLeave(r) ==
  /\ 2 \in on[r]
  /\ on' = [on EXCEPT ![r] = @ \ {2}]
  /\ UNCHANGED <<serverVars, retireVars, clientVars, rpc, quit, opening, started>>

\* The driver retires it: completed only once stage 2 has let go.
NEnd(r) ==
  /\ rpc[r] = "serving"
  /\ \/ r \in started /\ on[r] = {1} /\ rpc' = [rpc EXCEPT ![r] = "completed"]
     \/ rpc' = [rpc EXCEPT ![r] = "failed"]
  /\ on' = [on EXCEPT ![r] = @ \ {1}]
  /\ UNCHANGED <<serverVars, retireVars, clientVars, quit, opening, started>>

ServerStep(r) ==
  \/ Arrive(r) \/ Admit(r) \/ GiveUp(r) \/ Begin(r) \/ Abandon(r) \/ Call(r) \/ Quit(r)
  \/ Finished(r) \/ Interrupt(r) \/ Release(r) \/ Close(r)
  \/ (\E s \in Stages : AskCancel(r, s) \/ Report(r, s)) \/ Conclude(r) \/ Unconfirmed(r)

NativeStep(r) ==
  NStart(r) \/ NOpen(r) \/ NExecute(r) \/ NToken(r) \/ NLeave(r) \/ NEnd(r)

Next ==
  \E r \in Requests : ServerStep(r) \/ NativeStep(r) \/ Expire(r) \/ Disconnect(r)

Spec == Init /\ [][Next]_vars

\* Deadlines pass, the event loop runs every task that can go on, retire() polls
\* for five seconds at most, and a response is cut off five seconds after its
\* deadline.  Nothing is asked of the workers or of the clients.
Fairness ==
  \A r \in Requests :
    /\ WF_vars(Expire(r))
    /\ WF_vars(Admit(r) \/ GiveUp(r))
    /\ WF_vars(Begin(r) \/ Abandon(r)) /\ WF_vars(Call(r) \/ Quit(r))
    /\ WF_vars(Finished(r) \/ Interrupt(r))
    /\ WF_vars(Unconfirmed(r))
    /\ WF_vars(Release(r)) /\ WF_vars(Close(r))

FairSpec == Spec /\ Fairness

-----------------------------------------------------------------------------
(***************************************************************************)
(* Properties                                                              *)
(***************************************************************************)

\* Every variable has its type.
TypeOK ==
  /\ queued \in QueueLimits
  /\ at \in [Requests -> {"new", "queued", "admitted", "open", "calling", "retiring",
                          "releasing", "closing", "done"}]
  /\ streams \subseteq Requests /\ waiters \in Seq(Requests)
  /\ active \in 0..maximum /\ owners \subseteq Requests
  /\ asked \in [Requests -> SUBSET Stages]
  /\ \A r \in Requests : DOMAIN reports[r] \subseteq Stages
  /\ confirmed \subseteq Requests /\ cleanupFailed \in BOOLEAN
  /\ expired \subseteq Requests /\ gone \subseteq Requests
  /\ rpc \in [Requests -> {"none", "flight", "serving", "completed", "failed"}]
  /\ quit \subseteq Requests /\ opening \in [Requests -> {"none", "flight", "done"}]
  /\ on \in [Requests -> SUBSET Stages] /\ started \subseteq Requests

\* A slot is given back once, although two finally clauses release it, and only
\* when its request has finished using it: admission counts the owners exactly,
\* and they and the waiters stay within the configured limits.  (Every variable
\* has its type as well.)
SlotsAreCounted ==
  /\ TypeOK
  /\ active = Cardinality(owners)
  /\ active + Len(waiters) <= maximum + queued
  /\ \A r \in Requests :
       at[r] \in {"admitted", "open", "calling", "retiring", "releasing"} => r \in owners

\* The cleanup retire() confirms is real for a request that had produced a token:
\* no worker lists it, then or later.
ConfirmedMeansRetired == \A r \in confirmed \cap started : on[r] = {}

\* docs/milestone-6.md: unconfirmed cleanup makes admissions fail closed until
\* restart, including requests already waiting in the queue.
FailClosed == [][cleanupFailed => owners' \subseteq owners]_vars

\* docs/milestone-6.md: a disconnect polls each worker until the request is
\* retired, before its HTTP slot is reused.
RetiredBeforeSlotReuse == \A r \in confirmed : on[r] = {}

\* Whatever the client and the workers do, a request that arrived is answered or
\* given up, and its slot is free again.
EveryRequestEnds ==
  \A r \in Requests : at[r] # "new" ~> at[r] = "done" /\ r \notin owners
=============================================================================
