# A verification development of the hLLM runtime

hLLM splits a decoder-only language model over one or two native workers. A Python
controller plans the split, loads the stages and drives generation; an HTTP server puts
OpenAI-style requests in front of it. This directory holds TLA+ modules of the parts in
which many actors share state, the TLC configurations that check them on small instances,
and TLAPS proofs of the properties that matter most for instances of any size.

## 1. The system

| Component | State | Operations | Hard because |
| --- | --- | --- | --- |
| Scheduler (`cpp/src/worker/scheduler.cpp`) | two queues of tickets on callers' stacks, `executing_`, `decode_streak_`, batch size | `configure`, `execute` | callers lead each other's passes; the mutex is free while a pass runs; tickets die with their caller |
| Control service (`cpp/src/worker/control_service.cpp`) | `deployment_`, `active_`, per request: flags, deadline, stop cause, sequence | `LoadStage`, `UnloadStage`, `ReserveRequest`, `acquire`/`release`, `CancelRequest`, reports, reaper thread | allocation and execution happen outside the mutex; objects outlive their table entry; IDs are reused |
| Execution services (`cpp/src/worker/execution_service.cpp`, `boundary_codec.cpp`) | per handler: position, step, counts, lease, watchdog, peer stream | `Generate` (stage 0), `Execute` (stage 1) | two machines keep the same counters apart; each can fail, be cancelled or be cut off anywhere |
| HTTP serving (`python/hllm_control/serving/app.py`, `runtime.py`) | FIFO admission, slots, calls, `cleanup_failed` | `complete`, `events`, `ManagedStream`, `generate`, `retire` | every await is an interleaving point; cleanup polls workers that are still moving |
| Deployment session (`controller.py`) | loaded stages, request IDs, channels | enter (load), `generate`, `cancel`, `close` (unload) | lost responses, retries until a time limit |
| Backends (`cpp/src/cpu`, `cuda`, `mlx`, `decode_batch.cpp`) | weights, KV cache length, failed flag | `execute`, `execute_decode_batch`, `allocate_sequence` | interrupted passes, batch composition |
| Buffers (`buffer.cpp`, `cuda/pinned_buffer.hpp`) | pool counters, pending transfers | acquire, release, upload, wait | reuse while a transfer is pending |
| Planner (`python/hllm_control/planner`, `models.py`) | none; a bundle of sealed evidence | enumerate, fit, score, sign; activate a measured plan | ties and boundary cases; two validators in two languages; evidence ages and machines change between the steps |
| Profiling (`profiling/runner.py`, `link.py`, `memory.py`) | artifacts, the monitor thread's observations | memory and link profiles, fit assessment | partial measurements, a thread that outlives its join |
| Regret sweep (`qualification/sweep.py`, `native.py`, `host.py`) | job directories, owned worker processes | probe, serve, save, resume, summarize | interrupts and crashes between two files; workers of earlier attempts |
| Concurrency experiment (`scripts/validation/concurrent_soak.py`, `qualification/concurrent.py`) | snapshots, rounds, gates; the workers' bounded lifecycle logs | gate, load, paired and cancel rounds, polling, derivations, acceptance | a verdict about simultaneity from two clocks, lossy logs and unlucky polls |
| Sampling, text output, tensor envelope, safetensors | per sequence | pure algorithms | numeric and boundary cases |
| Preparation, wire conversion, CLI | none | parsing and I/O | - |

Interactions: the HTTP server calls `Generate` on stage 0, `CancelRequest` and
`GetMemoryReport` on every worker. `Generate` acquires a lease from its control service,
submits each pass to the deployment's scheduler, and drives `Execute` on stage 1 over a
bidirectional stream; `Execute` does the same on its worker. The reaper and one watchdog
thread per handler run beside them. The session loads stages downstream first and unloads
them in the reverse order of loading.

What makes each modelled part correct:

- scheduler: no ticket is lost or outlives its caller; one pass at a time; every member
  of a pass is answered; nobody starves;
- control service: an entry a call works on stays; one owner; execution on a live sequence
  of the loaded stage; admission bounds the memory in use; recorded reasons are true;
  nothing is leaked;
- execution: the two handlers never disagree; a completed answer means a completed
  pipeline; the client sees a gapless token stream; both reservations come back;
- session: an open session has its stages, downstream before the driver; a closed one has
  left none behind; entering and closing end;
- HTTP: slots are counted exactly; cleanup is what it claims to be; admission fails closed;
  every request ends;
- planning: the plan does not depend on the order of the input; both languages accept what
  one of them signed; a plan is activated only on fresh evidence about the machines that
  answer, and is refused only for a reason;
- sweep: results are written once; every attempt is served by processes of its own; the
  decision is about all results, and a pass is earned;
- concurrency experiment: overlap is derived exactly when it happened; an accepted record
  is earned in every round.

## 2. Modules

| Module | Models | State and actions |
| --- | --- | --- |
| `StageScheduler` | `StageScheduler` | `prefills`, `decodes`, `claimed`, `answer` are the tickets; `dispatch`, `executing`, `streak` the running pass. One action per critical section: `Submit`, `Drop` (own cancellation), `Lead` (claim and dispatch, with the members refused at the claim), `Deliver`, `Return`; `Configure`; `Cancel` and `Expire` from outside. `overtaken` and `delayed` are history counters for fairness |
| `PassServer` | its promise to callers | waiting, running, answered; passes form and finish |
| `ControlService` | `ControlService`, `RequestGuard`, `Watchdog` | `active` maps IDs to objects; objects and deployments are addresses, reusable when nothing refers to them. `Reserve` ends where the mutex is released; `Allocate`, `AllocationFailed`, `AllocationStopped`, `AllocationKept` follow; `CheckRunning`, `Complete`, `Unwind`, `DropLease` are a handler's end. `retired` holds the lifecycle events of the last step |
| `StagePipeline` | `Generate`, `Execute`, the stream between them | both handlers' counters, `up` and `down` messages, `lease0`, `lease1`; `G...` actions are stage 0, `E...` stage 1. A write to a broken stream may still be accepted; a read of it may still find what had arrived |
| `TokenStream` | what the client of `Generate` is promised | the events so far |
| `HttpServing` | `Admission`, `complete`, `ManagedStream`, `ServingRuntime.generate`, `retire` | `at` is where each request's task is; `owners` the requests with `slot_owned`; `asked` and `reports` the progress of `retire`. The workers' handlers (`NStart` ... `NEnd`) are reduced to entering and leaving the tables of active requests, and may fail at any moment |
| `DeploymentSession` | `DeploymentSession`, `LoadStage` and `UnloadStage` as its peers | `plan` is what each session was given, `at`, `index`, `loaded` its own state; `wire` the calls no worker has handled, awaited or abandoned; `table` the plan on each worker and `busy` its requests. A call fails with its request lost, its reply lost, or its handler still to run. A worker compares plans, not sessions: sessions that share a plan match each other's unloads and find their loads already done. `restarted` and `taken` are histories of who lost a stage, `unsettled` of who left one |
| `PlacementModels`, `Planner` | `models.py`, `planner.py`, `wire.py`, `placements` of `sweep.py`, `validate_plan` of `control_service.cpp` | pure operators with the source's names: memory of a stage, links, scores, `create_plan`, the hashed fields (`model_dump`), the wire conversions and both validators, with the stage endpoints that the session sends along. A digest is the record that is hashed; on the wire its text is never empty (`Hex`). The candidate that is reported is the first of those no other precedes (`Selected`), which is the head of the stable `sorted` |
| `ProfileArtifacts` | `profiling/models.py`, `memory.py` | the phases of a memory measurement, what makes an artifact valid, the fit assessment and the footprint policy |
| `Placement` | `run_memory_profile`, `run_link_profile`, `seal_disk_bundle`, `evaluate`, `validate_activation` | `world` is the two machines, with free host and device memory (`free`, `room`) and whether a worker still has the configuration that was profiled (`configured`); the operator's commands are actions; activation takes one step for a worker's capabilities and qualification state and another for its memory report; `Tick`, `MachineChanges` and `Reroute` happen between any two of them |
| `Sweep` | `sweep.py`, `native.py`, `host.py` | `results` and `evidence` are the two files of a job; `workers` the processes; `pc` and `att` the running attempt. `Interrupt` is Ctrl-C, `Crash` the killed controller, `Invoke` a resumption; `Edit` changes the package at any moment, also inside an attempt; `Unwind` may leave a worker whose helper was terminated. `Regret` is the bootstrap interval against the limit: settled by the extreme samples where a median of any resampling is, and otherwise by `Resampled`, a constant operator of the seed and the samples |
| `ConcurrentEvidence` | `concurrent_soak.py`, `concurrent.py`, the lifecycle log of `control_service.cpp` | `worker` and `req` are what really happens on the workers, `obs` what the snapshots say of it, `h` the harness. The derivations keep their names; `truth` is a history of what they are about |
| `MC...` | instances | values of operator constants, symmetry sets |
| `StageSchedulerProofs`, `ControlServiceProofs`, `StagePipelineProofs`, `HttpServingProofs`, `DeploymentSessionProofs`, `SweepProofs`, `PlacementProofs`, `ConcurrentEvidenceProofs` | - | theorems about the module in the name, and their proofs |

The modules meet at named points. `StagePipeline` uses leases as `ControlService` defines
them (held, then completed or failed), and a pass as `PassServer` promises it (one answer,
or an exception). `HttpServing` uses the rule `StagePipeline` establishes as
`CompletedTogether`: a completed call has already left stage 1. `ControlService` sums one
pass's workspaces because the scheduler runs one pass at a time (`OnePass`). `Placement`
uses the operators of `Planner` and `ProfileArtifacts`; `Sweep` and `ConcurrentEvidence` use
the fit assessment of `ProfileArtifacts`, and the placements a sweep signs are checked in
`Planner` against the worker's `validate_plan`. `ConcurrentEvidence` takes over the order of
events that `ControlService` establishes: an admission is recorded before the allocation, a
retirement when the entry leaves the table.

Definitions whose comment starts with *Mutation* or *mutant* are altered copies of the definition that
follows them. No specification uses them; each breaks one property, which shows that the
property can fail.

Abstractions: deadlines are flags that become true once; memory is one domain; token
values are "a stop token" or not; messages carry only what the other end checks. Calls
that are refused before they change anything have no action, except for the pruning they
do first (`Prune`). Metrics, logs and reports are left out of the worker modules, but for the
retirement reasons; `ConcurrentEvidence` models the reports its verdict is derived from. There
the snapshots of a worker are kept as what the derivations read of them, and what they say of
a round is folded once both workers were seen idle, because its request IDs are not used again.

## 3. Runs

| Run | Instance | Shows |
| --- | --- | --- |
| `scheduler` | 3 requests, batch 2, streak 3 | `TypeOK`, `NoDanglingTicket`, `NoLostTicket`, `OnePass`, `BoundedBypass`, refinement of `PassServer` |
| `scheduler_fair` | 2 requests, batch 2, streak 2 | `EveryCallReturns` |
| `control` | 2 IDs, 2 threads, 3 objects, 2 deployments, 2 sizes | `OwnedRequestsStay`, `OneOwner`, `ExecutesOnItsDeployment`, `SequencesAreAccounted`, `MemoryWithinCapacity`, `RetirementsAreTrue` |
| `control_fair` | limit 1, 2 IDs, 2 threads | the limit (`TypeOK`), `EveryRequestRetires` |
| `pipeline` | prompts 1..5, chunks 0..6, outputs 1..3, one stage or two | `NoRejection`, `CompletedTogether`, `CachesAgree`, `ReservationsComeBack`, refinement of `TokenStream` |
| `http` | 2 requests, 1 slot, 0 or 1 queue places, two workers | `SlotsAreCounted`, `ConfirmedMeansRetired`, `FailClosed`, `EveryRequestEnds` |
| `session` | 2 sessions (one measured) with the same plan or one each, 2 stages, 1 restart | `OpenMeansLoaded`, `DownstreamFirst`, `ClosedMeansUnloaded`, `EverySessionReturns` |
| `placement` | 2 workers (equal, unequal, host and device), 2 or 3 layers, every mode and precision; 1 change of a machine (its hardware, driver, build, configuration, memory or load), 2 of the route | `PlanIsIndependentOfWorkerOrder`, `WorkersAcceptPlan`, `ActivatedOnItsEvidence`, `EvidenceWasFresh`, `RefusedForAReason`, `QualifiedMeansSteady` |
| `sweep` | 2 candidates, at most 2 rounds (`MaxRounds`), 2 invocations, 1 fault, job limits 2 and none, a seed for each side mixed samples can fall on | `PassIsEarned`, `DecisionIsOfAllResults`, `FreshWorkers`, `ResultsAreImmutable` |
| `concurrent` | one cycle: a serial, a paired and a cancel round; logs of 3 events; 1 fault | `OverlapIsExact`, `AcceptanceIsEarned` |
| `first_cause`, `slot_reuse` | smallest instances that show it | a documented statement the code does not keep; see section 6 |

Why the bounds are enough. Scheduler: a full batch of two with a third caller left in a
queue, and a streak that is not a multiple of the batch, so the cut of the limit matters.
Control: with three objects for two IDs, the tail of an old request meets a new request
with the same ID, and an unrelated one, at once; capacity 10 admits a long and a short request
together (weights 4, caches 2 and 1, workspaces 3 and 1) only because a pass holds one workspace,
and refuses a second long one by a single unit. Pipeline: prompts of five tokens have a short last
chunk for chunk sizes 2, 3 and 4, exact division for 1 and 5, and 6 exceeds the prompt;
three outputs give a first, a middle and a last token. HTTP: of two requests one has the
slot and the other waits, or is refused when there is no queue. Session: two sessions meet on the workers in every
phase, with a plan in common and without, and each has a stage in front of and behind the one that fails. Placement: a clock
of three ticks with limits of one and zero lets every piece of evidence be fresh, just in
time and too old; equal workers give equal scores. Sweep: a job limit of two stops the first
invocation inside a round, and one fault meets every step of an attempt. The code asks for at
least five rounds; two already give a round that is continued, samples that agree and samples
that are mixed, and the proofs are for any number. The limits are the defaults, 15 % regret and
10 % drift. Concurrent: a pair
has four events and a worker's log holds three (256 in the code), so the first admission is
lost unless a poll sees it in time; the four events of a round are also seen completely when
a poll comes early. Two members of a paired round are interchangeable, so the first is the one
that comes first. Faults (`MaxFaults`, `FaultRounds`) happen before the session and in the
paired round; the races of the cancel round need none. Workers are replaced only after the
first gate, and their logs hold no earlier experiment.

Deadlock checking is off: every one of these systems may stop, with all requests done.
The scheduler is checked with a backend that batches; one that does not behaves as a batch
size of one, which `Configure` reaches.

Fairness is stated per action and never asks a client or a remote worker for progress:

- `scheduler_fair`: threads run (the waits have a 5 ms timeout, so no wake-up is needed) and
  backend passes end; submitting, cancelling and expiring are not fair;
- `control_fair`: deadlines pass, the reaper runs every 20 ms, allocations and critical
  sections end, and a stopped handler unwinds (compute polls the flag, the watchdog breaks
  blocked I/O);
- `pipeline`: the deadline of stage 0 passes, its watchdog runs, `GFinish` is not
  blocked, and a handler whose stream is broken or whose flag is set unwinds;
- `session`: a session's thread runs, its calls time out and five seconds pass;
- `http`: deadlines pass, the event loop runs ready tasks, `retire` stops polling after
  five seconds, a response is cut off five seconds after its deadline.

`placement`, `sweep` and `concurrent` check safety only: an operator may always walk away.

## 4. Proofs

Each proof module extends the module it is about. Its theorems hold for every value of the
constants that satisfies the named assumption of that module. The argument is the same
throughout: an inductive invariant, a lemma per action (or a step per action, with one step
under it per conjunct the action can disturb), and the properties as consequences. Every
inductive invariant was checked with TLC on a small instance before it was proved.

**`StageSchedulerProofs`** (`SchedulerAssumption`: finitely many callers, a positive batch
and streak; backends that batch and that do not).

- `TypeCorrect`: `TypeOK`, inductive as it stands. It contains
  `streak <= kMaximumDecodeStreak`, so the unsigned subtraction in `execute` cannot wrap.
- `BypassIsBounded`: `BoundedBypass`, from `TurnsInv`: `overtaken <= streak`, a decode that
  was delayed sees a streak below its maximum (so it is not delayed twice), nobody is
  delayed in an empty queue. The count of overtaking decodes has to be tied to the streak.
- `TicketsAreAlive`, `TicketsAreKept`, `PassesAreExclusive`: `NoDanglingTicket`,
  `NoLostTicket`, `OnePass`, from `SchedulerInv` = `TypeOK /\ TicketInv /\ OnePass`. Tickets in
  queues and claimed tickets are of callers inside `execute`, each at one place; a claimed ticket
  without an answer is a member of the running pass. Each half needs the other: that a leader
  answers exactly its members needs `OnePass`, that a pass is counted right needs that a
  ticket is not in two places.
- `RefinesPassServer`: every step of the scheduler is a step of `PassServer` or a stutter.

**`ControlServiceProofs`** (`ControlAssumption`: finitely many IDs and objects, a positive
limit; any threads and deployments; sizes, capacity and rows of a pass are natural numbers).

- `OwnershipInvariant`: `OwnershipInv` is `Typed`, `Injective` (the table never lists an
  object twice), `Listed` (a listed object has its sequence on the loaded deployment unless
  it is being allocated), `Unlisted` (an object that is not listed has no sequence),
  `Owners` (what a call knows of its object in each phase: listed under its ID and flagged
  while it allocates or executes, gone from the table afterwards) and `OneOwner`. Each property
  alone is not inductive: that `release` cannot remove somebody else's request needs
  uniqueness of owners, which needs that flagged entries stay, which needs that only idle
  entries are pruned, cancelled or unloaded. `OwnedRequestsAreKept`, `OwnersAreUnique`,
  `ExecutionIsOnTheLoadedStage` and `AllSequencesAreAccounted` follow.
- `RetirementInvariant` adds `Flagged` (which flags a call may find set in each phase),
  `CausesAreTrue` (a recorded stop cause is one that happened) and `WithinLimit`.
  `TableStaysWithinLimit` (`TypeOK`, the request limit with it) and `RetirementsAreReported`
  (`RetirementsAreTrue`) follow; the second is about steps, so it needs the invariant in the
  state before the retirement.
- `MemoryInvariant` adds `TableFits`: the weights, the caches of all entries of the table and
  the workspace of the widest pass they can form are within the capacity. `reserve` checks
  exactly the table it leaves behind, entries only leave afterwards, and a stage is loaded into
  an empty table. `MemoryIsWithinCapacity` (`MemoryWithinCapacity`) follows, because only
  entries have a sequence or execute. The sums are folds over sets; `TotalCountsUnits` shows
  that such a fold is the cardinality of a set of unit pieces, so that the laws of finite
  sets give those of sums: more entries cannot need less (`TotalGrows`, `LargestGrows`).

**`StagePipelineProofs`** (`PipelineAssumption`: any bounds on prompt, chunk and output).

- `HandlersAgree`, `StagesCompleteTogether`, `CachesStayLevel`: `NoRejection`,
  `CompletedTogether`, `CachesAgree`, from `PipelineInv`. `GLocal` and `ELocal` tie each
  handler's counters to each other; `UpInv` says that a message on its way passes `Execute`'s
  checks, whether or not `Generate` is still there; `Link` relates the two handlers for every
  place of `Generate`: level with each other, one pass asked for, one pass answered, or one ahead. A
  property about both handlers between two messages cannot be inductive without a description
  of what is in flight.
- `RefinesTokenStream`: every step is a step of `TokenStream` or a stutter, from
  `PipelineInv` and `EventsInv` (what has been sent to the client at each place of `Generate`).

**`HttpServingProofs`** (`ServingAssumption`: finitely many requests, any positive concurrency and
any queue length, one or two stages).

- `SlotsStayCounted`, `AdmissionFailsClosed`, `ConfirmationIsTrue`: `SlotsAreCounted`,
  `FailClosed`, `ConfirmedMeansRetired`, from `HttpInv` = `SlotInv /\ RetireInv`. `SlotInv`: the
  queue holds each queued request once and nobody else, and only a request between admission
  and the end of its response owns a slot. `RetireInv`: a worker that a started request's
  poll has found without it does not list it again, because `Generate` on stage 0 and its call to
  stage 1 are behind it by then.

**`DeploymentSessionProofs`** (`SessionAssumption`: any sessions, plans and
assignment of plans to sessions, any number of stages, any bound on restarts).

- `OpenIsLoaded`, `DownstreamIsReady`, `ClosedIsUnloaded`: `OpenMeansLoaded`,
  `DownstreamFirst`, `ClosedMeansUnloaded`, from `DeployInv`. They hold for every way in which
  the sessions share plans. An open session may have lost a stage to a restart, or to the unload
  of another session of its plan; the second only when there is such a session. `SessionInv` says what a session
  knows of the stages it lists and no longer lists; `MessageInv` what a call on the wire says
  about its session (it waits for this answer, or has stopped waiting and is closing), which
  is what excludes that a late call of its own undoes or redoes a stage behind the session's back.
  `ClaimInv`: what is loaded is claimed by a session of that plan, which will still unload it or
  is `unsettled`; with shared plans that need not be the session that loaded it.

**`SweepProofs`** (`SweepAssumption`: any candidates, orders, rounds, seeds, warm-ups, faults and
invocations, and any outcome of the resampling).

- `SweepInvariant`: `SweepInv` is `DiskInv` (a saved result belongs to a job that was reached,
  and one that lets the sweep go on was earned), `ControllerInv` (every earlier job is on
  disk; a running attempt has no result yet), `AttemptInv` (only a clean attempt claims a measurement),
  `WorkerInv` (an attempt owns workers only while it serves) and `DecisionInv` (a
  decision is the summary of a prefix of the schedule).
- `ResultsAreKept`, `WorkersAreFresh`, `DecisionCountsAllResults`, `PassesAreEarned`:
  `ResultsAreImmutable`, `FreshWorkers`, `DecisionIsOfAllResults`, `PassIsEarned`. A pass is
  derived from files that earlier invocations wrote, so what made them acceptable has to be
  kept with the files across crashes. A pass does not mean that each sample is within 15 % of
  each other one: it is about resampled medians. What follows for any number of samples is
  that no placement was faster by more than that in all of them.
- `PackageInvariant`: at most one attempt has started helpers of an edited package. The digest
  is compared before each attempt only, so the attempt that is under way when the package is
  edited goes on unnoticed, and every later one is refused; the edit is for good.

**`PlacementProofs`** (`PlacementAssumption`, `PlannerAssumption`: any age limits, bound on the clock and
number of changes of machines and of the route; `InputAssumption`: any set of planner inputs that the
models of `models.py` admit, with any number of layers, tensors and workers, any sizes and all data
types; measured quantities and fractions are whole numbers of their unit). `InputAssumption` asks one thing more than `models.py`: optional texts, such as
the revision of the source, are absent or not empty, because an empty one comes back from the
wire as absent. A property of a machine that has changed
stays changed: the code compares the idle profiles with the worker that answers, and a
machine that was swapped and swapped back in between is not told from one that stayed.

- `PlacementInvariant`: `PlacementInv` is `Counters`, `LinkInv` (the observations at both ends
  of a link run are among the stored ones, and none is taken out, however late the monitor
  thread appends its own), `FlowInv` (where the operator is says what has been measured) and
  `ActivationInv` (what bundle and plan took over from the artifacts, and the ages that were
  checked). `LinkIsSteady` (`QualifiedMeansSteady`) and `EvidenceIsFresh`
  (`EvidenceWasFresh`) follow.
- `ActivationIsOnItsEvidence`: `ActivatedOnItsEvidence`, with `MachineInv` on top. It says
  that there is one idle profile per kind and stage, taken before the busy ones; that a
  machine that was replaced is not taken back, so a busy profile lies between the idle ones and
  the machine that answers, and is of that machine when they are; that the artifact in the
  bundle is sound; and what the workers that have answered so far answered.
- `PlanIgnoresWorkerOrder` (`PlanIsIndependentOfWorkerOrder`). The feasible placements are
  finitely many, so one of them is best (`MinimalElement`: one with the fewest better ones,
  since strict inclusion of finite sets is well-founded); two placements with equal scores differ in their identifier, so
  there is only one (`OneBest`); `Selected` is it (`SelectedIsBest`); the inputs with the
  list of workers turned round have the same placements with the same scores (`TurnedPlaced`),
  so the plan is the same. That every score is a number, so that the order is total,
  rests on the sizes of the inputs (`ScoreIsInt`) and on the evaluation having times where it
  has no reason against the placement.
- `PlansAreAccepted` (`WorkersAcceptPlan`). `IsPlacementPlan` says of a signed plan, field by field, what
  both validators look at; the planner's plans (`SignedIsPlacement`) and those a sweep signs
  itself (`SweepIsPlacement`) are such, and a worker that suits the inputs accepts each of them
  (`WorkerAccepts`) because every field that one side hashes is hashed by the other (`SameFieldsHashed`).
  `SelectionInv` carries this along a behaviour: the plan is the one `create_plan` reports for
  the inputs and the bundle, which no longer change, and measured plans are of supported workloads.
- `RefusalsHaveReasons` (`RefusedForAReason`), from `ReasonInv`: nothing was measured later than
  now, the bundle is that of the inputs and the measurements, and as long as no machine has
  changed the snapshots are of unchanged machines. With `SelectionInv` and `MachineInv`, every
  comparison of `validate_activation` then holds unless the clock, a machine or a second profile
  speaks against it; the planner's own evaluation of the same bundle gives the rest.

**`ConcurrentEvidenceProofs`** (`ConcurrentAssumption`: a log of any positive length, any positive
number of pairs and cycles, byte counts are natural numbers, `None` is no record and no verdict).

- `EvidenceInvariant`: `EvidenceInv` is the types; `HarnessInv` (the place of the harness says which
  cycle and session it is in); `WorkersInv` and `PeaksInv` (what it was told of the workers
  when it last looked still holds where it relies on it, and the last snapshots of a cycle
  cover the peaks); `ClientsInv` (what a client has received says how far its request is);
  `RoundsInv` and `EventsInv` (log and snapshots hold at most one event per kind and request, in
  the order of their numbers, and of this round only); `OverlapInv`; `EarnedInv`; `AcceptedInv`.
- `OverlapIsDerivedExactly` (`OverlapIsExact`). The two directions need different halves of
  `OverlapInv`: a retirement that lists the other member, or a joint sample, means that both
  were allocated at once, and once both are, the earlier retirement lists the other one
  whatever the log has dropped since. With all four events present, they are one admission and
  one retirement of each member, so nothing that decides the answer is missing.
- `AcceptancesAreEarned` (`AcceptanceIsEarned`). A record without an open, unsafe or failed
  entry that shows one process per worker is earned, or a process was replaced in the running
  session and the snapshots after the unload are still to come, which will show it: acceptance is
  only true at the end, so the invariant has to name what the remaining gates will find.

What the proofs asked of the models: sequences that lose an element do so with `RemoveAt`
(`GiveUp`), records are joined with `Joined` rather than with TLC's `@@`, amounts of memory are summed as
functions (`Total`), the best candidate is chosen by the order rather than with TLC's
`SortSeq`, `None` is assumed
distinct from numbers and from the texts it is compared with, and `Sweep` names its bound on rounds and its
sets of probes and results. None of them changes a behaviour.

Only model-checked:

- liveness: `EveryCallReturns`, `EveryRequestRetires`, `ReservationsComeBack`,
  `EveryRequestEnds`, `EverySessionReturns`. Fairness and `ENABLED` are out of the prover's
  reach.

Every invariant and every action property that a passing run checks is also a theorem.

## 5. Plan

Next modules, in order:

1. `Sequence` and `PinnedBuffer` (`cuda/stage.cpp`, `cpu/stage.cpp`, `mlx/stage.cpp`,
   `cuda/pinned_buffer.hpp`, `buffer.cpp`, `decode_batch.cpp`): positions, poisoning,
   batch membership, pending transfers, pool accounting.
2. `TextOutput`, `Sampling`, `TensorEnvelope`, `Safetensors`: pure algorithms against
   reference definitions over bounded inputs.
3. `LinkProbe` (`profiling/link_probe.cpp`): one probe at a time, cancellation, deadlines;
   its result is an input of `Placement` today.
4. A composition of `HttpServing` with `ControlService` in place of its reduced handlers.
5. Several runs of the concurrency experiment against the same worker processes.

## 6. What the models found

- `first_cause`: `control_service.hpp` says of stop causes that the first one wins. The path
  that finishes an allocation asks the clock first, so a request that was cancelled and
  whose deadline then passes during the allocation is retired, logged and answered as
  expired. `release` does prefer the recorded cause.
- `slot_reuse`: `docs/milestone-6.md` has cleanup confirmed on every worker before an HTTP
  slot is reused. A worker that has not started the handler yet does not list the request;
  cleanup is confirmed, the slot is reused, and the late handler then reserves. For a
  request that has produced a token, `ConfirmedMeansRetired` holds.
- Without a run of its own: the controller unloads a stage whose load was not answered, because the load
  may have succeeded, and the documentation has the plan unloaded when the session closes.
  A load that timed out may also still wait for the worker's mutex; the unload can get it
  first, find nothing, and the load then succeeds (`unsettled` in `DeploymentSession`). Apart
  from that, and from unloads that were never answered, a closed session leaves nothing behind (`ClosedMeansUnloaded`).
- Without a run of its own: `plan_id` is a digest of the plan's content and
  `deployment_version` is always 1 (`planner.py`), so a second run of the same plan file is the
  same deployment to a worker. An unload of the first run that is handled after its timeout
  empties the worker under the second one (`UnloadStage`, `taken` in `DeploymentSession`), and
  two sessions of one plan side by side are ended by whichever closes first.
- Without a run of its own: `native.py` compares the package with the frozen one at the
  beginning of an attempt and sends its helpers the digest as it is when each is started. A
  package that is edited in between serves the rest of the attempt, whose result counts.
- Without a run of its own: a helper that `_stop` terminates after ten seconds does not run its
  `finally` clause (`host.py`), and its worker stays. The next attempt does not use it (`owned`
  in `PassIsEarned`), but its memory probe may run beside it: `FreshWorkers` is about workers in
  an attempt's hands.
- Without a run of its own: a handler that has released its request still holds the stage;
  unload and load of another stage in that window leave both sets of weights resident while
  only one is counted (`control_service.cpp`, `UnloadStage` and `LoadStage`).
- Without a run of its own: `native.py` marks an attempt as memory-excluded as soon as the
  envelope is unsafe, and tests only afterwards whether the probe completed. For a probe that
  stopped early and is already unsafe, `evidence.json` is written, `validate_result` rejects
  the result, `result.json` is never written, and each later invocation fails on the existing
  evidence. `Sweep` reaches that state; no wrong decision follows from it.
- Without a run of its own: the concurrency experiment uses the same request IDs in every
  run. Against worker processes whose log still holds an earlier run, the cancelled and
  completed retirements of a cancel round are not tied to this run's admissions
  (`assess_evidence`). The model starts from logs without an earlier experiment.

## 7. Not modelled

Numerical code (layers, half precision, softmax), device libraries, file and process I/O,
argument parsing, generated protocol code, measurement statistics, wording of errors, the
native probe programs, the resource guard and the other scripts under `scripts/validation`
(`serving_soak.py` and the like drive the parts that are modelled and keep no state of their
own beyond a report). Model preparation and weight loading parse and hash files. The parts
named in section 5 are not modelled yet.
