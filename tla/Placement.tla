------------------------------ MODULE Placement ------------------------------
(***************************************************************************)
(* From measurements to loaded stages.  One operator profiles the two      *)
(* stages of a split (profiling/runner.py), measures the link between the  *)
(* workers (profiling/link.py), seals the evidence into a bundle and plans *)
(* with it (planner/measured.py, planner.py); activation.py then compares  *)
(* the bundle with the running workers.  Meanwhile time passes and the     *)
(* machines change.  Plans of the other modes need no evidence and start   *)
(* at the planner.                                                         *)
(***************************************************************************)
EXTENDS Planner, ProfileArtifacts

CONSTANTS
  Inputs,         \* the planner inputs looked at
  MaxNow,         \* bound: the clock stops here
  MaxTroubles,    \* bound: changed machines, failed or additional profiles, failed link
                  \* runs, unsteady paths
  MaxReroutes,    \* bound: changes of an unsteady path
  MaxMonitored,   \* bound: observations of the monitor thread of a link run
  ProfileAge,     \* maximum_profile_age_seconds
  SnapshotAge     \* maximum_snapshot_age_seconds

IsRecord(r, fields) == r = [f \in fields |-> r[f]]
IsSequence(s) == Len(s) \in Nat /\ IsRecord(s, 1..Len(s))

WellFormedManifest(m) ==
  /\ IsRecord(m, {"digest", "layers", "hidden", "kvWidth", "tied", "revision", "tensors"})
  /\ {m.layers, m.hidden, m.kvWidth} \subseteq Nat \ {0} /\ m.revision # Empty
  /\ IsSequence(m.tensors)
  /\ \A i \in DOMAIN m.tensors :
       LET t == m.tensors[i] IN
       /\ IsRecord(t, {"role", "layer", "elements", "group"})
       /\ t.elements \in Nat /\ t.group # Empty

WellFormedWorker(w) ==
  /\ {w.id, w.workspace, w.transport, w.buffers, w.allowance} \subseteq Nat
  /\ w.domain \in DOMAIN w.budgets
  /\ \A d \in DOMAIN w.budgets :
       {w.budgets[d].capacity, w.budgets[d].reserve, w.budgets[d].safety} \subseteq Nat

WellFormedLink(l) ==
  /\ {l.latency, l.sender, l.receiver} \subseteq Nat /\ l.bandwidth \in Nat \ {0}
  /\ l.type \in {"DIRECT", "PEER_RELAYED", "DERP_RELAYED", "UNKNOWN"}

WellFormedWorkload(w) ==
  /\ w # None /\ {w.prompt, w.output, w.concurrency, w.cached} \subseteq Nat \ {0}
  /\ {w.kvFactor, w.chunk} \subseteq Nat /\ {w.kv, w.activation} \subseteq DOMAIN DTYPE_BYTES

WellFormedSettings(s) ==
  /\ s.mode \in {"feasibility", "estimated", "measured"} /\ s.execution \in DOMAIN DTYPE_BYTES
  /\ s.weight # None => s.weight = "F16" /\ s.execution = "F32"

\* What the models of models.py admit, as far as it is of consequence here; optional
\* texts are absent or not empty.  That no two workers listen at one address is not
\* checked before a worker is sent the plan.
WellFormed(i) ==
  /\ IsRecord(i, {"manifest", "workers", "links", "workload", "settings"})
  /\ WellFormedManifest(i.manifest)
  /\ IsSequence(i.workers) /\ \A k \in DOMAIN i.workers : WellFormedWorker(i.workers[k])
  /\ \A j, k \in DOMAIN i.workers : i.workers[j].endpoint = i.workers[k].endpoint => j = k
  /\ IsSequence(i.links) /\ \A k \in DOMAIN i.links : WellFormedLink(i.links[k])
  /\ WellFormedWorkload(i.workload) /\ WellFormedSettings(i.settings)

ASSUME InputAssumption == \A i \in Inputs : WellFormed(i)

ASSUME PlacementAssumption ==
  /\ {MaxNow, MaxTroubles, MaxReroutes, MaxMonitored, ProfileAge, SnapshotAge} \subseteq Nat
  /\ SnapshotAge <= ProfileAge

VARIABLES
  in,         \* manifest, workers, links, workload and settings
  pc, stage,  \* what the operator does next, and for which stage
  now,        \* the clock
  world,      \* per worker: the machine as it is now
  route,      \* the network path from the first to the second worker
  troubles, reroutes,
  profiles,   \* the set of memory and compute artifacts
  link,       \* the link run and, at its end, its artifact
  setup,      \* when request setup was measured
  path,       \* the path snapshot that goes into the bundle
  evidence,   \* the worker snapshots
  bundle, plan,
  asOf,       \* the clock as validate_activation read it
  seen,       \* per worker: what its RPCs answered during activation
  accepted    \* per stage: whether the worker accepted the plan

vars == <<in, pc, stage, now, world, route, troubles, reroutes, profiles, link, setup, path,
          evidence, bundle, plan, asOf, seen, accepted>>

Worker(k) == in.workers[k]
Stages == assignments_for(Worker(1).id, Worker(2).id, 1, in.manifest.layers)
Measured == in.settings.mode = "measured"

\* the answers of the machine that end up in Environment: `helper' is the build
\* of the profiling binaries, `binary' the build of the worker daemon, `release'
\* the driver's release and `driver' the API version that the worker reports
Environment(k) == [backend |-> Worker(k).backend, device |-> world[k].device,
                   driver |-> <<world[k].release, world[k].driver>>, helper |-> world[k].helper]

Fresh(at, when, limit) == 0 <= when - at /\ when - at <= limit

Spend == troubles < MaxTroubles /\ troubles' = troubles + 1

------------------------------------------------------------------------------
(* Profiles.  The numbers of the measurement are constants of the stage.  *)

Peak == 100
Timing == [allocation |-> 1, prefill |-> 3, decode |-> 2]

\* the artifact a memory profile stands for: all phases, or the first three
Artifact(p) ==
  make_artifact(IF p.completed THEN Len(MEMORY_PHASES) ELSE 3, Peak,
                IF p.completed THEN None ELSE "ended early",
                [backend |-> p.env.backend, weight |-> p.weight, workload |-> in.workload], p.capacity)

host_available_bytes(k) == world[k].free

\* what is free on the machine of a worker now, and what must stay free
HostBudget(k) == [available |-> host_available_bytes(k), headroom |-> 5, overhead |-> 5, safety |-> 10]
DeviceBudget(k) == IF Worker(k).backend = "cuda"
                   THEN [available |-> world[k].room, headroom |-> 5, overhead |-> 5, safety |-> 10] ELSE None

\* run_memory_profile, in either mode
run_profile(k, kind, completed, load) ==
  /\ profiles' = profiles \cup
       {[kind |-> kind, assignment |-> Stages[k], env |-> Environment(k), at |-> now,
         completed |-> completed, load |-> load, capacity |-> Worker(k).admission,
         weight |-> in.settings.weight]}
  /\ UNCHANGED <<in, now, world, route, reroutes, link, setup, path, evidence, bundle,
                 plan, asOf, seen, accepted>>

\* ProfileKey: a key outside the supported range is an error before any work
Key(k) == [workload |-> in.workload, stage |-> Stages[k], weight |-> in.settings.weight,
           backend |-> Worker(k).backend, execution |-> in.settings.execution,
           transport |-> Worker(k).mode]

Accepted(k) ==
  /\ supported_workload(Key(k))
  /\ preflight(Worker(k).admission[IF Worker(k).backend = "mlx" THEN "unified" ELSE "host"],
               HostBudget(k))
  /\ DeviceBudget(k) # None => preflight(Worker(k).admission["device"], DeviceBudget(k))

\* a profile that ends early ran out of time, or its native process failed
Profile(kind, completed) ==
  /\ pc = kind /\ Accepted(stage)
  /\ run_profile(stage, kind, completed, "idle")
  /\ IF completed THEN UNCHANGED troubles ELSE Spend
  /\ pc' = IF kind = "memory" THEN "compute" ELSE IF stage = 1 THEN "memory" ELSE "link"
  /\ stage' = IF kind = "compute" THEN 3 - stage ELSE stage

\* refused before any native work: the key or the preflight; the digests and
\* arguments that are checked first are those of the inputs
ProfileRefused ==
  /\ pc \in {"memory", "compute"} /\ ~Accepted(stage)
  /\ pc' = "abandoned" /\ UNCHANGED stage
  /\ UNCHANGED <<in, now, world, route, troubles, reroutes, profiles, link, setup, path,
                 evidence, bundle, plan, asOf, seen, accepted>>

\* the same stage once more, under another load
ProfileAgain ==
  /\ pc = "memory" /\ stage = 2 /\ Accepted(1)
  /\ run_profile(1, "memory", TRUE, "busy") /\ Spend
  /\ UNCHANGED <<pc, stage>>

------------------------------------------------------------------------------
(* The link run: the operator's thread and the monitor thread *)

\* an inactive peer is unknown, and so is a relay whose ping cannot be told apart
observe_path(probe) ==
  [at |-> now, route |-> IF route = "inactive" \/ (probe /\ route = "peer-relayed")
                         THEN "unknown" ELSE route]

path_rejection(observations) ==
  IF Len(observations) < 2 THEN "missing"
  ELSE IF \E p \in ToSet(observations) : p.route = "unknown" THEN "unavailable"
  ELSE IF Cardinality({p.route : p \in ToSet(observations)}) # 1 THEN "mixed"
  ELSE None

\* mutant: the flag is taken as computed
VerifyLinkFlag(a) == a.qualified => a.completed

\* LinkContent.verify: the flag is computed again, from the paths that are stored
VerifyLink(a) == a.qualified = (a.completed /\ path_rejection(a.paths) = None)

LinkUnchanged ==
  UNCHANGED <<in, stage, now, world, route, reroutes, profiles, setup, path,
              evidence, bundle, plan, asOf, seen, accepted>>

\* the observation before the run, the probe's identity, the thread's start
LinkBegin ==
  /\ pc = "link" /\ link.phase = "idle"
  /\ link' = [link EXCEPT !.phase = "running", !.paths = <<observe_path(TRUE)>>, !.at = now,
                          !.monitor = "waiting", !.first = observe_path(TRUE).route,
                          !.probes = <<world[1].helper, world[2].helper>>]
  /\ UNCHANGED <<pc, troubles>> /\ LinkUnchanged

\* monitor: stop.wait ran out, the path is read, and later appended
MonitorReads ==
  /\ link.monitor = "waiting" /\ ~link.stopped /\ link.observed < MaxMonitored
  /\ link' = [link EXCEPT !.monitor = "reading", !.read = observe_path(FALSE), !.observed = @ + 1]
  /\ UNCHANGED <<pc, troubles>> /\ LinkUnchanged

MonitorAppends ==
  /\ link.monitor = "reading"
  /\ link' = [link EXCEPT !.paths = Append(@, link.read), !.read = None,
                          !.monitor = IF link.stopped THEN "none" ELSE "waiting"]
  /\ UNCHANGED <<pc, troubles>> /\ LinkUnchanged

\* QualifyLink answers, or fails; the finally clause sets the stop event
LinkReply(completed) ==
  /\ link.phase = "running"
  /\ link' = [link EXCEPT !.phase = "joining", !.completed = completed, !.stopped = TRUE,
                          !.monitor = IF @ = "waiting" THEN "none" ELSE @]
  /\ IF completed THEN UNCHANGED troubles ELSE Spend
  /\ UNCHANGED pc /\ LinkUnchanged

\* thread.join(timeout=6) returns, with the thread ended or not, and the path
\* is observed once more
LinkObserveAfter ==
  /\ link.phase = "joining"
  /\ link' = [link EXCEPT !.phase = "deciding", !.paths = Append(@, observe_path(TRUE)),
                          !.last = observe_path(TRUE).route]
  /\ UNCHANGED <<pc, troubles>> /\ LinkUnchanged

\* rejected = path_rejection(tuple(paths))
LinkDecide ==
  /\ link.phase = "deciding"
  /\ link' = [link EXCEPT !.phase = "sealing", !.rejected = path_rejection(link.paths)]
  /\ UNCHANGED <<pc, troubles>> /\ LinkUnchanged

\* the list is read a second time for the artifact, which is written only if it verifies
LinkSeal ==
  /\ link.phase = "sealing"
  /\ LET a == [at |-> link.at, paths |-> link.paths, completed |-> link.completed,
               qualified |-> link.completed /\ link.rejected = None, load |-> "idle",
               probes |-> link.probes]
     IN  /\ link' = [link EXCEPT !.phase = "done", !.artifact = IF VerifyLink(a) THEN a ELSE None]
         /\ pc' = IF VerifyLink(a) THEN "setup" ELSE "abandoned"
  /\ UNCHANGED troubles /\ LinkUnchanged

LinkStep ==
  \/ LinkBegin \/ MonitorReads \/ MonitorAppends
  \/ LinkReply(TRUE) \/ LinkReply(FALSE)
  \/ LinkObserveAfter \/ LinkDecide \/ LinkSeal

------------------------------------------------------------------------------
(* The bundle *)

\* request setup and the path, for DirectionEvidence
MeasureSetup ==
  /\ pc = "setup" /\ setup' = now /\ pc' = "path"
  /\ UNCHANGED <<in, stage, now, world, route, troubles, reroutes, profiles, link, path, evidence,
                 bundle, plan, asOf, seen, accepted>>

SnapshotPath ==
  /\ pc = "path" /\ pc' = "snapshot" /\ UNCHANGED stage
  /\ path' = [at |-> now, route |-> observe_path(TRUE).route, probes |-> <<world[1].helper, world[2].helper>>]
  /\ UNCHANGED <<in, now, world, route, troubles, reroutes, profiles, link, setup, evidence,
                 bundle, plan, asOf, seen, accepted>>

ProfileOf(k, kind) ==
  CHOOSE p \in profiles : p.kind = kind /\ p.assignment = Stages[k] /\ p.load = "idle"

\* the environments are those of the profiles, the runtime's are the live worker's
WorkerEvidence(k) ==
  [worker |-> Worker(k), at |-> now,
   memory |-> ProfileOf(k, "memory").env, compute |-> ProfileOf(k, "compute").env,
   runtime |-> [device |-> world[k].device, driver |-> world[k].driver,
                binary |-> world[k].binary],
   capacity |-> Worker(k).admission,
   host |-> HostBudget(k), device |-> DeviceBudget(k)]

SnapshotWorker ==
  /\ pc = "snapshot"
  /\ evidence' = Append(evidence, WorkerEvidence(stage))
  /\ pc' = IF stage = 1 THEN "snapshot" ELSE "seal"
  /\ stage' = 3 - stage
  /\ UNCHANGED <<in, now, world, route, troubles, reroutes, profiles, link, setup, path,
                 bundle, plan, asOf, seen, accepted>>

\* memory and compute profiles of one worker name one device and driver; they
\* may name two builds of the helper
environment_match(e) ==
  /\ \A f \in {"backend", "device", "driver"} : e.memory[f] = e.compute[f]
  /\ e.worker.backend = e.compute.backend

\* seal_disk_bundle: every artifact is read and verified, then the index is written
Seal ==
  LET sealed == [manifest |-> in.manifest.digest, workload |-> in.workload,
                 workers |-> evidence, profiles |-> profiles, link |-> link.artifact,
                 setup |-> setup, path |-> path, at |-> now, load |-> "idle"]
  IN  /\ pc = "seal"
      /\ IF /\ \A k \in {1, 2} : environment_match(evidence[k])
            /\ \A p \in profiles : p.kind = "memory" =>
                 VerifyMemory([workload |-> in.workload], 1, Artifact(p).m)
         THEN bundle' = sealed /\ pc' = "plan"
         ELSE UNCHANGED bundle /\ pc' = "abandoned"
      /\ UNCHANGED <<in, stage, now, world, route, troubles, reroutes, profiles, link, setup,
                     path, evidence, plan, asOf, seen, accepted>>

------------------------------------------------------------------------------
(* evaluate: no evidence is never a zero cost *)

\* the one profile of its kind that fits the bundle in every respect
Matches(b, e, assignment, kind) ==
  {p \in b.profiles :
     /\ p.kind = kind /\ p.assignment = assignment
     /\ p.env = IF kind = "memory" THEN e.memory ELSE e.compute
     /\ p.weight = in.settings.weight /\ p.load = b.load
     /\ Fresh(p.at, b.at, ProfileAge)}

\* what is unsafe or unknown about one worker
MatchReasons(memory, compute, fresh, fits, capacity) ==
  {<<"unknown", r>> : r \in
     (IF fresh THEN {} ELSE {"STALE_PHYSICAL_SNAPSHOT"})
     \cup (IF Cardinality(memory) = 1 THEN {} ELSE {"MISSING_OR_AMBIGUOUS_MEMORY"})
     \cup (IF Cardinality(compute) = 1 THEN {} ELSE {"MISSING_OR_AMBIGUOUS_COMPUTE"})
     \cup (IF Cardinality(compute) = 1
           THEN {IF p.completed THEN "COMPUTE_ADMISSION_MISMATCH" ELSE "INCOMPLETE_COMPUTE" :
                   p \in {p \in compute : ~p.completed \/ p.capacity # capacity}}
           ELSE {})}
  \cup (IF Cardinality(memory) = 1 THEN {<<f, "FIT">> : f \in fits \ {"safe"}} ELSE {})

WorkerReasons(b, e, assignment) ==
  MatchReasons(Matches(b, e, assignment, "memory"), Matches(b, e, assignment, "compute"),
               Fresh(e.at, b.at, SnapshotAge),
               {assess_fit(Artifact(p), e.capacity, e.host, e.device, "footprint-v1") :
                  p \in Matches(b, e, assignment, "memory")},
               e.capacity)

check_link_compatibility(b) ==
  LET a == b.link IN
  IF ~a.qualified THEN {"UNQUALIFIED"}
  ELSE (IF a.probes = b.path.probes THEN {} ELSE {"BUILD"})
       \cup (IF Last(a.paths).route = b.path.route THEN {} ELSE {"PATH"})
       \cup (IF Fresh(a.at, b.at, ProfileAge) THEN {} ELSE {"AGE"})

LinkReasons(b, assignments) ==
  IF <<assignments[1].worker, assignments[2].worker>> # <<Worker(1).id, Worker(2).id>>
  THEN {<<"unknown", "MISSING_DIRECTIONAL_LINK_OR_REQUEST_SETUP">>}
  ELSE {<<"unknown", r>> : r \in
          check_link_compatibility(b)
          \cup (IF Fresh(b.path.at, b.at, SnapshotAge) THEN {} ELSE {"STALE_PATH_SNAPSHOT"})
          \cup (IF b.link.load = b.load THEN {} ELSE {"LINK_CONCURRENT_LOAD_MISMATCH"})
          \cup (IF Fresh(b.setup, b.at, ProfileAge) THEN {} ELSE {"STALE_REQUEST_SETUP"})}

EvidenceOf(b, id) == CHOOSE e \in ToSet(b.workers) : e.worker.id = id

Evaluation(reasons) ==
  [status |-> IF \E r \in reasons : r[1] = "unsafe" THEN "infeasible"
              ELSE IF reasons # {} THEN "unknown" ELSE "measured",
   reasons |-> reasons,
   performance |-> IF reasons # {} THEN None
                   ELSE [ttft |-> 2 * (Timing.allocation + Timing.prefill) + 2,
                         decode |-> 2 * Timing.decode + 1]]

evaluate(b, assignments) ==
  Evaluation((UNION {WorkerReasons(b, EvidenceOf(b, a.worker), a) : a \in ToSet(assignments)})
             \cup LinkReasons(b, assignments))

\* of every placement of the two workers; only a measured plan asks for it
Evaluations(b) ==
  LET names == {w.id : w \in ToSet(in.workers)}
      ids == {id \in names \X names \X (1..(in.manifest.layers - 1)) : id[1] # id[2]}
  IN  [id \in IF Measured THEN ids ELSE {} |->
         evaluate(b, assignments_for(id[1], id[2], id[3], in.manifest.layers))]

Plan ==
  /\ pc = "plan"
  /\ plan' = create_plan(in, bundle, Evaluations(bundle)).plan
  /\ pc' = IF plan' = None THEN "unplanned" ELSE IF Measured THEN "activate" ELSE "send"
  /\ UNCHANGED <<in, stage, now, world, route, troubles, reroutes, profiles, link, setup, path,
                 evidence, bundle, asOf, seen, accepted>>

------------------------------------------------------------------------------
(* validate_activation *)

\* mutant: the age of the profiles is not looked at again
StaticChecksLinkOnly(p, b, at) ==
  /\ p.bundle_digest = b /\ p.plan_digest = model_dump(p)
  /\ evaluate(b, p.stages).status = "measured"
  /\ Fresh(b.at, at, ProfileAge) /\ Fresh(b.link.at, at, ProfileAge) /\ Fresh(b.setup, at, ProfileAge)

\* everything that is decided from the plan, the bundle and one reading of the clock
StaticChecks(p, b, at) ==
  /\ p.mode = "measured" /\ p.bundle_digest = b
  /\ p.manifest = b.manifest /\ p.workload_digest = b.workload
  /\ p.execution = b.workload.kv /\ p.activation = b.workload.activation
  /\ p.plan_digest = model_dump(p)
  /\ Len(p.stages) = 2 /\ p.stages[2].end = in.manifest.layers
  /\ evaluate(b, p.stages).status = "measured"
  /\ \A q \in b.profiles : q.assignment \in ToSet(p.stages) => Fresh(q.at, at, ProfileAge)
  /\ Fresh(b.at, at, ProfileAge) /\ Fresh(b.link.at, at, ProfileAge) /\ Fresh(b.setup, at, ProfileAge)

ActivateBegin ==
  /\ pc = "activate"
  /\ asOf' = now
  /\ pc' = IF StaticChecks(plan, bundle, now) THEN "state" ELSE "refused"
  /\ UNCHANGED <<in, stage, now, world, route, troubles, reroutes, profiles, link, setup, path,
                 evidence, bundle, plan, seen, accepted>>

\* the memory profiles of the assignment, whatever their load, weights or age
ActivationProfiles(b, e, assignment) ==
  {p \in b.profiles : p.kind = "memory" /\ p.assignment = assignment /\ p.env = e.memory}

EvidenceFor(k) == EvidenceOf(bundle, plan.stages[k].worker)
At(k) == CHOOSE i \in {1, 2} : Worker(i).id = plan.stages[k].worker

\* mutant: the fit is that of the snapshot
QualificationHoldsAsSealed(k, answer) ==
  LET e == EvidenceFor(k) IN
  /\ [device |-> answer.device, driver |-> answer.driver, binary |-> answer.binary] = e.runtime
  /\ answer.device = e.compute.device

\* GetCapabilities and GetQualificationState against the snapshot, and the fit
\* against the host and device memory that is free now.  `configured': identity,
\* endpoint, precisions, transport mode, allocator configuration and admission
\* capacity are those of the configuration that was profiled.
QualificationHolds(k, answer) ==
  LET e == EvidenceFor(k)  memory == ActivationProfiles(bundle, e, plan.stages[k]) IN
  /\ answer.configured
  /\ [device |-> answer.device, driver |-> answer.driver, binary |-> answer.binary] = e.runtime
  /\ answer.device = e.compute.device
  /\ Cardinality(memory) = 1
  /\ \A p \in memory :
       assess_fit(Artifact(p), e.capacity, [e.host EXCEPT !.available = answer.free],
                  IF e.device = None THEN None ELSE [e.device EXCEPT !.available = answer.room],
                  "footprint-v1") = "safe"

ActivateState ==
  /\ pc = "state"
  /\ seen' = [seen EXCEPT ![stage] = world[At(stage)]]
  /\ pc' = IF QualificationHolds(stage, world[At(stage)]) THEN "report" ELSE "refused"
  /\ UNCHANGED <<in, stage, now, world, route, troubles, reroutes, profiles, link, setup, path,
                 evidence, bundle, plan, asOf, accepted>>

\* GetMemoryReport: idle and unloaded
ActivateReport ==
  /\ pc = "report"
  /\ seen' = [seen EXCEPT ![stage].loaded = world[At(stage)].loaded]
  /\ pc' = IF world[At(stage)].loaded THEN "refused"
           ELSE IF stage = 1 THEN "state" ELSE "send"
  /\ stage' = 3 - stage
  /\ UNCHANGED <<in, now, world, route, troubles, reroutes, profiles, link, setup, path,
                 evidence, bundle, plan, asOf, accepted>>

\* the addresses that DeploymentSession is given, and what worker w says of stage k
Endpoints ==
  [id \in {Worker(1).id, Worker(2).id} |-> Worker(CHOOSE k \in {1, 2} : Worker(k).id = id).endpoint]
Accepts(p, w, k) ==
  validate_plan(deployment_plan_to_proto(p), model_manifest_to_proto(in.manifest),
                stage_endpoints(p, Endpoints), w, k)

\* LoadStage: each worker checks the plan it is sent
Send ==
  /\ pc = "send" /\ pc' = "sent"
  /\ accepted' = [k \in 1..Len(plan.stages) |-> Accepts(plan, Worker(At(k)), k)]
  /\ UNCHANGED <<in, stage, now, world, route, troubles, reroutes, profiles, link, setup, path,
                 evidence, bundle, plan, asOf, seen>>

------------------------------------------------------------------------------
(* Time and the machines *)

Busy == Measured /\ pc \notin {"sent", "refused", "unplanned", "abandoned"}

\* A tick is the unit of the age limits, and a link run lasts two minutes at most:
\* the clock and the machines move between the operator's steps, the path also
\* within the link run.
Between == Busy /\ link.phase \in {"idle", "done"}

Tick ==
  /\ Between /\ now < MaxNow /\ now' = now + 1
  /\ UNCHANGED <<in, stage, pc, world, route, troubles, reroutes, profiles, link, setup, path,
                 evidence, bundle, plan, asOf, seen, accepted>>

\* another device, driver release or driver API, a rebuilt worker or profiling binary, less or
\* unobservable free host or device memory, a worker that is started in another
\* configuration, another controller that loads a stage
MachineChanges(k) ==
  /\ Between /\ Spend
  /\ world' \in {[world EXCEPT ![k].device = 1], [world EXCEPT ![k].release = 1],
                 [world EXCEPT ![k].driver = 1, ![k].release = 1],
                 [world EXCEPT ![k].binary = 1], [world EXCEPT ![k].helper = 1],
                 [world EXCEPT ![k].free = 90], [world EXCEPT ![k].free = None],
                 [world EXCEPT ![k].room = 90], [world EXCEPT ![k].room = None],
                 [world EXCEPT ![k].configured = FALSE], [world EXCEPT ![k].loaded = TRUE]}
  /\ UNCHANGED <<in, pc, stage, now, route, reroutes, profiles, link, setup, path, evidence,
                 bundle, plan, asOf, seen, accepted>>

Reroute ==
  /\ Busy /\ pc \in {"link", "setup", "path"} /\ reroutes < MaxReroutes
  /\ IF reroutes = 0 THEN Spend ELSE UNCHANGED troubles
  /\ route' \in {"direct", "derp-relayed", "peer-relayed", "inactive"} \ {route}
  /\ reroutes' = reroutes + 1
  /\ UNCHANGED <<in, pc, stage, now, world, profiles, link, setup, path, evidence,
                 bundle, plan, asOf, seen, accepted>>

------------------------------------------------------------------------------
\* a machine as it is when the measurements begin
Untouched == [device |-> 0, driver |-> 0, release |-> 0, binary |-> 0, helper |-> 0,
              free |-> 150, room |-> 200, configured |-> TRUE, loaded |-> FALSE]

Init ==
  /\ in \in Inputs
  /\ pc = IF in.settings.mode = "measured" THEN "memory" ELSE "plan"
  /\ stage = 1
  /\ now = 0 /\ troubles = 0 /\ reroutes = 0 /\ route = "direct"
  /\ world = [k \in {1, 2} |-> Untouched]
  /\ link = [phase |-> "idle", paths |-> << >>, at |-> 0, monitor |-> "none", read |-> None, observed |-> 0,
             stopped |-> FALSE, completed |-> FALSE, rejected |-> None, first |-> None,
             last |-> None, probes |-> << >>, artifact |-> None]
  /\ profiles = {} /\ evidence = << >>
  /\ setup = None /\ path = None /\ bundle = None /\ plan = None /\ asOf = None
  /\ seen = [k \in {1, 2} |-> None] /\ accepted = << >>

Next ==
  \/ \E kind \in {"memory", "compute"}, completed \in BOOLEAN : Profile(kind, completed)
  \/ ProfileAgain \/ ProfileRefused
  \/ LinkStep
  \/ MeasureSetup \/ SnapshotPath \/ SnapshotWorker \/ Seal
  \/ Plan
  \/ ActivateBegin \/ ActivateState \/ ActivateReport
  \/ Send
  \/ Tick \/ (\E k \in {1, 2} : MachineChanges(k)) \/ Reroute

Spec == Init /\ [][Next]_vars

------------------------------------------------------------------------------
(* Properties *)

\* Types of the small variables; the rest are records built by the actions.
TypeOK ==
  /\ stage \in {1, 2} /\ now \in 0..MaxNow /\ troubles \in 0..MaxTroubles /\ reroutes \in 0..MaxReroutes
  /\ route \in {"direct", "derp-relayed", "peer-relayed", "inactive"}
  /\ link.phase \in {"idle", "running", "joining", "deciding", "sealing", "done"}
  /\ Len(evidence) \in 0..2 /\ Len(accepted) \in {0, 2}

\* The plan does not depend on the order in which the workers are configured:
\* equal scores are ordered by candidate identifier (planner.py, create_plan).
PlanIsIndependentOfWorkerOrder ==
  pc \in {"send", "activate", "unplanned"} =>
    create_plan([in EXCEPT !.workers = Reverse(@)], bundle, Evaluations(bundle)).plan = plan

\* Whatever the mode and precision, the C++ worker accepts the plan that the
\* Python planner signed: both write down the same hashed fields.  The planner
\* does not check that activations are F16, so the claim is about those that are.
\* A measured plan that was sent can also be the subject of a sweep if its workload
\* caches no more than it serves, which only the sweep asks for, and the workers
\* accept every placement the sweep signs itself (sweep.py, placements).  Plan and
\* manifest survive the wire, absent optional fields and layer 0 included (wire.py).
WorkersAcceptPlan ==
  plan # None =>
    /\ validate_partition(plan)
    /\ deployment_plan_from_proto(deployment_plan_to_proto(plan)) = plan
    /\ model_manifest_from_proto(model_manifest_to_proto(in.manifest)) = in.manifest
    /\ pc = "sent" /\ plan.activation = "F16" => accepted = <<TRUE, TRUE>>
    /\ pc = "sent" /\ Measured =>
         /\ scope(plan, in, bundle) <=> in.workload.cached = in.workload.prompt + in.workload.output
         /\ \A p \in placements(plan, in) :
              /\ validate_partition(p)
              /\ \A k, i \in {1, 2} : Worker(i).id = p.stages[k].worker => Accepts(p, Worker(i), k)

\* When activation lets a measured plan through, each worker answered as the
\* machine its memory and compute profiles were taken on, configured as it was, with
\* the host memory and, where there is a device, the device memory its profile needs
\* free and nothing loaded, and the path of the link run was seen again for the
\* bundle (activation.py, measured.py).
ActivatedOnItsEvidence ==
  pc = "sent" /\ Measured =>
    /\ \A k \in {1, 2} :
         LET e == EvidenceFor(k) IN
         /\ \A p \in bundle.profiles : p.assignment = plan.stages[k] =>
              p.completed /\ p.env.device = seen[k].device
         /\ seen[k].binary = e.runtime.binary /\ seen[k].configured /\ ~seen[k].loaded
         /\ seen[k].free # None /\ Needed(Peak, e.host) + e.host.headroom <= seen[k].free
         /\ e.device # None =>
              seen[k].room # None /\ Needed(Peak, e.device) + e.device.headroom <= seen[k].room
    /\ bundle.path.route = link.first /\ bundle.path.route # "unknown"

\* When it lets a plan through, none of the evidence the plan rests on was older
\* than the limit at the moment the clock was read, and no snapshot was stale
\* when the bundle was sealed.
EvidenceWasFresh ==
  pc = "sent" /\ Measured =>
    /\ \A at \in {p.at : p \in bundle.profiles} \cup {bundle.link.at, bundle.setup, bundle.at} :
         asOf - at \in 0..ProfileAge
    /\ \A at \in {bundle.path.at} \cup {e.at : e \in ToSet(bundle.workers)} :
         bundle.at - at \in 0..SnapshotAge

\* Activation refuses the plan it was given only for a reason: the evidence aged,
\* a machine changed, or the bundle holds a second memory profile of a stage,
\* which the planner sets aside but activation calls ambiguous.  An unsteady path
\* or an incomplete profile is no such reason: it leads to no plan at all.
RefusedForAReason ==
  pc = "refused" =>
    \/ \E k \in {1, 2} : world[k] # Untouched
    \/ \E p, q \in bundle.profiles : p # q /\ p.kind = q.kind /\ p.assignment = q.assignment
    \/ \E at \in {p.at : p \in bundle.profiles} \cup {link.at, setup, bundle.at} :
         asOf - at > ProfileAge

\* A link run is qualified only if the path at its beginning, at its end and at
\* every stored observation is the same known one, though the monitor thread may
\* append an observation after its join timed out (link.py, run_link_profile).
\* (Every variable has its type as well.)
QualifiedMeansSteady ==
  /\ TypeOK
  /\ link.artifact # None /\ link.artifact.qualified =>
       /\ link.first # "unknown" /\ link.first = link.last
       /\ \A p \in ToSet(link.artifact.paths) : p.route = link.first
=============================================================================
