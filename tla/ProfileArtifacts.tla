-------------------------- MODULE ProfileArtifacts ---------------------------
(***************************************************************************)
(* What a sealed memory or compute profile must contain                    *)
(* (profiling/models.py) and what a memory profile says about a worker     *)
(* with a given amount of free memory (profiling/memory.py).               *)
(***************************************************************************)
EXTENDS PlacementModels

CONSTANT Domains    \* the memory domains of MemoryAmounts that are looked at

MEMORY_PHASES ==
  <<"baseline", "load", "allocate", "prefill", "decode", "request_cleanup", "unload">>

NoMemory == [d \in Domains |-> 0]

ExecutionPhases == {"load", "allocate", "prefill", "decode"}

Values(samples, field) == {samples[i][field] : i \in DOMAIN samples} \ {None}

------------------------------------------------------------------------------
(* ProfileKey and ProfileArtifact *)

supported_workload(key) ==
  LET w == key.workload  a == key.stage IN
  /\ key.weight # None => /\ key.backend # "cpu" /\ key.weight = "F16"
                          /\ key.execution = "F32"
  /\ w.concurrency = 1 /\ w.cached >= w.prompt + w.output
  /\ key.execution \in IF key.backend = "cpu" THEN {"F32"} ELSE {"F16", "F32"}
  /\ w.kv = key.execution /\ w.activation = "F16"
  /\ key.transport = "pinned" => key.backend = "cuda"
  /\ a.start < a.end
  /\ a.embedding = (a.index = 0 /\ a.start = 0)
  /\ a.norm = a.head /\ a.head = a.sampling

\* the (cycle, phase) pairs of a complete run, in order
ExpectedPhases(cycles) ==
  [i \in 1..(cycles * Len(MEMORY_PHASES)) |->
     <<(i - 1) \div Len(MEMORY_PHASES), MEMORY_PHASES[1 + ((i - 1) % Len(MEMORY_PHASES))]>>]

\* ProfileArtifact.verify, for a memory measurement
VerifyMemory(key, cycles, m) ==
  LET observed == {i \in DOMAIN m.samples : m.samples[i].process # None} IN
  /\ observed # {} => /\ observed = DOMAIN m.samples
                      /\ Cardinality({m.samples[i].process.pid : i \in observed}) = 1
  /\ IF m.completed
     THEN /\ m.error = None
          /\ [i \in DOMAIN m.samples |-> <<m.samples[i].cycle, m.samples[i].phase>>]
               = ExpectedPhases(cycles)
          /\ \A i \in DOMAIN m.samples : LET s == m.samples[i] IN
               /\ s.phase \in {"request_cleanup", "unload"} 
                    => s.cache = NoMemory /\ s.workspace = NoMemory
               /\ s.phase \in {"baseline", "unload"} => s.weights = NoMemory
               /\ s.phase \in {"decode", "request_cleanup", "unload"}
                    => s.steps = key.workload.output
     ELSE m.error # None

\* make_artifact: 1.3 as soon as one sample has a process observation
schema_version(key, m) ==
  IF \E i \in DOMAIN m.samples : m.samples[i].process # None THEN "1.3"
  ELSE IF key.weight # None THEN "1.2" ELSE "1.0"

\* one sample of an exercise whose resident set is rss; sizes are those of the stage
MemorySample(phase, rss, output) ==
  LET live == phase \in {"allocate", "prefill", "decode"} IN
  [cycle |-> 0, phase |-> phase,
   weights |-> [d \in Domains |-> IF live \/ phase \in {"load", "request_cleanup"} THEN 40 ELSE 0],
   cache |-> [d \in Domains |-> IF live THEN 10 ELSE 0], workspace |-> NoMemory,
   allocator |-> [peak |-> 50, active |-> 40, cached |-> 10, phasePeak |-> TRUE],
   rss |-> rss, rssPeak |-> rss,
   steps |-> IF phase \in {"decode", "request_cleanup", "unload"} THEN output ELSE 0,
   process |-> [pid |-> 1, at |-> 1, rss |-> rss, rssPeak |-> rss,
                footprint |-> rss, footprintPeak |-> rss]]

\* what the sampling thread sees of the process from outside
observe_process(rss, backend) ==
  [rss |-> rss, device |-> IF backend = "cuda" THEN rss ELSE None]

\* make_artifact for the first phases of one cycle, ended by `error' or complete
make_artifact(phases, rss, error, key, capacity) ==
  LET m == [completed |-> error = None, error |-> error, capacity |-> capacity,
            samples |-> [i \in 1..phases |-> MemorySample(MEMORY_PHASES[i], rss, key.workload.output)],
            physical |-> <<observe_process(rss, key.backend)>>]
  IN  [key |-> key, m |-> m, policy |-> "fresh-process-then-reloads",
       schema |-> schema_version(key, m)]

------------------------------------------------------------------------------
(* assess_fit *)

\* one sample, given the one before it: positive counters, one process, a
\* clock and lifetime peaks that never go back, phase peaks while executing
Coherent(s, previous) ==
  /\ s.process # None
  /\ LET p == s.process IN
     /\ \A v \in {p.rss, p.rssPeak, p.footprint, p.footprintPeak} : v # None /\ v > 0
     /\ p.rssPeak >= p.rss /\ p.footprintPeak >= p.footprint
     /\ previous # None => LET q == previous.process IN
          /\ p.pid = q.pid /\ p.at >= q.at
          /\ p.rssPeak >= q.rssPeak /\ p.footprintPeak >= q.footprintPeak
  /\ s.allocator # None
  /\ s.phase \in ExecutionPhases => s.allocator.phasePeak

\* _footprint_peak: the last lifetime peak of a coherent, complete exercise
footprint_peak(artifact) ==
  LET s == artifact.m.samples
      coherent(i) == Coherent(s[i], IF i = 1 THEN None ELSE s[i - 1])
  IN  IF /\ artifact.schema = "1.3" /\ artifact.m.completed /\ s # << >>
         /\ artifact.policy = "fresh-process-then-reloads"
         /\ \A i \in DOMAIN s : coherent(i)
      THEN Last(s).process.footprintPeak ELSE None

\* bytes a fresh process needs, with its safety margin and overhead
Needed(peak, budget) ==
  peak + (peak * budget.safety + 99) \div 100 + budget.overhead

\* run_memory_profile: the configured cap must fit before anything is started
preflight(cap, budget) ==
  /\ budget.available # None
  /\ cap * (100 + budget.safety) <= 100 * (budget.available - budget.headroom - budget.overhead)

\* envelope(): "ok", or which list the reason goes to
envelope(peak, budget) ==
  IF None \in {peak, budget} THEN "unknown"
  ELSE IF budget.available = None THEN "unknown"
  ELSE IF Needed(peak, budget) + budget.headroom > budget.available THEN "unsafe" ELSE "ok"

allocator_values(m) ==
  {Max({s.allocator.peak, s.allocator.active + s.allocator.cached}) :
     s \in {s \in ToSet(m.samples) : s.allocator # None}}

HostPeak(m, lifetime, unified, footprint) ==
  IF footprint # None
  THEN Max({footprint, unified} \cup lifetime \cup Values(m.samples, "rss"))
  ELSE IF lifetime = {} THEN None ELSE Max(lifetime) + unified

host_peak(artifact, mlxPolicy) ==
  LET mlx == artifact.key.backend = "mlx" IN
  HostPeak(artifact.m,
           Values(artifact.m.samples, "rssPeak")
             \cup Values(artifact.m.physical, "rss"),
           IF mlx THEN Max(allocator_values(artifact.m) \cup {0}) ELSE 0,
           IF mlx /\ mlxPolicy = "footprint-v1" THEN footprint_peak(artifact) ELSE None)

device_peak(artifact) ==
  LET peak(values) == IF values = {} THEN None ELSE Max(values)
  IN  peak(Values(artifact.m.physical, "device") \cup allocator_values(artifact.m))

\* what makes it unsafe, and what leaves it open: the two envelopes are given
Unsafe(artifact, capacity, hostFit, deviceFit) ==
  \/ \E s \in ToSet(artifact.m.samples), d \in Domains :
       s.weights[d] + s.cache[d] + s.workspace[d] > capacity[d]
  \/ "unsafe" \in {hostFit, deviceFit}

Unknown(artifact, capacity, hostFit, deviceFit) ==
  \/ ~artifact.m.completed
  \/ \E d \in Domains : capacity[d] < artifact.m.capacity[d]
  \/ /\ artifact.key.backend # "cpu"
     /\ \E s \in ToSet(artifact.m.samples) :
          s.phase \in ExecutionPhases /\ (s.allocator = None \/ ~s.allocator.phasePeak)
  \/ artifact.key.backend = "cuda" /\ Values(artifact.m.physical, "device") = {}
  \/ "unknown" \in {hostFit, deviceFit}

FitStatus(artifact, capacity, hostFit, deviceFit) ==
  IF Unsafe(artifact, capacity, hostFit, deviceFit) THEN "unsafe"
  ELSE IF Unknown(artifact, capacity, hostFit, deviceFit) THEN "unknown" ELSE "safe"

assess_fit(artifact, capacity, host, device, mlxPolicy) ==
  FitStatus(artifact, capacity, envelope(host_peak(artifact, mlxPolicy), host),
            IF artifact.key.backend = "cuda" THEN envelope(device_peak(artifact), device) ELSE "ok")
=============================================================================
