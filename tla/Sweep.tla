-------------------------------- MODULE Sweep --------------------------------
(***************************************************************************)
(* The qualification sweep (qualification/sweep.py, native.py, host.py):   *)
(* every placement is measured on fresh workers, round after round, and    *)
(* the planner's choice is accepted, rejected or left open.  Each job      *)
(* leaves evidence.json and then result.json, both created exclusively, so *)
(* that a stopped sweep is resumed by the same command.                    *)
(***************************************************************************)
EXTENDS ProfileArtifacts

CONSTANTS
  Candidates,       \* the placements, in the order of their identifiers
  Selected,         \* the planner's choice
  Order,            \* per round: the shuffled placements
  Specs,            \* the frozen sweeps: repetitions, maximum_repetitions and seed
  Resampled(_, _),  \* for a seed and the samples of each placement: whether the bootstrap
                    \* interval is "within" the regret limit, "across" or "beyond" it
  Warmups,          \* generations before the one that is measured
  Latencies,        \* generation times, in ms; the first is the usual one
  ProbeLines,       \* lines a failed native profiler may have written
  JobLimits,        \* values of maximum_jobs
  MaxRounds,        \* bound: rounds of the longest sweep
  MaxFaults,        \* bound: departures from the ordinary course
  MaxInvocations    \* bound: runs of the command

\* the lines, exit status and size of a memory probe
Probes == [lines : Nat, exit : {0, 1}, heavy : BOOLEAN]

\* JobResult; a result.json that is half written has no more than its name
Results ==
  [status : {"unknown", "measured", "memory-excluded", "correctness-failed"},
   samples : Seq([exact : BOOLEAN, ms : Latencies]), cleanup : BOOLEAN, health : {None, TRUE},
   exclusion : {None} \cup [probe : Probes, available : {150, 90, None}],
   interrupted : BOOLEAN, evidence : 1..MaxInvocations,
   owned : BOOLEAN, clean : BOOLEAN, frozen : BOOLEAN]
  \cup [status : {"torn"}]

ASSUME SweepAssumption ==
  /\ Selected \in Candidates /\ Candidates \subseteq Nat /\ IsFiniteSet(Candidates)
  /\ MaxRounds \in Nat /\ MaxFaults \in Nat /\ MaxInvocations \in Nat /\ Warmups \in Nat
  /\ ProbeLines \subseteq Nat /\ Latencies \subseteq Nat \ {0}
  /\ \A s \in Specs : /\ s.repetitions \in Nat \ {0} /\ s.maximum \in Nat
                       /\ s.maximum >= s.repetitions /\ s.maximum <= MaxRounds
  /\ \A s \in Specs : \A r \in 1..s.maximum :
       Order[r] \in Seq(Candidates) /\ ToSet(Order[r]) = Candidates
                                    /\ Len(Order[r]) = Cardinality(Candidates)
  /\ None \notin {"native process exited", "pass"} /\ None \notin Results

VARIABLES
  spec,      \* the frozen sweep
  limit,     \* maximum_jobs of this invocation
  results,   \* result.json of each job: None, or the result
  evidence,  \* evidence.json of each job: None, or the attempt it belongs to
  decision,  \* the last summary.json
  pc,        \* the controller; at rest it returned, raised or was killed
  job,       \* the job of the loop
  launched, invocation,
  stage,     \* the stage or worker being probed or started
  att,       \* the attempt: the local variables of NativeExecutor.__call__
  workers,   \* per worker: "none", "owned", or "lingering" when its helper is gone
  changed,   \* whether the package changed since the sweep was frozen
  faults

vars == <<spec, limit, results, evidence, decision, pc, job, launched, invocation, stage,
          att, workers, changed, faults>>

Workers == {1, 2}
NoAttempt == [status |-> "unknown", interrupted |-> FALSE, cleanup |-> FALSE, health |-> None,
              samples |-> << >>, exclusion |-> None,
              owned |-> TRUE, clean |-> TRUE, frozen |-> TRUE]

Fault == faults < MaxFaults /\ faults' = faults + 1

------------------------------------------------------------------------------
(* The schedule *)

JobsPerRound == Cardinality(Candidates) + 2
AllJobs == 1..(JobsPerRound * MaxRounds)
Jobs == 1..(JobsPerRound * spec.maximum)
Round(j) == 1 + (j - 1) \div JobsPerRound
Slot(j) == 1 + ((j - 1) % JobsPerRound)
IsReference(j) == Slot(j) \in {1, JobsPerRound}
IsAfter(j) == Slot(j) = JobsPerRound

\* the selected plan before and after the shuffled placements
CandidateOf(j) == IF IsReference(j) THEN Selected ELSE Order[Round(j)][Slot(j) - 1]

------------------------------------------------------------------------------
(* The memory probe: host.py runs run_memory_profile, which reads the lines
   the native profiler wrote (environment, one per phase, complete) *)

Key == [backend |-> "cpu", weight |-> None, workload |-> [output |-> 1]]
Capacity == [d \in Domains |-> 60]
Budget(available) == [available |-> available, headroom |-> 5, overhead |-> 5, safety |-> 10]

AllLines == Len(MEMORY_PHASES) + 2

\* a complete line count and exit status 0 is a completed exercise; a torn last
\* line ends the reading
ProbeArtifact(lines, exit, heavy) ==
  make_artifact(Min({Max({lines - 1, 0}), Len(MEMORY_PHASES)}), IF heavy THEN 200 ELSE 100,
                IF exit = 0 /\ lines = AllLines THEN None ELSE "native process exited",
                Key, Capacity)

Fit(probe, available) ==
  assess_fit(ProbeArtifact(probe.lines, probe.exit, probe.heavy), Capacity, Budget(available),
             None, "conservative-v1")

Completed(probe) == ProbeArtifact(probe.lines, probe.exit, probe.heavy).m.completed

------------------------------------------------------------------------------
(* validate_result and summarize *)

validate_result(r) ==
  /\ r.status = "memory-excluded" =>
       /\ r.exclusion # None /\ Completed(r.exclusion.probe)
       /\ Fit(r.exclusion.probe, r.exclusion.available) = "unsafe"
  /\ r.status = "measured" =>
       /\ r.cleanup /\ Len(r.samples) = Warmups + 1
       /\ \A i \in DOMAIN r.samples : r.samples[i].exact

Measured(js, c) == {j \in js : ~IsReference(j) /\ CandidateOf(j) = c /\ results[j].status = "measured"}
Generation(j) == Last(results[j].samples).ms
References(js) == {j \in js : IsReference(j)}

\* every placement measured, or excluded by memory, in each of enough rounds
Complete(js) ==
  /\ js = 1..(JobsPerRound * (Cardinality(js) \div JobsPerRound))
  /\ Cardinality(js) >= JobsPerRound * spec.repetitions
  /\ \A c \in Candidates :
       LET own == {j \in js : ~IsReference(j) /\ CandidateOf(j) = c} IN
       \/ \A j \in own : results[j].status = "measured"
       \/ \A j \in own : results[j].status = "memory-excluded"

\* all reference jobs measured, within the drift limit of a tenth
Stable(js) ==
  /\ \A j \in References(js) : results[j].status = "measured"
  /\ \A i, j \in References(js) : 10 * Generation(i) <= 11 * Generation(j)

\* selected_health_passed of the reference-after jobs
Health(js) == \A j \in References(js) : IsAfter(j) => results[j].health = TRUE

AcceptableRegret(i, j) == 100 * Generation(i) <= 115 * Generation(j)

\* no sample of the selected plan is more than 15 % slower than one of another plan
AllWithin(js) ==
  \A c \in Candidates \ {Selected} :
    \A i \in Measured(js, Selected), j \in Measured(js, c) : AcceptableRegret(i, j)

\* every sample of the selected plan is more than 15 % slower than all of another plan
AllBeyond(js) ==
  \E c \in Candidates \ {Selected} : Measured(js, c) # {} /\
    \A i \in Measured(js, Selected), j \in Measured(js, c) : ~AcceptableRegret(i, j)

Samples(js) == [c \in Candidates |-> [j \in Measured(js, c) |-> Generation(j)]]

\* The 95 % bootstrap interval of median(selected) / best median - 1 against the limit.
\* A resampled median lies between the extreme samples, whatever their number, so two
\* cases are settled by the extremes; otherwise the resampling from the seed settles it.
Regret(js) ==
  IF AllWithin(js) THEN "within"
  ELSE IF AllBeyond(js) THEN "beyond" ELSE Resampled(spec.seed, Samples(js))

Judged(js) ==
  IF ~Complete(js) THEN "incomplete"
  ELSE IF ~Stable(js) THEN "unstable"
  ELSE IF Measured(js, Selected) = {} \/ ~Health(js) THEN "inconclusive"
  ELSE CASE Regret(js) = "within" -> "pass"
         [] Regret(js) = "beyond" -> "fail"
         [] OTHER -> "inconclusive"

\* summarize refuses results that do not validate
summarize(js) ==
  IF \E j \in js : ~validate_result(results[j]) THEN "refused" ELSE Judged(js)

------------------------------------------------------------------------------
(* run: the loop over the jobs *)

\* the process ends: the pipes close and the helpers retire their workers
Exit(how) ==
  /\ pc' = how
  /\ workers' = [w \in Workers |-> IF workers[w] = "none" THEN "none" ELSE "lingering"]

AtRest == pc \in {"idle", "returned", "raised", "killed"}

\* hllm qualify-sweep, first or again
Invoke ==
  /\ AtRest /\ invocation < MaxInvocations
  /\ invocation' = invocation + 1
  /\ pc' = "job" /\ job' = 1 /\ launched' = 0 /\ limit' \in JobLimits
  /\ UNCHANGED <<spec, results, evidence, decision, stage, att, workers, changed, faults>>

Before(j) == 1..(j - 1)

\* half written when the controller was killed
Torn(j) == results[j].status = "torn"

\* the job has a result: read it, and its evidence
ReadResult ==
  /\ pc = "job" /\ job \in Jobs /\ results[job] # None
  /\ IF ~Torn(job) /\ validate_result(results[job]) /\ evidence[job] = results[job].evidence
     THEN pc' = "next" /\ UNCHANGED workers
     ELSE Exit("raised")
  /\ UNCHANGED <<spec, limit, results, evidence, decision, job, launched, invocation, stage,
                 att, changed, faults>>

\* maximum_jobs is reached
Pause ==
  /\ pc = "job" /\ job \in Jobs /\ results[job] = None /\ launched >= limit
  /\ decision' = summarize(Before(job))
  /\ Exit("returned")
  /\ UNCHANGED <<spec, limit, results, evidence, job, launched, invocation, stage, att,
                 changed, faults>>

\* NativeExecutor.__call__ begins: another package is an error before any work
Execute ==
  /\ pc = "job" /\ job \in Jobs /\ results[job] = None /\ launched < limit
  /\ IF changed THEN Exit("raised") /\ UNCHANGED <<stage, att>>
     ELSE pc' = "probe" /\ stage' = 1 /\ att' = NoAttempt /\ UNCHANGED workers
  /\ UNCHANGED <<spec, limit, results, evidence, decision, job, launched, invocation,
                 changed, faults>>

\* mutant: the summary of a round is written before its last result is appended
NextJobEarly ==
  /\ pc \in {"next", "executed"}
  /\ IF Slot(job) < JobsPerRound
     THEN pc' = "job" /\ job' = job + 1 /\ UNCHANGED <<decision, workers>>
     ELSE decision' = summarize(Before(job)) /\ Exit("returned") /\ UNCHANGED job
  /\ UNCHANGED <<spec, limit, results, evidence, launched, invocation, stage, att, changed, faults>>

\* The end of a job.  A fresh interrupt ends this invocation; an earlier one, read
\* from disk, does not.  At the end of a round the summary decides.
NextJob ==
  /\ pc \in {"next", "executed"}
  /\ IF pc = "executed" /\ att.interrupted
     THEN decision' = summarize(1..job) /\ Exit("returned") /\ UNCHANGED job
     ELSE IF Slot(job) < JobsPerRound
     THEN pc' = "job" /\ job' = job + 1 /\ UNCHANGED <<decision, workers>>
     ELSE /\ decision' = summarize(1..job)
          /\ IF \/ Round(job) >= spec.repetitions /\ decision' # "inconclusive"
                \/ Round(job) = spec.maximum
             THEN Exit("returned") /\ UNCHANGED job
             ELSE pc' = "job" /\ job' = job + 1 /\ UNCHANGED workers
  /\ UNCHANGED <<spec, limit, results, evidence, launched, invocation, stage, att, changed, faults>>

------------------------------------------------------------------------------
(* One attempt *)

AttemptUnchanged ==
  UNCHANGED <<spec, limit, results, evidence, decision, job, launched, invocation, changed>>

\* an exception inside the try statement
Raise(status, exclusion, cleanup) ==
  /\ att' = [att EXCEPT !.status = status, !.exclusion = exclusion, !.cleanup = cleanup]
  /\ pc' = "unwind"

\* The probe of one stage, run by a fresh helper.  Without a line there is no
\* artifact: a rejected preflight, a helper that failed or ran out of time.
\* Unsafe is looked at before incomplete.
ProbeAnswers(probe) ==
  /\ pc = "probe"
  /\ IF probe = [lines |-> AllLines, exit |-> 0, heavy |-> FALSE] THEN UNCHANGED faults ELSE Fault
  /\ IF probe.lines = 0 THEN Raise("unknown", None, FALSE) /\ UNCHANGED stage
     ELSE IF Fit(probe, 150) = "unsafe"
     THEN Raise("memory-excluded", [probe |-> probe, available |-> 150], TRUE) /\ UNCHANGED stage
     ELSE IF Fit(probe, 150) = "unknown" \/ ~Completed(probe)
     THEN Raise("unknown", None, FALSE) /\ UNCHANGED stage
     ELSE /\ UNCHANGED att
          /\ IF stage = 1 THEN stage' = 2 /\ pc' = "probe" ELSE stage' = 1 /\ pc' = "serve"
  /\ UNCHANGED workers /\ AttemptUnchanged

Probe ==
  \E lines \in ProbeLines, exit \in {0, 1}, heavy \in BOOLEAN :
    /\ exit = 0 => lines = AllLines
    /\ ProbeAnswers([lines |-> lines, exit |-> exit, heavy |-> heavy])

\* mutant: whichever worker answers on the endpoint is used
ServeAnyWorker ==
  /\ pc = "serve"
  /\ workers' = [workers EXCEPT ![stage] = IF @ = "lingering" THEN @ ELSE "owned"]
  /\ att' = [att EXCEPT !.owned = @ /\ workers'[stage] = "owned"]
  /\ IF stage = 1 THEN stage' = 2 /\ pc' = "serve" ELSE stage' = 1 /\ pc' = "load"
  /\ UNCHANGED faults /\ AttemptUnchanged

\* A worker is started and must be the one that answers; then the memory that is
\* free now is compared with the probe of its stage.
Serve ==
  /\ pc = "serve"
  /\ \/ /\ workers[stage] = "lingering"
        /\ Raise("unknown", None, FALSE) /\ UNCHANGED <<workers, stage, faults>>
     \/ /\ workers[stage] = "none"
        /\ workers' = [workers EXCEPT ![stage] = "owned"]
        /\ \E available \in {150, 90, None} :
             /\ IF available = 150 THEN UNCHANGED faults ELSE Fault
             /\ LET fine == [lines |-> AllLines, exit |-> 0, heavy |-> FALSE] IN
                CASE Fit(fine, available) = "unsafe" ->
                       Raise("memory-excluded", [probe |-> fine, available |-> available], TRUE)
                       /\ UNCHANGED stage
                  [] Fit(fine, available) = "unknown" ->
                       Raise("unknown", None, FALSE) /\ UNCHANGED stage
                  [] OTHER ->
                       /\ UNCHANGED att
                       /\ IF stage = 1 THEN stage' = 2 /\ pc' = "serve"
                          ELSE stage' = 1 /\ pc' = "load"
  /\ AttemptUnchanged

\* DeploymentSession loads both stages, or raises
Load(fails) ==
  /\ pc = "load"
  /\ IF fails THEN Fault /\ Raise("unknown", None, FALSE)
     ELSE UNCHANGED <<faults, att>> /\ pc' = "generate"
  /\ UNCHANGED <<workers, stage>> /\ AttemptUnchanged

\* One generation and _clean: the sample is kept, then reservations must retire,
\* then the tokens must be those of the reference.  A stream that fails leaves none.
Generate(ms, exact, clean) ==
  /\ pc = "generate"
  /\ IF exact /\ clean THEN UNCHANGED faults ELSE Fault
  /\ LET next == Append(att.samples, [exact |-> exact, ms |-> ms]) IN
     /\ att' = [att EXCEPT !.samples = next, !.clean = @ /\ clean,
                           !.status = IF clean /\ ~exact THEN "correctness-failed" ELSE @]
     /\ pc' = IF ~clean \/ ~exact THEN "unwind"
              ELSE IF Len(next) <= Warmups THEN "generate"
              ELSE IF IsAfter(job) THEN "health" ELSE "unload"
  /\ UNCHANGED <<workers, stage>> /\ AttemptUnchanged

StreamFails ==
  /\ pc = "generate" /\ Fault /\ Raise("unknown", None, FALSE)
  /\ UNCHANGED <<workers, stage>> /\ AttemptUnchanged

\* _health: a cancelled and an expired request, each with cleanup and recovery
CheckHealth(passes) ==
  /\ pc = "health"
  /\ IF passes THEN UNCHANGED faults /\ att' = [att EXCEPT !.health = TRUE] /\ pc' = "unload"
     ELSE Fault /\ Raise("unknown", None, FALSE)
  /\ UNCHANGED <<workers, stage>> /\ AttemptUnchanged

\* the session unloads; _clean looks at the weights too
Unload(clean) ==
  /\ pc = "unload"
  /\ IF clean THEN /\ att' = [att EXCEPT !.cleanup = TRUE, !.status = "measured"]
                   /\ pc' = "unwind" /\ UNCHANGED faults
     ELSE Fault /\ Raise("unknown", None, FALSE)
  /\ UNCHANGED <<workers, stage>> /\ AttemptUnchanged

\* mutant: a worker is only registered for _stop once it was accepted
UnwindAccepted ==
  /\ pc = "unwind"
  /\ workers' = [w \in Workers |-> IF workers[w] = "owned" /\ att.samples # << >>
                                   THEN "none" ELSE workers[w]]
  /\ pc' = "evidence" /\ UNCHANGED <<att, stage, faults>> /\ AttemptUnchanged

\* ExitStack: _stop for every worker that was started.  A helper that does not end
\* within ten seconds is terminated, without its finally clause: its worker is left.
Unwind ==
  /\ pc = "unwind"
  /\ \/ /\ workers' = [w \in Workers |-> IF workers[w] = "owned" THEN "none" ELSE workers[w]]
        /\ UNCHANGED faults
     \/ /\ \E left \in (SUBSET {w \in Workers : workers[w] = "owned"}) \ {{}} :
             workers' = [w \in Workers |-> IF w \in left THEN "lingering"
                                           ELSE IF workers[w] = "owned" THEN "none" ELSE workers[w]]
        /\ Fault
  /\ pc' = "evidence" /\ UNCHANGED <<att, stage>> /\ AttemptUnchanged

\* Ctrl-C inside the try statement, also while the workers are being stopped: the
\* attempt is kept, and the status it has by then; a worker whose _stop was cut
\* short has lost its pipe and ends by itself
InTry == pc \in {"probe", "serve", "load", "generate", "health", "unload", "unwind"}
Interrupt ==
  /\ InTry /\ ~att.interrupted /\ Fault
  /\ att' = [att EXCEPT !.interrupted = TRUE]
  /\ pc' = "unwind"
  /\ \/ UNCHANGED workers
     \/ /\ pc = "unwind"
        /\ \E w \in Workers : workers[w] = "owned" /\ workers' = [workers EXCEPT ![w] = "lingering"]
  /\ UNCHANGED stage /\ AttemptUnchanged

\* mutant: the evidence of an earlier attempt is overwritten
WriteEvidenceAgain ==
  /\ pc = "evidence" /\ evidence' = [evidence EXCEPT ![job] = invocation] /\ pc' = "save"
  /\ UNCHANGED <<spec, limit, results, decision, workers, job, launched, invocation, stage, att,
                 changed, faults>>

\* write_exclusive(evidence.json): an existing file is an error that ends the run
WriteEvidence ==
  /\ pc = "evidence"
  /\ IF evidence[job] # None THEN Exit("raised") /\ UNCHANGED evidence
     ELSE /\ evidence' = [evidence EXCEPT ![job] = invocation]
          /\ pc' = "save" /\ UNCHANGED workers
  /\ UNCHANGED <<spec, limit, results, decision, job, launched, invocation, stage, att,
                 changed, faults>>

JobResult ==
  [status |-> att.status, samples |-> att.samples, cleanup |-> att.cleanup, health |-> att.health,
   exclusion |-> att.exclusion, interrupted |-> att.interrupted, evidence |-> invocation,
   owned |-> att.owned, clean |-> att.clean, frozen |-> att.frozen]

\* validate_result, then write_exclusive(result.json)
Save ==
  /\ pc = "save"
  /\ IF ~validate_result(JobResult) THEN Exit("raised") /\ UNCHANGED <<results, launched>>
     ELSE /\ results' = [results EXCEPT ![job] = JobResult]
          /\ launched' = launched + 1 /\ pc' = "executed" /\ UNCHANGED workers
  /\ UNCHANGED <<spec, limit, evidence, decision, job, invocation, stage, att, changed, faults>>

------------------------------------------------------------------------------
(* Faults outside the attempt *)

\* the controller is killed, possibly while a file is half written
Crash ==
  /\ ~AtRest /\ Fault
  /\ Exit("killed")
  /\ \/ UNCHANGED results
     \/ pc = "save" /\ validate_result(JobResult) /\ results' = [results EXCEPT ![job] = [status |-> "torn"]]
  /\ UNCHANGED <<spec, limit, evidence, decision, job, launched, invocation, stage, att, changed>>

\* the helper sees its pipe closed and ends its worker, or somebody else ends it
LingeringRetires(w) ==
  /\ workers[w] = "lingering" /\ workers' = [workers EXCEPT ![w] = "none"]
  /\ UNCHANGED <<spec, limit, results, evidence, decision, pc, job, launched, invocation,
                 stage, att, changed, faults>>

\* The package is edited, once and for good.  An attempt under way does not notice:
\* its next helpers are sent the digest of the package as it is when they start.
Edit ==
  /\ ~changed /\ Fault /\ changed' = TRUE
  /\ att' = [att EXCEPT !.frozen = @ /\ pc \notin {"probe", "serve"}]
  /\ UNCHANGED <<spec, limit, results, evidence, decision, pc, job, launched, invocation,
                 stage, workers>>

------------------------------------------------------------------------------
Init ==
  /\ spec \in Specs /\ limit = 0
  /\ results = [j \in AllJobs |-> None] /\ evidence = [j \in AllJobs |-> None]
  /\ decision = None /\ pc = "idle" /\ job = 1 /\ launched = 0 /\ invocation = 0
  /\ stage = 1 /\ att = NoAttempt /\ workers = [w \in Workers |-> "none"]
  /\ changed = FALSE /\ faults = 0

\* the latency matters for the measured sample of the selected plan
GenerateSome ==
  \E ms \in Latencies, exact, clean \in BOOLEAN :
    /\ ms # 10 => /\ Len(att.samples) = Warmups /\ CandidateOf(job) = Selected
    /\ Generate(ms, exact, clean)

Controller ==
  \/ ReadResult \/ Pause \/ Execute \/ NextJob
  \/ Probe \/ Serve \/ (\E fails \in BOOLEAN : Load(fails)) \/ GenerateSome \/ StreamFails
  \/ (\E passes \in BOOLEAN : CheckHealth(passes)) \/ (\E clean \in BOOLEAN : Unload(clean))
  \/ Unwind \/ WriteEvidence \/ Save

Next == Invoke \/ Controller \/ Interrupt \/ Crash \/ Edit \/ (\E w \in Workers : LingeringRetires(w))

Spec == Init /\ [][Next]_vars
------------------------------------------------------------------------------
(* Properties *)

TypeOK ==
  /\ spec \in Specs /\ job \in AllJobs /\ stage \in Workers
  /\ invocation \in 0..MaxInvocations /\ faults \in 0..MaxFaults
  /\ decision \in {None, "incomplete", "unstable", "inconclusive", "pass", "fail"}
  /\ workers \in [Workers -> {"none", "owned", "lingering"}]
  /\ Len(att.samples) \in 0..(Warmups + 1)

\* What is on disk stays as it is, across resumes and crashes: no attempt
\* overwrites the evidence or the result of an earlier one (sweep.py, run).
ResultsAreImmutable ==
  [][\A j \in AllJobs : /\ results[j] # None => results'[j] = results[j]
                        /\ evidence[j] # None => evidence'[j] = evidence[j]]_vars

\* "pass" means that every job of every round that was begun has a result; that
\* each placement was measured on workers this sweep started, with the reference's
\* tokens and nothing left reserved, or excluded by a completed exercise that did not
\* fit; that every reference job was measured and every reference-after job survived
\* a cancellation and a deadline; that at most one attempt, the one under way when
\* the package was edited, ran helpers of another package than the frozen one; and
\* that no other placement was always more than 15 % faster than the selected one.
PassIsEarned ==
  decision = "pass" =>
    LET saved == {j \in Jobs : results[j] # None} IN
    /\ Cardinality(saved) >= JobsPerRound * spec.repetitions
    /\ Cardinality(saved) % JobsPerRound = 0
    /\ \A j \in saved : LET r == results[j] IN
         /\ \/ /\ r.status = "measured" /\ r.owned /\ r.clean
               /\ \A i \in 1..(Warmups + 1) : r.samples[i].exact
            \/ /\ r.status = "memory-excluded" /\ ~IsReference(j)
               /\ r.exclusion.probe.lines = AllLines /\ r.exclusion.probe.exit = 0
         /\ IsAfter(j) => r.health = TRUE
    /\ \A i, j \in saved : ~results[i].frozen /\ ~results[j].frozen => i = j
    /\ \A c \in Candidates \ {Selected} : Measured(saved, c) # {} =>
         \E i \in Measured(saved, Selected), j \in Measured(saved, c) :
           100 * Generation(i) <= 115 * Generation(j)

\* When an invocation returns, the summary it leaves takes every result on disk
\* into account, whether the invocation produced it or an earlier one did, failed
\* and interrupted attempts included (sweep.py, run and summarize).
DecisionIsOfAllResults ==
  pc = "returned" => decision = summarize({j \in Jobs : results[j] # None})

\* Between attempts no worker that an attempt started is still in its hands: the
\* memory probe of the next job never runs beside it (native.py, ExitStack, _stop).
\* A worker that an interrupted or timed-out _stop left behind is not in anyone's.
\* (Every variable has its type as well.)
FreshWorkers ==
  /\ TypeOK
  /\ pc \in {"probe", "evidence", "save", "executed", "next", "job"} =>
       \A w \in Workers : workers[w] # "owned"
=============================================================================
