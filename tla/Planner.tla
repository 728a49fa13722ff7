------------------------------- MODULE Planner -------------------------------
(***************************************************************************)
(* The placement planner (planner/planner.py, models.py), the wire mapping *)
(* of its plans (wire.py) and the worker's own check of a plan             *)
(* (validate_plan in control_service.cpp), as operators.                   *)
(*                                                                         *)
(* Worker identifiers are numbers, ordered as their texts are; a candidate *)
(* identifier is the triple the code formats.  Fractions are percentages.  *)
(* A digest is the value it is computed from: SHA-256 is injective here.   *)
(***************************************************************************)
EXTENDS PlacementModels

------------------------------------------------------------------------------
(* Memory of one stage *)

\* which tensors a stage keeps resident
Includes(m, t, start, end, isFirst, isFinal) ==
  CASE t.role = "TRANSFORMER_LAYER"  -> t.layer # None /\ t.layer >= start /\ t.layer < end
    [] t.role = "TOKEN_EMBEDDING"    -> isFirst \/ (isFinal /\ m.tied)
    [] t.role = "FINAL_NORM"         -> isFinal
    [] t.role = "LM_HEAD"            -> isFinal /\ ~m.tied
    [] t.role = "ARCHITECTURE_STATE" -> TRUE

stage_weight_bytes(m, start, end, isFirst, isFinal, dtype) ==
  LET kept == {i \in DOMAIN m.tensors :
                 Includes(m, m.tensors[i], start, end, isFirst, isFinal)}
      bytes == [i \in kept |-> m.tensors[i].elements * DTYPE_BYTES[dtype]]
  IN  Total(bytes, kept)

kv_bytes(m, workload, layers) ==
  Ceil(layers * workload.cached * 2 * m.kvWidth * DTYPE_BYTES[workload.kv] * workload.kvFactor, 100)

boundary_buffers(m, w, workload) ==
  workload.concurrency * workload.prompt * m.hidden * DTYPE_BYTES[workload.activation] * w.buffers

workspace_bytes(w) ==
  w.workspace + IF w.domain \in {"HOST", "UNIFIED"} THEN w.transport ELSE 0

StageMemory(w, required, usable) ==
  [worker |-> w.id, required |-> required, usable |-> usable,
   pressure |-> IF usable = 0 THEN 10 * PressureScale ELSE (required * PressureScale) \div usable]

WithAllowance(subtotal, w) == subtotal + Ceil(subtotal * w.allowance, 100)

stage_memory(m, w, workload, settings, start, end, isFirst, isFinal) ==
  StageMemory(w,
    WithAllowance(stage_weight_bytes(m, start, end, isFirst, isFinal,
                                     IF settings.weight # None THEN settings.weight
                                     ELSE settings.execution)
                    + kv_bytes(m, workload, end - start) + workspace_bytes(w)
                    + boundary_buffers(m, w, workload), w),
    usable_bytes(w.budgets[w.domain]))

------------------------------------------------------------------------------
(* Links and scores *)

find_link(links, source, target) ==
  LET matching == {i \in DOMAIN links : links[i].source = source /\ links[i].target = target}
  IN  IF matching = {} THEN None ELSE links[Min(matching)]

boundary_estimate(m, workload, link) ==
  LET width      == workload.concurrency * m.hidden * DTYPE_BYTES[workload.activation]
      conversion == link.sender + link.receiver
      extra      == Ceil(workload.prompt, boundary_message_tokens(workload)) - 1
  IN  [prefill |-> link.latency + (workload.prompt * width) \div link.bandwidth + conversion
                     + extra * (link.latency + conversion),
       decode  |-> link.latency + width \div link.bandwidth + conversion,
       ttft    |-> None]

relay_penalty(type) ==
  [DIRECT |-> 0, PEER_RELAYED |-> 100, DERP_RELAYED |-> 1000, UNKNOWN |-> 10][type]

\* Scores are multiplied by 100 * PressureScale^2, so that the weights 0.25,
\* 0.50, 0.20 and 0.05 and the squared pressure stay whole numbers.
candidate_score(highest, lowest, performance, settings, link) ==
  CASE settings.mode = "feasibility" -> 100 * highest + (highest - lowest)
    [] settings.mode = "measured"    ->
         PressureScale * PressureScale * (25 * performance.ttft + 70 * performance.decode)
           + 5 * highest * highest
    [] settings.mode = "estimated"   ->
         PressureScale * PressureScale * (25 * performance.prefill + 70 * performance.decode
                                            + 100 * relay_penalty(link.type))
           + 5 * highest * highest

------------------------------------------------------------------------------
(* Enumeration.  `evaluation' is the measured evaluation of each placement. *)

\* why the inputs are refused as a whole, or None
validate_workers(m, workers, settings) ==
  IF Len(workers) # 2 \/ workers[1].id = workers[2].id THEN "workers"
  ELSE IF \E i \in {1, 2} :
            \/ ~workers[i].architecture
            \/ settings.weight # None /\ ~workers[i].mixed
            \/ settings.execution \notin workers[i].dtypes
       THEN "unsupported" ELSE None

\* why there is no report at all, or None
Refusal(in, bundle) ==
  LET s == in.settings IN
  CASE validate_workers(in.manifest, in.workers, s) # None -> "workers"
    [] s.weight # None /\ in.workload.kv # s.execution -> "dtypes"
    [] s.mode # "measured" /\ bundle # None -> "bundle"
    [] s.mode = "measured" /\ bundle = None -> "bundle"
    [] s.mode = "measured" /\ bundle # None /\
         (\/ ToSet(in.workers) # {e.worker : e \in ToSet(bundle.workers)}
          \/ s.execution # in.workload.kv
          \/ in.workload.chunk > 0) -> "bundle"
    [] OTHER -> None

\* what one worker cannot hold
StageReasons(stage, w) ==
  (IF stage.required > stage.usable THEN {<<w.domain, "MEMORY_EXCEEDED", w.id>>} ELSE {})
  \cup (IF has_budget(w, "HOST_PINNED") /\ ~has_budget(w, "HOST")
        THEN {<<"HOST", "MISSING_BUDGET", w.id>>} ELSE {})
  \cup {<<d, "MEMORY_EXCEEDED", w.id>> :
          d \in {d \in {"HOST", "HOST_PINNED"} :
                   has_budget(w, d) /\ w.transport > usable_bytes(w.budgets[d])}}

\* fits: what speaks against the placement before its cost is looked at
FitReasons(in, first, final, link, stages) ==
  StageReasons(stages[1], first) \cup StageReasons(stages[2], final)
  \cup (IF boundary_message_tokens(in.workload)
             > maximum_boundary_tokens(in.manifest.hidden, in.workload.activation)
        THEN {<<"BOUNDARY_PAYLOAD_EXCEEDED">>} ELSE {})
  \cup (IF in.settings.mode = "estimated" /\ link = None
        THEN {<<"MISSING_LINK_PROFILE">>} ELSE {})

Rated(in, id, stages, fits, found, link) ==
  [id |-> id, first |-> id[1], final |-> id[2], split |-> id[3], stages |-> stages,
   reasons |-> fits \cup found.reasons,
   status |-> IF found.status # None /\ fits # {} THEN "infeasible" ELSE found.status,
   score |-> IF fits = {} /\ found.reasons = {}
             THEN candidate_score(Max({stages[1].pressure, stages[2].pressure}),
                                  Min({stages[1].pressure, stages[2].pressure}),
                                  found.performance, in.settings, link)
             ELSE None]

\* the measured evaluation, or the estimate from the configured link
Found(in, evaluation, id, link) ==
  IF in.settings.mode = "measured"
  THEN evaluation[id]
  ELSE [status |-> None, reasons |-> {},
        performance |-> IF link = None THEN None
                        ELSE boundary_estimate(in.manifest, in.workload, link)]

Candidate(in, evaluation, first, final, id, link, stages) ==
  Rated(in, id, stages, FitReasons(in, first, final, link, stages),
        Found(in, evaluation, id, link), link)

\* both worker orders, every interior split, in the order of the two loops
raw_candidates(in, evaluation) ==
  LET m == in.manifest
      candidate(first, final, split) ==
        Candidate(in, evaluation, first, final, <<first.id, final.id, split>>,
                  find_link(in.links, first.id, final.id),
                  << stage_memory(m, first, in.workload, in.settings, 0, split, TRUE, FALSE),
                     stage_memory(m, final, in.workload, in.settings, split, m.layers, FALSE, TRUE) >>)
  IN  [i \in 1..(2 * (m.layers - 1)) |->
         IF i < m.layers THEN candidate(in.workers[1], in.workers[2], i)
         ELSE candidate(in.workers[2], in.workers[1], i - m.layers + 1)]

\* the text of an identifier orders by first worker, final worker and split
IdBefore(a, b) ==
  \/ a[1] < b[1]
  \/ a[1] = b[1] /\ a[2] < b[2]
  \/ a[1] = b[1] /\ a[2] = b[2] /\ a[3] < b[3]

\* mutant: equal scores keep the order of the loops
PrecedesByScore(c, d) == c.score < d.score

Precedes(c, d) == c.score < d.score \/ (c.score = d.score /\ IdBefore(c.id, d.id))

Feasible(candidates) == {i \in DOMAIN candidates : candidates[i].reasons = {}}

\* feasible_candidates[0]: sorted() is stable, so it is the earliest one of those
\* that no other precedes
Selected(candidates) ==
  LET feasible == Feasible(candidates)
  IN  candidates[Min({i \in feasible :
                        \A j \in feasible : ~Precedes(candidates[j], candidates[i])})]

------------------------------------------------------------------------------
(* Plans *)

schema(settings) ==
  IF settings.weight # None THEN "1.2"
  ELSE IF settings.mode = "measured" THEN "1.1" ELSE "1.0"

\* mutant: the schema is part of the hash in measured plans only
unsigned_plan_measured_schema(in, selected, bundle) ==
  LET base == [mode |-> in.settings.mode, manifest |-> in.manifest.digest,
               workload_id |-> in.workload.id,
               planner_version |-> "0.1.0", execution |-> in.settings.execution,
               activation |-> in.workload.activation, split |-> selected.split,
               stages |-> assignments_for(selected.first, selected.final, selected.split,
                                          in.manifest.layers),
               duplicated |-> IF in.manifest.tied THEN {"token_embeddings"} ELSE {},
               candidate |-> selected.id]
      digests == IF in.settings.mode = "measured"
                 THEN [schema |-> schema(in.settings), workload_digest |-> in.workload,
                       bundle_digest |-> bundle] ELSE << >>
      weight == IF in.settings.weight # None THEN [weight |-> in.settings.weight] ELSE << >>
  IN  Joined(Joined(base, digests), weight)

\* the fields create_plan hashes: some are only there in some modes
unsigned_plan(in, selected, bundle) ==
  LET s == in.settings
      measured == s.mode = "measured"
      base == [planner_version |-> IF measured THEN "0.2.0" ELSE "0.1.0",
               manifest |-> in.manifest.digest, workload_id |-> in.workload.id,
               mode |-> s.mode, execution |-> s.execution,
               activation |-> in.workload.activation, split |-> selected.split,
               stages |-> assignments_for(selected.first, selected.final, selected.split,
                                          in.manifest.layers),
               duplicated |-> IF in.manifest.tied THEN {"token_embeddings"} ELSE {},
               candidate |-> selected.id]
      digests == IF measured \/ s.weight # None
                 THEN [schema |-> schema(s),
                       workload_digest |-> IF measured THEN in.workload ELSE None,
                       bundle_digest   |-> IF measured THEN bundle ELSE None]
                 ELSE << >>
      weight == IF s.weight # None THEN [weight |-> s.weight] ELSE << >>
  IN  Joined(Joined(base, digests), weight)

\* the plan itself has every field; plan_digest is what was hashed
DeploymentPlan(unsigned) ==
  Joined(Joined([plan_digest |-> unsigned], unsigned),
         [schema |-> "1.0", weight |-> None, workload_digest |-> None, bundle_digest |-> None])

\* mutant: an absent weight_dtype is dumped too
model_dump_all(plan) == [f \in DOMAIN plan \ {"plan_digest"} |-> plan[f]]

\* model_dump(exclude={"plan_id", "plan_digest"}): weight_dtype only if set
model_dump(plan) ==
  [f \in DOMAIN plan \ ({"plan_digest"} \cup IF plan.weight = None THEN {"weight"} ELSE {})
     |-> plan[f]]

validate_partition(plan) ==
  LET mixed == plan.weight # None
      n     == Len(plan.stages)
      end(i) == IF i = 1 THEN 0 ELSE plan.stages[i - 1].end
  IN  /\ mixed => plan.weight = "F16" /\ plan.execution = "F32"
      /\ mixed = (plan.schema = "1.2")
      /\ IF plan.mode = "measured"
         THEN /\ plan.schema = IF mixed THEN "1.2" ELSE "1.1"
              /\ plan.workload_digest # None /\ plan.bundle_digest # None
         ELSE plan.workload_digest = None /\ plan.bundle_digest = None
      /\ n \in {1, 2}
      /\ \A i \in 1..n :
           LET s == plan.stages[i] IN
           /\ s.index = i - 1 /\ s.start = end(i) /\ s.end > end(i)
           /\ \A j \in 1..(i - 1) : plan.stages[j].worker # s.worker
           /\ s.embedding = (i = 1)
           /\ s.norm = (i = n) /\ s.head = (i = n) /\ s.sampling = (i = n)
      /\ plan.split = IF n = 2 THEN plan.stages[1].end ELSE 0

\* create_plan: an error, or a report with the plan of the first rank, if any
create_plan(in, bundle, evaluation) ==
  LET plan(candidates) == IF Feasible(candidates) = {} THEN None
                          ELSE DeploymentPlan(unsigned_plan(in, Selected(candidates), bundle))
      report(error) == [error |-> error,
                        plan |-> IF error # None THEN None
                                 ELSE plan(raw_candidates(in, evaluation))]
  IN  report(Refusal(in, bundle))

------------------------------------------------------------------------------
(* The sweep that qualifies a measured plan runs every placement of its two
   workers, each as a plan of its own *)

\* SweepContent.scope: what the selected plan of a sweep must be
scope(plan, in, bundle) ==
  /\ plan.manifest = in.manifest.digest /\ plan.mode = "measured"
  /\ plan.bundle_digest = bundle /\ plan.workload_digest = in.workload
  /\ plan.execution = in.workload.kv /\ Len(plan.stages) = 2
  /\ plan.plan_digest = model_dump(plan)
  /\ in.workload.concurrency = 1
  /\ in.workload.cached = in.workload.prompt + in.workload.output

\* hashed as model_dump writes it, absent digests included
placement(plan, in, first, final, split) ==
  LET provisional ==
        [schema |-> IF plan.weight # None THEN "1.2" ELSE "1.0", weight |-> plan.weight,
         planner_version |-> "qualification-1.0", manifest |-> in.manifest.digest,
         workload_id |-> in.workload.id, mode |-> "feasibility",
         execution |-> plan.execution, activation |-> plan.activation, split |-> split,
         stages |-> assignments_for(first, final, split, in.manifest.layers),
         duplicated |-> plan.duplicated, candidate |-> <<first, final, split>>,
         workload_digest |-> None, bundle_digest |-> None]
  IN  Joined([plan_digest |-> model_dump(Joined([plan_digest |-> None], provisional))], provisional)

placements(plan, in) ==
  LET names == <<plan.stages[1].worker, plan.stages[2].worker>>
  IN  {placement(plan, in, order[1], order[2], split) :
         order \in {names, Reverse(names)}, split \in 1..(in.manifest.layers - 1)}

------------------------------------------------------------------------------
(* The wire.  An absent text is Empty, an absent optional field has no value.  The
   text of a digest is hexadecimal and never empty: <<d>>, or << >> for none. *)

Text(x) == IF x = None THEN Empty ELSE x
OrNone(x) == IF x = Empty THEN None ELSE x

Hex(digest) == IF digest = None THEN << >> ELSE <<digest>>
FromHex(text) == IF text = << >> THEN None ELSE text[1]

version_to_proto(v) ==
  [major |-> 1, minor |-> CASE v = "1.0" -> 0 [] v = "1.1" -> 1 [] v = "1.2" -> 2]
version_from_proto(v) == CASE v.minor = 0 -> "1.0" [] v.minor = 1 -> "1.1" [] v.minor = 2 -> "1.2"

model_manifest_to_proto(m) ==
  [m EXCEPT !.revision = Text(@),
            !.tensors = [i \in DOMAIN m.tensors |-> [m.tensors[i] EXCEPT !.group = Text(@)]]]

\* an absent layer_index has no presence bit: layer 0 and no layer stay apart
model_manifest_from_proto(p) ==
  [p EXCEPT !.revision = OrNone(@),
            !.tensors = [i \in DOMAIN p.tensors |-> [p.tensors[i] EXCEPT !.group = OrNone(@)]]]

deployment_plan_to_proto(plan) ==
  [plan EXCEPT !.schema = version_to_proto(@),
               !.workload_digest = Hex(@), !.bundle_digest = Hex(@)]

deployment_plan_from_proto(p) ==
  [p EXCEPT !.schema = version_from_proto(@),
            !.workload_digest = FromHex(@), !.bundle_digest = FromHex(@)]

\* what DeploymentSession sends along: where the worker of each stage listens
stage_endpoints(plan, address) ==
  [i \in 1..Len(plan.stages) |->
     [index |-> plan.stages[i].index, worker |-> plan.stages[i].worker,
      endpoint |-> address[plan.stages[i].worker]]]

\* validate_plan of the worker w for stage k (counted from 1): the fields it
\* hashes are written down a second time there, in another language.  The plan's
\* id is its digest cut short and its deployment version is 1, so neither is a field
\* here; that they, the worker names and the addresses are not empty is left out.
validate_plan(p, m, endpoints, w, k) ==
  LET mixed    == p.weight # None
      measured == p.mode = "measured"
      n        == Len(p.stages)
      end(i)   == IF i = 1 THEN 0 ELSE p.stages[i - 1].end
      hashed   == Joined(
                    [schema |-> IF mixed THEN "1.2" ELSE "1.1",
                     planner_version |-> p.planner_version, manifest |-> p.manifest,
                     workload_id |-> p.workload_id, mode |-> p.mode, execution |-> p.execution,
                     activation |-> p.activation, split |-> p.split, stages |-> p.stages,
                     duplicated |-> p.duplicated, candidate |-> p.candidate,
                     workload_digest |-> IF measured THEN FromHex(p.workload_digest) ELSE None,
                     bundle_digest |-> IF measured THEN FromHex(p.bundle_digest) ELSE None],
                    IF mixed THEN [weight |-> "F16"] ELSE << >>)
  IN  /\ p.schema.major = 1 /\ p.schema.minor <= 2 /\ p.manifest = m.digest
      /\ mixed = (p.schema.minor = 2)
      /\ mixed => w.mixed /\ p.weight = "F16" /\ p.execution = "F32"
      /\ measured => /\ p.schema.minor = IF mixed THEN 2 ELSE 1
                     /\ << >> \notin {p.workload_digest, p.bundle_digest}
      /\ ~measured /\ ~mixed => p.schema.minor = 0
      /\ ~measured => p.workload_digest = << >> /\ p.bundle_digest = << >>
      /\ measured \/ mixed => hashed = p.plan_digest
      /\ w.architecture /\ p.execution \in w.dtypes /\ p.activation = "F16"
      /\ n \in {1, 2} /\ k \in 1..n
      /\ \A i \in 1..n :
           LET s == p.stages[i] IN
           /\ s.index = i - 1 /\ s.start = end(i) /\ s.end > end(i) /\ s.end <= m.layers
           /\ \A j \in 1..(i - 1) : p.stages[j].worker # s.worker
           /\ s.embedding = (i = 1) /\ s.head = (i = n) /\ s.norm = (i = n) /\ s.sampling = (i = n)
      /\ p.stages[n].end = m.layers /\ p.stages[k].worker = w.id
      /\ n = 2 => p.split = p.stages[1].end
      /\ Len(endpoints) = n
      /\ \A i \in 1..n :
           LET e == endpoints[i] IN
           /\ e.index < n /\ e.worker = p.stages[e.index + 1].worker
           /\ \A j \in 1..(i - 1) : endpoints[j].index # e.index /\ endpoints[j].endpoint # e.endpoint
      /\ m.tied /\ n = 2 => "token_embeddings" \in p.duplicated
=============================================================================
