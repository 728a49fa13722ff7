--------------------------- MODULE PlacementModels ---------------------------
(***************************************************************************)
(* Values of models.py that the planner and the profiling code share.      *)
(***************************************************************************)
EXTENDS Integers, Sequences, FiniteSets, FiniteSetsExt, SequencesExt, TLC

CONSTANTS
  None,              \* an absent optional field
  Empty,             \* the empty text, which stands for it on the wire
  BoundaryPayload,   \* MAXIMUM_BOUNDARY_PAYLOAD_BYTES
  PressureScale      \* pressures are fixed-point numbers of this scale

ASSUME PlannerAssumption ==
  /\ BoundaryPayload \in Nat \ {0} /\ PressureScale \in Nat \ {0}
  /\ None \notin Int
  /\ None \notin {"workers", "unsupported", "dtypes", "bundle", "missing", "unavailable", "mixed",
                  "ended early"}

\* the fields of f, and those of g that f does not have
Joined(f, g) == [x \in DOMAIN f \cup DOMAIN g |-> IF x \in DOMAIN f THEN f[x] ELSE g[x]]

Total(amounts, S) == MapThenSumSet(LAMBDA i : amounts[i], S)

DTYPE_BYTES ==
  [BOOL |-> 1, U8 |-> 1, I8 |-> 1, I16 |-> 2, U16 |-> 2, I32 |-> 4, U32 |-> 4, I64 |-> 8, U64 |-> 8,
   F16 |-> 2, BF16 |-> 2, F32 |-> 4, F64 |-> 8]

Ceil(a, b) == (a + b - 1) \div b

maximum_boundary_tokens(hidden, dtype) ==
  BoundaryPayload \div (hidden * DTYPE_BYTES[dtype])

\* MemoryBudget.usable_bytes
usable_bytes(budget) ==
  Max({0, budget.capacity - budget.reserve
            - (budget.capacity * budget.safety) \div 100})

\* budget_for: budgets maps the domains that have one
has_budget(w, domain) == domain \in DOMAIN w.budgets

\* WorkloadProfile.boundary_message_tokens
boundary_message_tokens(workload) ==
  IF workload.chunk > 0 THEN workload.chunk ELSE workload.prompt

\* the two stages of a split
assignments_for(first, final, split, layers) ==
  << [index |-> 0, worker |-> first, start |-> 0, end |-> split,
      embedding |-> TRUE, norm |-> FALSE, head |-> FALSE, sampling |-> FALSE],
     [index |-> 1, worker |-> final, start |-> split, end |-> layers,
      embedding |-> FALSE, norm |-> TRUE, head |-> TRUE, sampling |-> TRUE] >>
=============================================================================
