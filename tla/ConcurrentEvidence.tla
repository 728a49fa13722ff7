-------------------------- MODULE ConcurrentEvidence --------------------------
(***************************************************************************)
(* The concurrency-two experiment (scripts/validation/concurrent_soak.py)  *)
(* and the record it leaves (qualification/concurrent.py).  Two requests   *)
(* are released together against two running workers.  Each worker keeps a *)
(* bounded log of admissions and retirements, the harness polls the        *)
(* workers independently, and the record's acceptance is derived from what *)
(* was polled.                                                             *)
(*                                                                         *)
(* The snapshots of a worker are kept as what the derivations read of      *)
(* them.  What they say of a round is final once clean() has seen both     *)
(* workers idle, because its request IDs are never used again; it is then  *)
(* folded into `open'.                                                     *)
(***************************************************************************)
EXTENDS ProfileArtifacts

CONSTANTS
  kLifecycleHistory,  \* events a worker's log holds
  Backends,           \* the backend of each worker
  Pairs, Cycles,      \* paired rounds per cycle, cycles
  Weights, Cache, Workspace, Resident,  \* bytes of a stage, a request, a pass, an idle process
  AdmissionCap,       \* the admission capacity of a worker
  Availability,       \* free bytes a fit gate may find, the usual amount is their maximum
  MaxFaults,          \* bound: departures from the ordinary course
  FaultRounds         \* bound: the kinds of rounds they happen in

Workers == {1, 2}     \* in stage order; the first drives
Members == {1, 2}     \* of a pair; the victim of a cancel round is the first

ASSUME ConcurrentAssumption ==
  /\ kLifecycleHistory \in Nat \ {0} /\ Pairs \in Nat \ {0} /\ Cycles \in Nat \ {0}
  /\ Backends \in [Workers -> {"cpu", "mlx", "cuda"}]
  /\ {Weights, Cache, Workspace, Resident} \subseteq Nat
  /\ Availability # {} /\ Availability \subseteq Nat
  /\ None # "accepted" /\ None \notin [start : Nat, end : Nat, seq : Nat \cup {None}]

VARIABLES
  worker,      \* per worker: its process, stage, lifecycle log and clock
  req,         \* per worker and member: the reservation, or how it retired
  got,         \* per member: what the client has of its stream
  h,           \* the harness: main() and the fields of Run
  obs,         \* per worker: the snapshots
  acceptance,  \* of the record that was written
  truth,       \* history: what really happened
  faults

vars == <<worker, req, got, h, obs, acceptance, truth, faults>>

Kinds == <<"serial">> \o [i \in 1..Pairs |-> "paired"] \o <<"cancel">>
Kind == Kinds[h.round]
Fault ==
  /\ h.session => Kind \in FaultRounds
  /\ faults < MaxFaults /\ faults' = faults + 1

Ids == IF Kind = "serial" THEN {1} ELSE Members

Held == {"allocating", "allocated"}
Table(w) == {r \in Members : req[w][r] \in Held}
Rows(w) == {r \in Members : req[w][r] = "allocated"}

------------------------------------------------------------------------------
(* The lifecycle log of a worker *)

\* record_lifecycle: only requests that hold allocated KV are listed as concurrent
record_lifecycle(w, kind, r, reason) ==
  LET k == worker[w]
      e == [kind |-> kind, id |-> r, seq |-> k.total + 1, at |-> k.clock + 1,
            others |-> Rows(w) \ {r}, reason |-> reason]
      log == Append(k.log, e)
  IN  [worker EXCEPT ![w].total = @ + 1, ![w].clock = @ + 1,
                     ![w].log = SubSeq(log, Max({1, Len(log) - kLifecycleHistory + 1}), Len(log))]

\* bytes of the process while a pass runs; the operating system keeps their peak
Level(w) ==
  Resident + (IF worker[w].loaded THEN Weights ELSE 0) + Cache * Cardinality(Table(w))
           + (IF Table(w) # {} THEN Workspace ELSE 0)

\* reserve(): the table entry and its event, before the allocation.  The members of
\* a paired round are interchangeable: the first is the one that comes first.
Admit(w, r) ==
  /\ h.pc = "round" /\ r \in Ids /\ worker[w].up /\ worker[w].loaded
  /\ req[w][r] = "none" /\ got[r] = "none"
  /\ w = 2 => req[1][r] = "allocated"
  /\ (Kind = "paired" /\ <<w, r>> = <<1, 2>>) => req[1][1] # "none"
  /\ req' = [req EXCEPT ![w][r] = "allocating"]
  /\ worker' = [record_lifecycle(w, "admitted", r, "") EXCEPT ![w].admitted = worker[w].clock + 1]
  /\ UNCHANGED <<got, h, obs, acceptance, truth, faults>>

\* the sequence exists; from now on passes run on it
Allocate(w, r) ==
  /\ req[w][r] = "allocating"
  /\ req' = [req EXCEPT ![w][r] = "allocated"]
  /\ worker' = [worker EXCEPT ![w].peak = Max({@, Level(w)})]
  /\ truth' = [truth EXCEPT !.together[w] = @ \/ Rows(w) \cup {r} = Members]
  /\ UNCHANGED <<got, h, obs, acceptance, faults>>

\* retire(), and for the driver what its client then sees
Retire(w, r, how, reason) ==
  /\ req' = [req EXCEPT ![w][r] = how]
  /\ worker' = record_lifecycle(w, "retired", r, reason)
  /\ truth' = [truth EXCEPT !.alone[w] = @ \/ /\ Kind = "cancel" /\ r = 1 /\ reason = "cancelled"
                                              /\ req[w][2] = "allocated"]
  /\ UNCHANGED <<h, obs, acceptance>>

AllocationFails(w, r) ==
  /\ req[w][r] = "allocating" /\ Fault
  /\ Retire(w, r, "failed", "allocation-failed")
  /\ got' = IF w = 1 THEN [got EXCEPT ![r] = "error"] ELSE got

Victim(r) == Kind = "cancel" /\ r = 1

\* the tokens of the victim's prefix have arrived
Deliver(r) ==
  /\ Victim(r) /\ got[r] = "none" /\ \A w \in Workers : req[w][r] = "allocated"
  /\ got' = [got EXCEPT ![r] = "prefix"]
  /\ UNCHANGED <<worker, req, h, obs, acceptance, truth, faults>>

\* the victim's client has its prefix and closes the stream
Close(r) ==
  /\ Victim(r) /\ got[r] = "prefix"
  /\ got' = [got EXCEPT ![r] = "closed"]
  /\ UNCHANGED <<worker, req, h, obs, acceptance, truth, faults>>

\* The last token was computed: the final stage finishes first, then the driver.
\* A cancellation may come too late for either.
Complete(w, r) ==
  /\ req[w][r] = "allocated" /\ (Victim(r) => got[r] # "none")
  /\ IF w = 1 THEN req[2][r] = "completed" ELSE req[1][r] # "failed"
  /\ Retire(w, r, "completed", "completed")
  /\ \/ /\ got' = IF w = 1 /\ ~Victim(r) THEN [got EXCEPT ![r] = "exact"] ELSE got
        /\ UNCHANGED faults
     \/ w = 1 /\ ~Victim(r) /\ Fault /\ got' = [got EXCEPT ![r] = "inexact"]

\* the stream was cancelled: by the client, or by the driver's handler as it leaves
Cancelled(w, r) ==
  /\ req[w][r] = "allocated"
  /\ got[r] = "closed" \/ (w = 2 /\ req[1][r] = "failed")
  /\ Retire(w, r, "cancelled", "cancelled")
  /\ UNCHANGED <<got, faults>>

\* a pass fails, or the driver loses its peer
Fail(w, r) ==
  /\ req[w][r] = "allocated"
  /\ \/ w = 1 /\ (req[2][r] = "failed" \/ (req[2][r] = "none" /\ ~worker[2].loaded))
        /\ UNCHANGED faults
     \/ Fault
  /\ Retire(w, r, "failed", "failed")
  /\ got' = IF w = 1 /\ got[r] # "closed" THEN [got EXCEPT ![r] = "error"] ELSE got

\* the driver cannot be reached, or has no stage loaded
Unreachable(r) ==
  /\ h.pc = "round" /\ r \in Ids /\ req[1][r] = "none" /\ got[r] = "none" /\ ~worker[1].loaded
  /\ got' = [got EXCEPT ![r] = "error"]
  /\ UNCHANGED <<worker, req, h, obs, acceptance, truth, faults>>

\* The process ends, by itself or stopped by its guard.  (Ending before the first
\* gate differs only in which snapshots show the old process; once the command has
\* ended it concerns no record.)
WorkerDies(w) ==
  /\ worker[w].up /\ h.cycle > 0 /\ h.pc # "done" /\ Fault
  /\ worker' = [worker EXCEPT ![w].up = FALSE, ![w].loaded = FALSE, ![w].log = << >>,
                              ![w].total = 0, ![w].peak = Resident]
  /\ req' = [req EXCEPT ![w] = [r \in Members |-> IF @[r] \in Held THEN "failed" ELSE @[r]]]
  /\ got' = [r \in Members |-> IF w = 1 /\ req[1][r] \in Held /\ got[r] # "closed"
                               THEN "error" ELSE got[r]]
  /\ UNCHANGED <<h, obs, acceptance, truth>>

\* another process takes its place
WorkerRestarts(w) ==
  /\ ~worker[w].up /\ h.pc # "done"
  /\ worker' = [worker EXCEPT ![w].up = TRUE, ![w].pid = @ + 1]
  /\ UNCHANGED <<req, got, h, obs, acceptance, truth, faults>>

------------------------------------------------------------------------------
(* Snapshots *)

NoCycle == [peak |-> None, lost |-> {}]
NoSnapshots ==
  [events |-> << >>, joint |-> {}, pids |-> {}, over |-> FALSE, cycle |-> NoCycle]

\* derive_logical_peaks: weights once, cache per request, one shared workspace.
\* All three are largest in the snapshot with the most requests.
logical_peak(w) ==
  (IF worker[w].loaded THEN Weights ELSE 0) + Cardinality(Table(w)) * Cache
    + (IF Table(w) # {} THEN Workspace ELSE 0)

\* snapshot_from_proto of GetMemoryReport and GetMetrics, added to the snapshots
\* before it; `lost' names a counter the worker could not read.  A snapshot before
\* the first fit gate belongs to no cycle.
Observe(w, lost) ==
  LET k == worker[w]  o == obs[w]
      logged == {e \in ToSet(k.log) : e.kind # "old"}
      seen == [s \in {e.seq : e \in logged} |-> CHOOSE e \in logged : e.seq = s]
  IN  [o EXCEPT
         !.events = Joined(seen, @),
         !.joint = IF Rows(w) = Members
                   THEN @ \cup {[start |-> k.admitted, at |-> k.clock]} ELSE @,
         !.pids = @ \cup {k.pid},
         !.over = @ \/ logical_peak(w) > AdmissionCap,
         !.cycle.peak = IF h.cycle = 0 \/ lost = "process" THEN @
                        ELSE Max({k.peak, IF @ = None THEN 0 ELSE @}),
         !.cycle.lost = IF h.cycle = 0 \/ lost = "nothing" THEN @ ELSE @ \cup {lost}]

\* snapshot(): a worker that does not answer is an error
Snapshot(w) ==
  \E lost \in {"nothing", "process", "footprint", "allocator"} :
    /\ lost # "nothing" => h.pc = "clean" /\ h.phase = "idle"
    /\ IF lost = "nothing" THEN UNCHANGED faults ELSE Fault
    /\ obs' = [obs EXCEPT ![w] = Observe(w, lost)]

------------------------------------------------------------------------------
(* Derivations: concurrent.py *)

EventsOf(w) == {obs[w].events[s] : s \in DOMAIN obs[w].events}
Admissions(w) == {e \in EventsOf(w) : e.kind = "admitted"}
Retirements(w, r) == {e \in EventsOf(w) : e.kind = "retired" /\ e.id = r}

\* the retirements of the pair after the later admission, in which a member whose
\* allocation failed is no witness; `seq' is 0 when the admissions left the log
After(w, start, seq) ==
  {e \in UNION {Retirements(w, r) : r \in Members} :
     e.at >= start /\ e.seq > seq /\ e.reason # "allocation-failed"}

First(events) == CHOOSE e \in events : \A f \in events : e.seq <= f.seq

\* an interval of the worker's clock, from the later admission to the first
\* retirement that lists the other member, or else from a joint snapshot
Interval(w, start, later, retired) ==
  LET witnessed == {e \in retired : e.others # {}}
      joint == {s \in obs[w].joint : s.at >= start}
      end == IF witnessed # {} THEN First(witnessed).at
             ELSE IF retired # {} THEN First(retired).at ELSE Max({s.at : s \in joint})
  IN  IF witnessed = {} /\ joint = {} THEN None
      ELSE [start |-> start, end |-> Max({start, end}), seq |-> later]

\* mutant: a member whose allocation failed counts as a witness
derive_overlap_any(w) ==
  LET later == Max({e.seq : e \in Admissions(w)} \cup {0})
      start == obs[w].events[later].at
  IN  IF {e.id : e \in Admissions(w)} = Members
      THEN Interval(w, start, later, {e \in UNION {Retirements(w, r) : r \in Members} :
                                        e.at >= start /\ e.seq > later})
      ELSE None

\* derive_overlap of the current round on one worker
derive_overlap(w) ==
  IF {e.id : e \in Admissions(w)} = Members
  THEN LET later == Max({e.seq : e \in Admissions(w)})
           start == obs[w].events[later].at
       IN  Interval(w, start, later, After(w, start, later))
  ELSE IF obs[w].joint # {}
  THEN LET start == (CHOOSE s \in obs[w].joint : TRUE).start
       IN  Interval(w, start, None, After(w, start, 0))
  ELSE None

\* mutant: any retirement of the victim is taken for its cancellation
CancellationShownAny(w) ==
  \E c \in Retirements(w, 1) :
    /\ 2 \in c.others
    /\ \E d \in Retirements(w, 2) : d.reason = "completed" /\ d.seq > c.seq

\* the victim retired as cancelled beside the survivor, which then completed
CancellationShown(w) ==
  LET cancelled == {e \in Retirements(w, 1) : e.reason = "cancelled"} IN
  /\ \E c \in cancelled : 2 \in c.others
  /\ \E d \in Retirements(w, 2) : d.reason = "completed" /\ \E c \in cancelled : d.seq > c.seq

\* what assess_evidence leaves open about the current round
RoundOpen ==
  /\ Kind # "serial"
  /\ \E w \in Workers : derive_overlap(w) = None \/ (Kind = "cancel" /\ ~CancellationShown(w))

Budget(available) == [available |-> available, headroom |-> 2, overhead |-> 2, safety |-> 10]

\* the host peak of one worker in one cycle: the footprint policy of MLX needs every
\* counter in every snapshot, of one process
serving_host_peak(w, c) ==
  IF c.peak = None \/ Backends[w] # "mlx" THEN c.peak
  ELSE IF c.lost \cap {"process", "footprint"} = {} /\ Cardinality(obs[w].pids) = 1
  THEN c.peak ELSE c.peak + c.peak

\* assess_serving_envelope of one worker and cycle; `device' is the largest
\* out-of-band sample of its window, if there is one
assess_serving_envelope(w, available, device) ==
  LET c == obs[w].cycle
      host == envelope(serving_host_peak(w, c), Budget(available))
      gpu == IF Backends[w] # "cuda" THEN "ok"
             ELSE envelope(IF None \in {device, c.peak} THEN None ELSE Max({device, c.peak}),
                           Budget(available))
  IN  IF "unsafe" \in {host, gpu} THEN "unsafe"
      ELSE IF \/ "unknown" \in {host, gpu} \/ "process" \in c.lost
              \/ Backends[w] = "mlx" /\ "allocator" \in c.lost THEN "unknown" ELSE "safe"

\* the guarded process has ended
Exited(w) == ~worker[w].up \/ worker[w].pid # h.process[w]

\* classify_guard of what the record shows when it is read: an exit event is an
\* early exit, and observations that ended too early protect nobody
classify_guard(exit, stale) == IF exit THEN "stopped" ELSE IF stale THEN "unavailable" ELSE "normal"

\* assess_evidence
assess_evidence(guards, cleanup) ==
  IF \/ h.failure \/ h.unsafe
     \/ \E w \in Workers : obs[w].pids \ {h.process[w]} # {} \/ obs[w].over
     \/ \E w \in Workers : guards[w] = "stopped" \/ ~cleanup[w]
  THEN "failed"
  ELSE IF h.open \/ \E w \in Workers : guards[w] = "unavailable"
  THEN "unknown" ELSE "accepted"

------------------------------------------------------------------------------
(* The harness *)

NoRequests == [w \in Workers |-> [r \in Members |-> "none"]]
Unearned == [together |-> [w \in Workers |-> FALSE], alone |-> [w \in Workers |-> FALSE],
             earned |-> FALSE]
NoTokens == [r \in Members |-> "none"]

\* main and Run.__init__: inputs that do not match are refused before any contact
Start ==
  /\ h.pc = "start"
  /\ \/ h' = [h EXCEPT !.pc = "identity"] /\ UNCHANGED faults
     \/ Fault /\ h' = [h EXCEPT !.pc = "refused"]
  /\ UNCHANGED <<worker, req, got, obs, acceptance, truth>>

\* identity(): a worker that does not answer, or cannot serve two observed requests,
\* leaves a failure note only
Establish ==
  /\ h.pc = "identity"
  /\ \/ /\ h' = [h EXCEPT !.pc = "clean", !.phase = "baseline",
                          !.process = [w \in Workers |-> worker[w].pid]]
        /\ UNCHANGED faults
     \/ Fault /\ h' = [h EXCEPT !.pc = "noted"]
  /\ UNCHANGED <<worker, req, got, obs, acceptance, truth>>

\* an exception: the session, if there is one, is closed on the way out
Raised(s) == [s EXCEPT !.failure = TRUE, !.pc = IF s.session THEN "close" ELSE "finish",
                       !.looked = FALSE]

Idle(w) ==
  /\ Table(w) = {}
  /\ h.phase # "round" => ~worker[w].loaded

\* after clean(): what the snapshots say of the round is now final
Cleaned ==
  CASE h.phase = "baseline" -> [h EXCEPT !.pc = "gate", !.looked = FALSE]
    [] h.phase = "round" -> [h EXCEPT !.pc = "next", !.looked = FALSE]
    [] h.phase = "unloaded" -> [h EXCEPT !.phase = "idle", !.looked = FALSE]
    [] h.phase = "idle" -> [h EXCEPT !.pc = "scored", !.looked = FALSE]

\* clean(): first one worker, then the other, until both were idle in one pass
CleanFirst ==
  /\ h.pc = "clean" /\ ~h.looked
  /\ IF worker[1].up THEN Snapshot(1) /\ h' = [h EXCEPT !.looked = TRUE, !.idle = Idle(1)]
     ELSE h' = Raised(h) /\ UNCHANGED <<obs, faults>>
  /\ UNCHANGED <<worker, req, got, acceptance, truth>>

CleanSecond ==
  /\ h.pc = "clean" /\ h.looked
  /\ IF worker[2].up
     THEN /\ Snapshot(2)
          /\ IF h.idle /\ Idle(2) THEN h' = Cleaned
             ELSE h' \in {[h EXCEPT !.looked = FALSE], Raised(h)}
     ELSE h' = Raised(h) /\ UNCHANGED <<obs, faults>>
  /\ UNCHANGED <<worker, req, got, acceptance, truth>>

\* the budgets for which one request's profile fits
FittingBudgets ==
  {a \in Availability : envelope(Resident + Weights + Cache + Workspace, Budget(a)) = "ok"}

\* gate(): the fresh fit of one request's profile.  Of the budgets it keeps for the
\* cycle only that they were safe is used before derive_physical; see Score.
Gate ==
  /\ h.pc = "gate"
  /\ LET fresh == [h EXCEPT !.cycle = @ + 1] IN
     \/ /\ h' = IF \A w \in Workers : worker[w].up THEN [fresh EXCEPT !.pc = "load"] ELSE Raised(fresh)
        /\ UNCHANGED faults
     \/ Availability # FittingBudgets /\ Fault /\ h' = Raised(fresh)
  /\ obs' = [w \in Workers |-> [obs[w] EXCEPT !.cycle = NoCycle]]
  /\ UNCHANGED <<worker, req, got, acceptance, truth>>

\* DeploymentSession opens
Load ==
  /\ h.pc = "load"
  /\ IF \A w \in Workers : worker[w].up
     THEN /\ h' = [h EXCEPT !.pc = "loaded", !.round = 1, !.session = TRUE]
          /\ worker' = [w \in Workers |-> [worker[w] EXCEPT !.loaded = TRUE,
                                             !.peak = Max({@, Resident + Weights})]]
     ELSE h' = Raised(h) /\ UNCHANGED worker
  /\ UNCHANGED <<req, got, obs, acceptance, truth, faults>>

\* the snapshots after the load
AfterLoad ==
  /\ h.pc = "loaded"
  /\ IF \A w \in Workers : worker[w].up
     THEN /\ h' = [h EXCEPT !.pc = "round"]
          /\ obs' = [w \in Workers |-> Observe(w, "nothing")]
     ELSE h' = Raised(h) /\ UNCHANGED obs
  /\ UNCHANGED <<worker, req, got, acceptance, truth, faults>>

\* sampled(): one thread per worker, while the requests run
Poll(w) ==
  /\ h.pc = "round" /\ Kind # "serial"
  /\ IF worker[w].up THEN Snapshot(w) /\ UNCHANGED h
     ELSE h' = [h EXCEPT !.sampler = TRUE] /\ UNCHANGED <<obs, faults>>
  /\ UNCHANGED <<worker, req, got, acceptance, truth>>

\* pair() and the serial request: both threads were joined
EndRound ==
  /\ h.pc = "round" /\ \A r \in Ids : got[r] \in {"exact", "inexact", "error", "closed"}
  /\ h' = IF h.sampler \/ \E r \in Ids : got[r] \in {"inexact", "error"}
          THEN Raised(h) ELSE [h EXCEPT !.pc = "clean", !.phase = "round"]
  /\ UNCHANGED <<worker, req, got, obs, acceptance, truth, faults>>

\* history: the round did what the experiment is about
RoundEarned ==
  /\ \A w \in Workers : worker[w].pid = h.process[w]
  /\ \A r \in Ids : got[r] \in {"exact", "closed"}
  /\ Kind # "serial" => \A w \in Workers : truth.together[w]
  /\ Kind = "cancel" => \A w \in Workers : truth.alone[w] /\ req[w][2] = "completed"

\* The next round, with new request IDs; events of earlier ones only fill the logs.
\* (History: a record with a round left open is not accepted, whatever happened.)
NextRound ==
  /\ h.pc = "next"
  /\ h' = [h EXCEPT !.open = @ \/ RoundOpen,
                    !.pc = IF h.round < Len(Kinds) THEN "round" ELSE "close",
                    !.round = IF h.round < Len(Kinds) THEN @ + 1 ELSE @]
  /\ truth' = [Unearned EXCEPT !.earned = h'.open \/ (truth.earned /\ RoundEarned)]
  /\ req' = NoRequests /\ got' = NoTokens
  /\ obs' = [w \in Workers |-> [obs[w] EXCEPT !.events = << >>, !.joint = {}]]
  /\ worker' = [w \in Workers |-> [worker[w] EXCEPT !.log = [i \in DOMAIN @ |-> [kind |-> "old"]]]]
  /\ UNCHANGED <<acceptance, faults>>

\* The session ends: a worker unloads its stage unless requests are left on it.  A
\* record with a failure is failed whatever else it holds, so its snapshots (and the
\* history) are dropped here.
CloseSession ==
  /\ h.pc = "close"
  /\ worker' = [w \in Workers |-> [worker[w] EXCEPT !.loaded = @ /\ Table(w) # {}]]
  /\ h' = IF h.failure \/ \E w \in Workers : ~worker[w].up
          THEN Raised([h EXCEPT !.session = FALSE])
          ELSE [h EXCEPT !.pc = "clean", !.phase = "unloaded", !.session = FALSE]
  /\ obs' = IF h'.failure THEN [w \in Workers |-> NoSnapshots] ELSE obs
  /\ truth' = IF h'.failure THEN Unearned ELSE truth
  /\ UNCHANGED <<req, got, acceptance, faults>>

\* derive_physical: the cycle's snapshots are complete, its budgets are those of its
\* gate, and the device watcher took whatever samples it took
Score ==
  /\ h.pc = "scored"
  /\ \E device \in {None, Resident, worker[1].peak}, available \in [Workers -> FittingBudgets] :
       LET status == {assess_serving_envelope(w, available[w], device) : w \in Workers} IN
       /\ IF \A w \in Workers : available[w] = Max(Availability) THEN UNCHANGED faults ELSE Fault
       /\ h' = [h EXCEPT !.unsafe = @ \/ "unsafe" \in status, !.open = @ \/ "unknown" \in status,
                         !.pc = IF h.cycle < Cycles THEN "gate" ELSE "finish"]
       /\ truth' = [truth EXCEPT !.earned = @ /\ \A w \in Workers : worker[w].pid = h.process[w] =>
                       envelope(worker[w].peak, Budget(available[w])) = "ok"]
  /\ UNCHANGED <<worker, req, got, obs, acceptance>>

\* cleanup_evidence: what each worker still holds
CleanupEvidence ==
  /\ h.pc = "finish"
  /\ h' = [h EXCEPT !.pc = "assemble",
             !.cleanup = [w \in Workers |-> worker[w].up /\ Table(w) = {} /\ ~worker[w].loaded]]
  /\ UNCHANGED <<worker, req, got, obs, acceptance, truth, faults>>

\* read_guards, make_evidence and write_evidence.  The exit event of a process that
\* ended may not have reached the guard's record yet.
Assemble ==
  /\ h.pc = "assemble"
  /\ \E stale \in SUBSET Workers, exits \in SUBSET {w \in Workers : Exited(w)} :
       /\ IF stale = {} THEN UNCHANGED faults ELSE Fault
       /\ acceptance' = assess_evidence(
            [w \in Workers |-> classify_guard(w \in exits, w \in stale)], h.cleanup)
  /\ h' = [h EXCEPT !.pc = "done"]
  /\ UNCHANGED <<worker, req, got, obs, truth>>

------------------------------------------------------------------------------
Init ==
  /\ worker = [w \in Workers |->
       [up |-> TRUE, pid |-> 1, loaded |-> FALSE, log |-> << >>, total |-> 0,
        clock |-> 0, admitted |-> 0, peak |-> Resident]]
  /\ req = NoRequests /\ got = NoTokens
  /\ h = [pc |-> "start", phase |-> "baseline", looked |-> FALSE, idle |-> FALSE, round |-> 1,
          cycle |-> 0, session |-> FALSE, sampler |-> FALSE, failure |-> FALSE, open |-> FALSE,
          unsafe |-> FALSE, process |-> [w \in Workers |-> 1],
          cleanup |-> [w \in Workers |-> FALSE]]
  /\ obs = [w \in Workers |-> NoSnapshots]
  /\ acceptance = None
  /\ truth = [Unearned EXCEPT !.earned = TRUE]
  /\ faults = 0

Requests ==
  \/ \E w \in Workers, r \in Members :
       \/ Admit(w, r) \/ Allocate(w, r) \/ AllocationFails(w, r) \/ Complete(w, r)
       \/ Cancelled(w, r) \/ Fail(w, r)
  \/ \E r \in Members : Deliver(r) \/ Close(r) \/ Unreachable(r)

Harness ==
  \/ Start \/ Establish \/ CleanFirst \/ CleanSecond \/ Gate \/ Load \/ AfterLoad \/ EndRound \/ NextRound
  \/ CloseSession \/ Score \/ CleanupEvidence \/ Assemble
  \/ \E w \in Workers : Poll(w)

Processes ==
  \E w \in Workers : WorkerDies(w) \/ WorkerRestarts(w)

Next == Requests \/ Harness \/ Processes

Spec == Init /\ [][Next]_vars
------------------------------------------------------------------------------
(* Properties *)

\* Whenever the record were assembled, an overlap it derives is one that happened:
\* both requests held allocated KV on that worker at one instant, although the log is
\* bounded, polls come when they come, and requests reserve, fail to allocate, are
\* cancelled and complete in any order (derive_overlap).  Conversely an overlap that
\* happened is derived when no event of the round was lost: the earlier retirement
\* lists the other member.
OverlapIsExact ==
  \A w \in Workers : (h.pc \in {"round", "clean", "next", "close"} /\ Kind # "serial") =>
    /\ derive_overlap(w) # None => truth.together[w]
    /\ (h.pc = "next" /\ Cardinality(EventsOf(w)) = 4 /\ truth.together[w])
         => derive_overlap(w) # None

\* An accepted record means what it says: in every round one process per worker
\* served the requests with the reference's tokens; in every paired and cancel round
\* both held allocated KV at one instant on both workers; each victim was retired as
\* cancelled on both workers while the survivor held its reservation, and the
\* survivor completed; what the workers really used fits the memory that was free;
\* and nothing is left loaded or reserved (assess_evidence, concurrent_soak.py).
AcceptanceIsEarned ==
  acceptance = "accepted" =>
    /\ truth.earned /\ h.round = Len(Kinds) /\ h.cycle = Cycles
    /\ \A w \in Workers : Table(w) = {} /\ ~worker[w].loaded
=============================================================================
