----------------------- MODULE ConcurrentEvidenceProofs -----------------------
(***************************************************************************)
(* An overlap that is derived is one that happened, and an accepted record *)
(* is earned, for logs of every length, any number of rounds and cycles,   *)
(* and faults in any of them.                                              *)
(***************************************************************************)
EXTENDS ConcurrentEvidence, TLAPS, FiniteSetTheorems, SequenceTheorems

------------------------------------------------------------------------------
(* The inductive invariant *)

Over == {"completed", "cancelled", "failed"}
Reasons == {"", "completed", "cancelled", "failed", "allocation-failed"}
Event == [kind : {"admitted", "retired"}, id : Members, seq : Nat, at : Nat,
          others : SUBSET Members, reason : Reasons]
Old == [kind : {"old"}]

Places == {"start", "refused", "identity", "noted", "clean", "gate", "load", "loaded", "round",
           "next", "close", "scored", "finish", "assemble", "done"}

Process == [up : BOOLEAN, pid : Nat, loaded : BOOLEAN, log : Seq(Event \cup Old),
            total : Nat, clock : Nat, admitted : Nat, peak : Nat]
WorkerType == worker \in [Workers -> Process]
RequestType ==
  /\ req \in [Workers -> [Members -> {"none"} \cup Held \cup Over]]
  /\ got \in [Members -> {"none", "prefix", "closed", "exact", "inexact", "error"}]
HarnessType ==
  h \in [pc : Places, phase : {"baseline", "round", "unloaded", "idle"}, looked : BOOLEAN,
         idle : BOOLEAN, round : 1..Len(Kinds), cycle : 0..Cycles, session : BOOLEAN,
         sampler : BOOLEAN, failure : BOOLEAN, open : BOOLEAN, unsafe : BOOLEAN,
         process : [Workers -> Nat], cleanup : [Workers -> BOOLEAN]]
Joint == [start : Nat, at : Nat]
SnapshotType ==
  /\ DOMAIN obs = Workers
  /\ \A w \in Workers :
       /\ DOMAIN obs[w] = {"events", "joint", "pids", "over", "cycle"}
       /\ obs[w].joint \subseteq Joint
       /\ obs[w].cycle \in [peak : Nat \cup {None},
                            lost : SUBSET {"process", "footprint", "allocator"}]
TruthType ==
  truth \in [together : [Workers -> BOOLEAN], alone : [Workers -> BOOLEAN], earned : BOOLEAN]

Types == WorkerType /\ RequestType /\ HarnessType /\ SnapshotType /\ TruthType

\* Where the harness is says which round, cycle and session it is in.
Cleaning(phase) == h.pc = "clean" /\ h.phase = phase

HarnessInv ==
  /\ h.failure => h.pc \in {"close", "finish", "assemble", "done"}
  /\ h.session <=> h.pc \in {"loaded", "round", "next", "close"} \/ Cleaning("round")
  /\ h.pc = "gate" => h.cycle < Cycles
  /\ h.pc \in {"start", "identity"} \/ Cleaning("baseline") => h.cycle = 0
  /\ h.pc \in {"load", "loaded", "round", "next", "close", "scored"}
       \/ Cleaning("round") \/ Cleaning("unloaded") \/ Cleaning("idle") => h.cycle # 0
  /\ ~h.failure =>
       /\ h.pc \in {"close", "scored", "finish", "assemble", "done"} \/ Cleaning("unloaded") \/ Cleaning("idle")
            => h.round = Len(Kinds)
       /\ h.pc \in {"finish", "assemble", "done"} => h.cycle = Cycles

\* What the harness was told of the workers is still true.
Quiet(w) == Table(w) = {} /\ ~worker[w].loaded

WorkersInv ==
  /\ h.looked => h.pc = "clean"
  /\ \A w \in Workers : /\ worker[w].loaded => worker[w].up
                        /\ Table(w) # {} => worker[w].loaded
                        /\ worker[w].peak >= Resident /\ worker[w].pid >= h.process[w]
  /\ h.pc = "clean" /\ h.looked /\ h.idle =>
       Table(1) = {} /\ (h.phase # "round" => ~worker[1].loaded)
  /\ h.pc = "scored" => \A w \in Workers : Quiet(w)
  /\ h.pc \in {"assemble", "done"} => \A w \in Workers : h.cleanup[w] => Quiet(w)

\* The last snapshots of a cycle cover the peaks of its processes.
Covered(w) ==
  \/ "process" \in obs[w].cycle.lost
  \/ obs[w].cycle.peak # None /\ obs[w].cycle.peak >= worker[w].peak

PeaksInv ==
  /\ Cleaning("idle") /\ h.looked /\ h.idle => Covered(1)
  /\ h.pc = "scored" => Covered(1) /\ Covered(2)

\* What a client has of its stream.
InRound == h.failure \/ h.pc \in {"round", "next"} \/ Cleaning("round")

ClientsInv ==
  /\ \A r \in Members :
       /\ got[r] \in {"prefix", "closed"} =>
            req[1][r] \notin {"none", "allocating"} /\ Victim(r) /\ InRound
       /\ got[r] = "exact" => req[1][r] = "completed"
  /\ h.pc = "next" \/ Cleaning("round") => \A r \in Ids : got[r] \in {"exact", "closed"}

\* The events of a worker that its log or a snapshot still holds.
Logged(w) == {e \in ToSet(worker[w].log) : e.kind # "old"}
Known(w) == Logged(w) \cup EventsOf(w)
Retired(w) == {e \in Known(w) : e.kind = "retired"}
Admitted(w) == {e \in Known(w) : e.kind = "admitted"}

EventsInv(w) ==
  /\ Known(w) \subseteq Event
  /\ \A s \in DOMAIN obs[w].events : obs[w].events[s].seq = s
  /\ \A e, f \in Known(w) : e.seq = f.seq \/ (e.kind = f.kind /\ e.id = f.id) => e = f
  /\ \A e \in Known(w) : e.at <= worker[w].clock /\ (worker[w].loaded => e.seq <= worker[w].total)
  /\ \A e \in Admitted(w) : req[w][e.id] # "none"
  /\ \A e \in Retired(w) : req[w][e.id] \in Over
  /\ \A e \in Retired(w) : e.id = 2 /\ e.reason = "completed" => req[w][2] = "completed"

\* Events and requests belong to the round under way.
RoundsInv == \A w \in Workers : Known(w) # {} \/ Table(w) # {} => InRound

\* What the events say is what happened; nothing is said of a failed record once its
\* history is dropped.
OverlapInv(w) ==
  /\ Rows(w) = Members \/ obs[w].joint # {} => truth.together[w]
  /\ \A e \in Retired(w) : e.reason # "allocation-failed" /\ e.others # {} => truth.together[w]
  /\ \A e \in Retired(w) : Kind = "cancel" /\ e.id = 1 /\ e.reason = "cancelled" /\ 2 \in e.others
                             => truth.alone[w]
  /\ truth.together[w] =>
       /\ \A r \in Members : req[w][r] \in {"allocated"} \cup Over
       /\ \A a \in Admitted(w), e \in Retired(w) : a.seq < e.seq /\ a.at <= e.at
       /\ \A e \in Retired(w), r \in Members : e.id # r /\ req[w][r] = "allocated" =>
            r \in e.others /\ e.reason # "allocation-failed"
       /\ \A e, f \in Retired(w) : e.id # f.id /\ e.seq < f.seq =>
            f.id \in e.others /\ e.reason # "allocation-failed"

Dropped == h.failure /\ ~h.session

\* A record that is not open, unsafe or failed, and shows one process per worker, is
\* earned; or a process was replaced in this session and the snapshots that follow
\* the unload will show it.
Good ==
  /\ ~h.failure /\ ~h.unsafe /\ ~h.open
  /\ \A w \in Workers : obs[w].pids \subseteq {h.process[w]}

Unseen(w) == h.session \/ (Cleaning("unloaded") /\ ~(w = 1 /\ h.looked))

EarnedInv ==
  /\ h.pc \in {"start", "identity"} => truth.earned
  /\ Good => truth.earned \/ \E w \in Workers : worker[w].pid # h.process[w] /\ Unseen(w)

AcceptedInv ==
  acceptance = "accepted" => h.pc = "done" /\ AcceptanceIsEarned

EvidenceInv ==
  /\ Types /\ HarnessInv /\ WorkersInv /\ PeaksInv /\ ClientsInv /\ RoundsInv
  /\ \A w \in Workers : EventsInv(w)
  /\ ~Dropped => \A w \in Workers : OverlapInv(w)
  /\ EarnedInv /\ AcceptedInv
------------------------------------------------------------------------------
(* The model's operators *)

\* The largest of two numbers.
LEMMA MaxOfTwo ==
  ASSUME NEW a \in Int, NEW b \in Int
  PROVE  /\ Max({a, b}) \in {a, b} /\ Max({a, b}) >= a /\ Max({a, b}) >= b
<1>1. \E x \in {a, b} : \A y \in {a, b} : x >= y
  <2>1. CASE a >= b
    BY <2>1
  <2>2. CASE ~(a >= b)
    BY <2>2
  <2> QED BY <2>1, <2>2
<1>2. Max({a, b}) \in {a, b} /\ \A y \in {a, b} : Max({a, b}) >= y
  BY <1>1 DEF Max
<1> QED BY <1>2

\* The same for natural numbers.
LEMMA MaxOfNats ==
  ASSUME NEW a \in Nat, NEW b \in Nat
  PROVE  Max({a, b}) \in Nat /\ Max({a, b}) >= a /\ Max({a, b}) >= b
<1>1. a \in Int /\ b \in Int
  OBVIOUS
<1>2. Max({a, b}) \in {a, b} /\ Max({a, b}) >= a /\ Max({a, b}) >= b
  BY <1>1, MaxOfTwo
<1> QED BY <1>2

\* There is a first and a last kind of round.
LEMMA KindsFacts == Len(Kinds) \in Nat \ {0, 1}
<1>1. Pairs \in Nat
  BY ConcurrentAssumption
<1>2. [i \in 1..Pairs |-> "paired"] \in Seq({"serial", "paired", "cancel"})
      /\ Len([i \in 1..Pairs |-> "paired"]) = Pairs
  BY <1>1
<1>3. <<"serial">> \o [i \in 1..Pairs |-> "paired"] \in Seq({"serial", "paired", "cancel"})
      /\ Len(<<"serial">> \o [i \in 1..Pairs |-> "paired"]) = Pairs + 1
  BY <1>1, <1>2
<1>4. Len(Kinds) = Pairs + 2
  BY <1>1, <1>3 DEF Kinds
<1> QED BY <1>1, <1>4

\* The end of a sequence has elements of it only.
LEMMA TailOf ==
  ASSUME NEW S, NEW s \in Seq(S), NEW m \in 1..Len(s)
  PROVE  SubSeq(s, m, Len(s)) \in Seq(S) /\ ToSet(SubSeq(s, m, Len(s))) \subseteq ToSet(s)
<1>1. SubSeq(s, m, Len(s)) \in Seq(S)
  OBVIOUS
<1>2. \A i \in DOMAIN SubSeq(s, m, Len(s)) :
        m + i - 1 \in DOMAIN s /\ SubSeq(s, m, Len(s))[i] = s[m + i - 1]
  OBVIOUS
<1> QED BY <1>1, <1>2 DEF ToSet

\* The last element is new, the others were there.
LEMMA SetOfAppend ==
  ASSUME NEW S, NEW s \in Seq(S), NEW e \in S
  PROVE  Append(s, e) \in Seq(S) /\ Len(Append(s, e)) = Len(s) + 1
         /\ ToSet(Append(s, e)) \subseteq ToSet(s) \cup {e}
<1>1. \A i \in DOMAIN Append(s, e) : Append(s, e)[i] = e \/ (i \in DOMAIN s /\ Append(s, e)[i] = s[i])
  OBVIOUS
<1> QED BY <1>1 DEF ToSet

NewEvent(w, kind, r, reason) ==
  [kind |-> kind, id |-> r, seq |-> worker[w].total + 1, at |-> worker[w].clock + 1,
   others |-> Rows(w) \ {r}, reason |-> reason]

\* record_lifecycle changes the counters and the log of its worker; the log gains one
\* event and may lose older ones.
LEMMA RecordFacts ==
  ASSUME WorkerType, NEW w \in Workers, NEW r \in Members, NEW kind \in {"admitted", "retired"},
         NEW reason \in Reasons, NEW W, W = record_lifecycle(w, kind, r, reason)
  PROVE  /\ W \in [Workers -> Process]
         /\ \A v \in Workers : v # w => W[v] = worker[v]
         /\ \A f \in {"up", "pid", "loaded", "admitted", "peak"} : W[w][f] = worker[w][f]
         /\ W[w].total = worker[w].total + 1 /\ W[w].clock = worker[w].clock + 1
         /\ ToSet(W[w].log) \subseteq ToSet(worker[w].log) \cup {NewEvent(w, kind, r, reason)}
         /\ NewEvent(w, kind, r, reason) \in Event
<1> DEFINE e == NewEvent(w, kind, r, reason)
           log == Append(worker[w].log, e)
           m == Max({1, Len(log) - kLifecycleHistory + 1})
<1>1. worker[w] \in Process
  BY DEF WorkerType
<1>2. e \in Event
  BY <1>1 DEF NewEvent, Event, Process, Rows
<1>3. log \in Seq(Event \cup Old) /\ Len(log) = Len(worker[w].log) + 1
      /\ ToSet(log) \subseteq ToSet(worker[w].log) \cup {e}
  BY <1>1, <1>2, SetOfAppend DEF Process
<1>4. m \in 1..Len(log)
  <2>1. Len(log) \in Nat \ {0} /\ kLifecycleHistory \in Nat \ {0}
    BY <1>1, <1>3, ConcurrentAssumption DEF Process
  <2>2. 1 \in Int /\ Len(log) - kLifecycleHistory + 1 \in Int
    BY <2>1
  <2> HIDE DEF log, m
  <2>3. m \in {1, Len(log) - kLifecycleHistory + 1} /\ m >= 1
    BY <2>2, MaxOfTwo DEF m
  <2> QED BY <2>1, <2>3
<1>5. SubSeq(log, m, Len(log)) \in Seq(Event \cup Old)
      /\ ToSet(SubSeq(log, m, Len(log))) \subseteq ToSet(log)
  <2> HIDE DEF log, m
  <2> QED BY <1>3, <1>4, TailOf
<1>6. W = [worker EXCEPT ![w].total = @ + 1, ![w].clock = @ + 1, ![w].log = SubSeq(log, m, Len(log))]
  BY DEF record_lifecycle, NewEvent
<1> HIDE DEF log, m, e
<1>7. /\ W \in [Workers -> Process]
      /\ \A v \in Workers : v # w => W[v] = worker[v]
      /\ W[w] = [worker[w] EXCEPT !.total = @ + 1, !.clock = @ + 1, !.log = SubSeq(log, m, Len(log))]
  BY <1>1, <1>5, <1>6 DEF WorkerType, Process
<1> QED BY <1>1, <1>2, <1>3, <1>5, <1>7 DEF Process, e

------------------------------------------------------------------------------
(* What the steps of a request do *)

\* An admission records its event and the time of it.
LEMMA AdmitFacts ==
  ASSUME WorkerType, NEW w \in Workers, NEW r \in Members, Admit(w, r)
  PROVE  /\ worker' \in [Workers -> Process]
         /\ \A v \in Workers : v # w => worker'[v] = worker[v]
         /\ \A f \in {"up", "pid", "loaded", "peak"} : worker'[w][f] = worker[w][f]
         /\ worker'[w].total = worker[w].total + 1 /\ worker'[w].clock = worker[w].clock + 1
         /\ ToSet(worker'[w].log) \subseteq ToSet(worker[w].log) \cup {NewEvent(w, "admitted", r, "")}
         /\ NewEvent(w, "admitted", r, "") \in Event
<1>3. PICK kind \in {"admitted", "retired"}, reason \in Reasons : kind = "admitted" /\ reason = ""
  BY DEF Reasons
<1>1. PICK W : W = record_lifecycle(w, kind, r, reason)
  OBVIOUS
<1>2. worker' = [W EXCEPT ![w].admitted = worker[w].clock + 1]
  BY <1>1, <1>3 DEF Admit
<1>4. /\ W \in [Workers -> Process]
      /\ \A v \in Workers : v # w => W[v] = worker[v]
      /\ \A f \in {"up", "pid", "loaded", "admitted", "peak"} : W[w][f] = worker[w][f]
      /\ W[w].total = worker[w].total + 1 /\ W[w].clock = worker[w].clock + 1
      /\ ToSet(W[w].log) \subseteq ToSet(worker[w].log) \cup {NewEvent(w, kind, r, reason)}
      /\ NewEvent(w, kind, r, reason) \in Event
  BY <1>1, RecordFacts
<1>5. worker[w].clock + 1 \in Nat
  BY DEF WorkerType, Process
<1>6. /\ worker' \in [Workers -> Process]
      /\ \A v \in Workers : v # w => worker'[v] = W[v]
      /\ worker'[w] = [W[w] EXCEPT !.admitted = worker[w].clock + 1]
  BY <1>2, <1>4, <1>5 DEF Process
<1>7. W[w] \in Process
  BY <1>4
<1>8. \A f \in {"up", "pid", "loaded", "peak", "total", "clock", "log"} : worker'[w][f] = W[w][f]
  BY <1>6, <1>7 DEF Process
<1> QED BY <1>3, <1>4, <1>6, <1>8

\* A table has at most two requests.
LEMMA TableFacts ==
  ASSUME NEW w \in Workers
  PROVE  Table(w) \subseteq Members /\ Cardinality(Table(w)) \in Nat
<1>1. Table(w) \subseteq Members /\ IsFiniteSet(Members)
  <2>1. Members = {1} \cup {2}
    BY DEF Members
  <2>2. IsFiniteSet({1} \cup {2})
    BY FS_Singleton, FS_AddElement
  <2> QED BY <2>1, <2>2 DEF Table
<1> QED BY <1>1, FS_Subset, FS_CardinalityType

\* What a process uses is a number of bytes, and not less than it uses when idle.
LEMMA LevelFacts ==
  ASSUME NEW w \in Workers
  PROVE  Level(w) \in Nat /\ Level(w) >= Resident
<1>1. Cardinality(Table(w)) \in Nat /\ {Weights, Cache, Workspace, Resident} \subseteq Nat
  BY TableFacts, ConcurrentAssumption
<1>2. Cache * Cardinality(Table(w)) \in Nat
  BY <1>1
<1> DEFINE a == IF worker[w].loaded THEN Weights ELSE 0
           b == Cache * Cardinality(Table(w))
           c == IF Table(w) # {} THEN Workspace ELSE 0
<1>3. a \in Nat /\ b \in Nat /\ c \in Nat /\ Resident \in Nat
  BY <1>1, <1>2
<1>4. Level(w) = Resident + a + b + c
  BY DEF Level
<1> HIDE DEF a, b, c
<1> QED BY <1>3, <1>4

\* A request that retires was in the table; a failed allocation is reported as such.
Retires(w, r, how, reason) ==
  /\ req[w][r] \in Held /\ how \in Over
  /\ req[w][r] = "allocating" => how = "failed" /\ reason = "allocation-failed"
  /\ req[w][r] = "allocated" => reason = how
  /\ Retire(w, r, how, reason)
  /\ got' \in [Members -> {"none", "prefix", "closed", "exact", "inexact", "error"}]
  /\ \A q \in Members : got'[q] # got[q] =>
       /\ w = 1 /\ q = r /\ got'[r] \in {"exact", "inexact", "error"}
       /\ got[r] = "closed" => req[w][r] = "allocating" \/ ~Victim(r)
       /\ got'[r] = "exact" => how = "completed"

\* Every way to leave the table is one of these.
LEMMA RetirementFacts ==
  ASSUME Types, NEW w \in Workers, NEW r \in Members,
         AllocationFails(w, r) \/ Complete(w, r) \/ Cancelled(w, r) \/ Fail(w, r)
  PROVE  \E how \in Over, reason \in Reasons : Retires(w, r, how, reason)
<1>1. got \in [Members -> {"none", "prefix", "closed", "exact", "inexact", "error"}]
  BY DEF Types, RequestType
<1>2. CASE AllocationFails(w, r)
  <2>1. Retires(w, r, "failed", "allocation-failed")
    BY <1>1, <1>2 DEF AllocationFails, Retires, Held, Over
  <2> QED BY <2>1 DEF Over, Reasons
<1>3. CASE Complete(w, r)
  <2>1. Retires(w, r, "completed", "completed")
    BY <1>1, <1>3 DEF Complete, Retires, Held, Over
  <2> QED BY <2>1 DEF Over, Reasons
<1>4. CASE Cancelled(w, r)
  <2>1. Retires(w, r, "cancelled", "cancelled")
    BY <1>1, <1>4 DEF Cancelled, Retires, Held, Over
  <2> QED BY <2>1 DEF Over, Reasons
<1>5. CASE Fail(w, r)
  <2>1. Retires(w, r, "failed", "failed")
    BY <1>1, <1>5 DEF Fail, Retires, Held, Over
  <2> QED BY <2>1 DEF Over, Reasons
<1> QED BY <1>2, <1>3, <1>4, <1>5

\* What of the state stays when only clients, or only workers and requests, move.
ClientStep ==
  /\ UNCHANGED <<worker, req, h, obs, acceptance, truth>>
  /\ \E r \in Members : Deliver(r) \/ Close(r) \/ Unreachable(r)

\* The steps of the requests, in four forms.
LEMMA RequestSteps ==
  ASSUME Types, Requests
  PROVE  \/ \E w \in Workers, r \in Members : Admit(w, r) \/ Allocate(w, r)
         \/ \E w \in Workers, r \in Members, how \in Over, reason \in Reasons :
              Retires(w, r, how, reason)
         \/ ClientStep
<1>1. ASSUME NEW r \in Members, Deliver(r) \/ Close(r) \/ Unreachable(r)
      PROVE  ClientStep
  BY <1>1 DEF ClientStep, Deliver, Close, Unreachable
<1> QED BY <1>1, RetirementFacts DEF Requests

------------------------------------------------------------------------------
(* What a snapshot adds *)

Lost == {"nothing", "process", "footprint", "allocator"}

\* A snapshot shows events that were known, notes the process, and two allocated
\* requests only if there are two.
LEMMA ObserveFacts ==
  ASSUME Types, NEW w \in Workers, EventsInv(w), NEW lost \in Lost, NEW O, O = Observe(w, lost)
  PROVE  /\ DOMAIN O = {"events", "joint", "pids", "over", "cycle"}
         /\ O.joint \subseteq Joint /\ (O.joint = obs[w].joint \/ Rows(w) = Members)
         /\ O.pids = obs[w].pids \cup {worker[w].pid}
         /\ O.cycle \in [peak : Nat \cup {None}, lost : SUBSET {"process", "footprint", "allocator"}]
         /\ h.cycle # 0 => \/ "process" \in O.cycle.lost
                           \/ O.cycle.peak # None /\ O.cycle.peak >= worker[w].peak
         /\ \A s \in DOMAIN O.events : O.events[s].seq = s /\ O.events[s] \in Known(w)
<1> DEFINE k == worker[w]
           o == obs[w]
           seen == [s \in {e.seq : e \in Logged(w)} |-> CHOOSE e \in Logged(w) : e.seq = s]
           joint == IF Rows(w) = Members
                    THEN o.joint \cup {[start |-> k.admitted, at |-> k.clock]} ELSE o.joint
           peak == IF h.cycle = 0 \/ lost = "process" THEN o.cycle.peak
                   ELSE Max({k.peak, IF o.cycle.peak = None THEN 0 ELSE o.cycle.peak})
           lose == IF h.cycle = 0 \/ lost = "nothing" THEN o.cycle.lost ELSE o.cycle.lost \cup {lost}
<1>1. O = [o EXCEPT !.events = Joined(seen, o.events), !.joint = joint, !.pids = @ \cup {k.pid},
                    !.over = @ \/ logical_peak(w) > AdmissionCap, !.cycle.peak = peak,
                    !.cycle.lost = lose]
  BY DEF Observe, Logged
<1>2. /\ k \in Process /\ DOMAIN o = {"events", "joint", "pids", "over", "cycle"}
      /\ o.joint \subseteq Joint
      /\ o.cycle \in [peak : Nat \cup {None}, lost : SUBSET {"process", "footprint", "allocator"}]
  BY DEF Types, WorkerType, SnapshotType
<1>3. /\ DOMAIN O = {"events", "joint", "pids", "over", "cycle"}
      /\ O.events = Joined(seen, o.events) /\ O.joint = joint /\ O.pids = o.pids \cup {k.pid}
      /\ O.cycle = [peak |-> peak, lost |-> lose]
  <2> HIDE DEF seen, joint, peak, lose, k
  <2> QED BY <1>1, <1>2
<1>4. joint \subseteq Joint /\ (joint = obs[w].joint \/ Rows(w) = Members)
  BY <1>2 DEF Joint, Process
<1>5. /\ peak \in Nat \cup {None}
      /\ ~(h.cycle = 0 \/ lost = "process") => peak # None /\ peak >= k.peak
  <2>1. CASE h.cycle = 0 \/ lost = "process"
    BY <2>1, <1>2
  <2>2. CASE ~(h.cycle = 0 \/ lost = "process")
    <3> DEFINE before == IF o.cycle.peak = None THEN 0 ELSE o.cycle.peak
    <3>1. k.peak \in Nat /\ before \in Nat
      BY <1>2 DEF Process
    <3>2. peak = Max({k.peak, before})
      BY <2>2
    <3> HIDE DEF before, peak
    <3>3. peak \in Nat /\ peak >= k.peak
      BY <3>1, <3>2, MaxOfNats
    <3>4. peak # None
      <4>1. peak \in Int
        BY <3>3
      <4>2. None \notin Int
        BY PlannerAssumption
      <4> QED BY <4>1, <4>2
    <3> QED BY <2>2, <3>3, <3>4
  <2> QED BY <2>1, <2>2
<1>6. lose \in SUBSET {"process", "footprint", "allocator"}
      /\ (h.cycle # 0 /\ lost = "process" => "process" \in lose)
  BY <1>2 DEF Lost
<1>7. ASSUME NEW s \in DOMAIN O.events
      PROVE  O.events[s].seq = s /\ O.events[s] \in Known(w)
  <2>1. CASE s \in DOMAIN seen
    <3>1. O.events[s] = seen[s]
      BY <2>1, <1>3, <1>7 DEF Joined
    <3>2. seen[s] \in Logged(w) /\ seen[s].seq = s
      BY <2>1
    <3> QED BY <3>1, <3>2 DEF Known
  <2>2. CASE s \notin DOMAIN seen
    <3>1. s \in DOMAIN o.events /\ O.events[s] = o.events[s]
      BY <2>2, <1>3, <1>7 DEF Joined
    <3> QED BY <3>1 DEF EventsInv, Known, EventsOf
  <2> QED BY <2>1, <2>2
<1> HIDE DEF seen, joint, peak, lose
<1> QED BY <1>2, <1>3, <1>4, <1>5, <1>6, <1>7

------------------------------------------------------------------------------
(* Types *)

\* The harness starts with nothing observed.
LEMMA InitTypes == Init => Types
<1> SUFFICES ASSUME Init PROVE Types
  OBVIOUS
<1>1. WorkerType
  <2>1. << >> \in Seq(Event \cup Old) /\ Resident \in Nat
    BY ConcurrentAssumption
  <2> QED BY <2>1 DEF Init, WorkerType, Process
<1>2. RequestType
  BY DEF Init, RequestType, NoRequests, NoTokens
<1>3. HarnessType
  BY KindsFacts, ConcurrentAssumption DEF Init, HarnessType, Places, Workers
<1>4. SnapshotType
  BY DEF Init, SnapshotType, NoSnapshots, NoCycle
<1>5. TruthType
  BY DEF Init, TruthType, Unearned
<1> QED BY <1>1, <1>2, <1>3, <1>4, <1>5 DEF Types

\* The stages are loaded; nothing else of a process changes but its peak.
LEMMA LoadFacts ==
  ASSUME WorkerType, Load
  PROVE  /\ worker' \in [Workers -> Process]
         /\ \A w \in Workers :
              /\ \A f \in {"up", "pid", "log", "total", "clock"} : worker'[w][f] = worker[w][f]
              /\ worker'[w].peak >= worker[w].peak
              /\ worker'[w].loaded => worker[w].loaded \/ worker[w].up
<1>1. CASE UNCHANGED worker
  <2>1. \A w \in Workers : worker[w].peak \in Nat
    BY DEF WorkerType, Process
  <2> QED BY <1>1, <2>1 DEF WorkerType
<1>2. CASE \A w \in Workers : worker[w].up
  <2> DEFINE P(w) == Max({worker[w].peak, Resident + Weights})
  <2>1. ASSUME NEW w \in Workers
        PROVE  worker[w] \in Process /\ P(w) \in Nat /\ P(w) >= worker[w].peak
    <3>1. worker[w] \in Process /\ worker[w].peak \in Nat /\ Resident + Weights \in Nat
      BY ConcurrentAssumption DEF WorkerType, Process
    <3> QED BY <3>1, MaxOfNats
  <2>2. worker' = [w \in Workers |-> [worker[w] EXCEPT !.loaded = TRUE, !.peak = P(w)]]
    BY <1>2 DEF Load
  <2> HIDE DEF P
  <2>3. \A w \in Workers : worker'[w] = [worker[w] EXCEPT !.loaded = TRUE, !.peak = P(w)]
    BY <2>2
  <2>4. \A w \in Workers : worker'[w] \in Process
    BY <2>1, <2>3 DEF Process
  <2>5. worker' \in [Workers -> Process]
    BY <2>2, <2>3, <2>4
  <2>6. ASSUME NEW w \in Workers
        PROVE  /\ \A f \in {"up", "pid", "log", "total", "clock"} : worker'[w][f] = worker[w][f]
               /\ worker'[w].peak = P(w)
    BY <2>1, <2>3 DEF Process
  <2> QED BY <1>2, <2>1, <2>5, <2>6
<1> QED BY <1>1, <1>2 DEF Load

\* A process ends: its stage, its log and its counters are gone.
LEMMA DiesFacts ==
  ASSUME WorkerType, NEW w \in Workers, WorkerDies(w)
  PROVE  /\ worker' \in [Workers -> Process]
         /\ \A v \in Workers : v # w => worker'[v] = worker[v]
         /\ worker'[w].log = << >> /\ worker'[w].peak = Resident
         /\ worker'[w].up = FALSE /\ worker'[w].loaded = FALSE
         /\ worker'[w].pid = worker[w].pid /\ worker'[w].clock = worker[w].clock
<1> DEFINE d == [worker[w] EXCEPT !.up = FALSE, !.loaded = FALSE, !.log = << >>, !.total = 0,
                                  !.peak = Resident]
<1>1. worker[w] \in Process /\ DOMAIN worker = Workers
  BY DEF WorkerType
<1>2. worker' = [worker EXCEPT ![w] = d]
  <2>1. worker' = [worker EXCEPT ![w].up = FALSE, ![w].loaded = FALSE, ![w].log = << >>,
                                 ![w].total = 0, ![w].peak = Resident]
    BY DEF WorkerDies
  <2> QED BY <1>1, <2>1 DEF Process
<1>3. d \in Process
  <2>1. << >> \in Seq(Event \cup Old) /\ Resident \in Nat
    BY ConcurrentAssumption
  <2> QED BY <1>1, <2>1 DEF Process
<1>4. /\ d.log = << >> /\ d.peak = Resident /\ d.up = FALSE /\ d.loaded = FALSE
      /\ d.pid = worker[w].pid /\ d.clock = worker[w].clock
  BY <1>1 DEF Process
<1> HIDE DEF d
<1> QED BY <1>1, <1>2, <1>3, <1>4 DEF WorkerType

\* Another process takes its place, with no stage loaded.
LEMMA RestartFacts ==
  ASSUME WorkerType, NEW w \in Workers, WorkerRestarts(w)
  PROVE  /\ worker' \in [Workers -> Process]
         /\ worker'[w] = [worker[w] EXCEPT !.up = TRUE, !.pid = @ + 1]
         /\ \A v \in Workers : v # w => worker'[v] = worker[v]
<1> DEFINE d == [worker[w] EXCEPT !.up = TRUE, !.pid = @ + 1]
<1>1. worker[w] \in Process /\ DOMAIN worker = Workers
  BY DEF WorkerType
<1>2. d \in Process
  <2>1. worker[w].pid + 1 \in Nat
    BY <1>1 DEF Process
  <2> QED BY <1>1, <2>1 DEF Process
<1>3. worker' = [worker EXCEPT ![w] = d]
  <2>1. worker' = [worker EXCEPT ![w].up = TRUE, ![w].pid = @ + 1]
    BY DEF WorkerRestarts
  <2> QED BY <1>1, <2>1 DEF Process
<1> HIDE DEF d
<1>4. worker' \in [Workers -> Process] /\ worker'[w] = d
      /\ \A v \in Workers : v # w => worker'[v] = worker[v]
  BY <1>1, <1>2, <1>3 DEF WorkerType
<1> QED BY <1>4 DEF d

\* What the processes, their requests and the clients are made of.
LEMMA WorkTypes ==
  ASSUME Types, Next, \A w \in Workers : EventsInv(w)
  PROVE  WorkerType' /\ RequestType' /\ TruthType'
<1>1. WorkerType /\ RequestType /\ HarnessType /\ TruthType
  BY DEF Types
<1>2. ASSUME NEW w \in Workers, NEW r \in Members, Admit(w, r)
      PROVE  WorkerType' /\ RequestType' /\ TruthType'
  <2> DEFINE W == record_lifecycle(w, "admitted", r, "")
  <2>1. W \in [Workers -> Process]
    BY <1>1, RecordFacts DEF Reasons
  <2>2. worker' = [W EXCEPT ![w].admitted = worker[w].clock + 1]
    BY <1>2 DEF Admit
  <2>5. worker[w].clock + 1 \in Nat
    BY <1>1 DEF WorkerType, Process
  <2> HIDE DEF W
  <2>3. WorkerType'
    BY <2>1, <2>2, <2>5 DEF WorkerType, Process
  <2>4. RequestType'
    BY <1>1, <1>2 DEF Admit, RequestType, Held
  <2> QED BY <1>1, <1>2, <2>3, <2>4 DEF Admit, TruthType
<1>3. ASSUME NEW w \in Workers, NEW r \in Members, Allocate(w, r)
      PROVE  WorkerType' /\ RequestType' /\ TruthType'
  <2>1. worker[w].peak \in Nat /\ Level(w) \in Nat
    BY <1>1, LevelFacts DEF WorkerType, Process
  <2>2. Max({worker[w].peak, Level(w)}) \in Nat
    BY <2>1, MaxOfNats
  <2>3. WorkerType'
    BY <1>1, <1>3, <2>2 DEF Allocate, WorkerType, Process
  <2>4. RequestType'
    BY <1>1, <1>3 DEF Allocate, RequestType, Held
  <2>5. TruthType'
    BY <1>1, <1>3 DEF Allocate, TruthType
  <2> QED BY <2>3, <2>4, <2>5
<1>4. ASSUME NEW w \in Workers, NEW r \in Members, NEW how \in Over, NEW reason \in Reasons,
             Retires(w, r, how, reason)
      PROVE  WorkerType' /\ RequestType' /\ TruthType'
  <2>1. WorkerType'
    BY <1>1, <1>4, RecordFacts DEF Retires, Retire, WorkerType
  <2>2. RequestType'
    BY <1>1, <1>4 DEF Retires, Retire, RequestType
  <2>3. TruthType'
    BY <1>1, <1>4 DEF Retires, Retire, TruthType
  <2> QED BY <2>1, <2>2, <2>3
<1>5. CASE ClientStep
  <2>1. RequestType'
    BY <1>1, <1>5 DEF ClientStep, Deliver, Close, Unreachable, RequestType
  <2> QED BY <1>1, <1>5, <2>1 DEF ClientStep, WorkerType, TruthType
<1>6. CASE UNCHANGED <<worker, req, got, truth>>
  BY <1>1, <1>6 DEF WorkerType, RequestType, TruthType
<1>7. CASE Load
  <2>1. WorkerType'
    BY <1>1, <1>7, LoadFacts DEF WorkerType
  <2> QED BY <1>1, <1>7, <2>1 DEF Load, RequestType, TruthType
<1>8. CASE NextRound
  <2>1. \A w \in Workers : [i \in DOMAIN worker[w].log |-> [kind |-> "old"]] \in Seq(Event \cup Old)
    <3> TAKE w \in Workers
    <3>1. worker[w].log \in Seq(Event \cup Old)
      BY <1>1 DEF WorkerType, Process
    <3>2. DOMAIN worker[w].log = 1..Len(worker[w].log) /\ Len(worker[w].log) \in Nat
      BY <3>1
    <3>3. [kind |-> "old"] \in Event \cup Old
      BY DEF Old
    <3> QED BY <3>2, <3>3
  <2>2. WorkerType'
    BY <1>1, <1>8, <2>1 DEF NextRound, WorkerType, Process
  <2>3. RequestType'
    BY <1>8 DEF NextRound, RequestType, NoRequests, NoTokens
  <2>4. TruthType'
    <3>1. truth' = [together |-> [w \in Workers |-> FALSE], alone |-> [w \in Workers |-> FALSE],
                    earned |-> h'.open \/ (truth.earned /\ RoundEarned)]
      BY <1>8 DEF NextRound, Unearned
    <3>2. h'.open \in BOOLEAN
      BY <1>1, <1>8 DEF NextRound, HarnessType
    <3> QED BY <3>1, <3>2 DEF TruthType
  <2> QED BY <2>2, <2>3, <2>4
<1>9. CASE CloseSession
  <2>1. WorkerType'
    BY <1>1, <1>9 DEF CloseSession, WorkerType, Process
  <2>2. TruthType'
    BY <1>1, <1>9 DEF CloseSession, TruthType, Unearned
  <2> QED BY <1>1, <1>9, <2>1, <2>2 DEF CloseSession, RequestType
<1>10. CASE Score
  <2>1. TruthType'
    BY <1>1, <1>10 DEF Score, TruthType
  <2> QED BY <1>1, <1>10, <2>1 DEF Score, WorkerType, RequestType
<1>11. ASSUME NEW w \in Workers, WorkerDies(w)
       PROVE  WorkerType' /\ RequestType' /\ TruthType'
  <2>1. WorkerType'
    BY <1>1, <1>11, DiesFacts DEF WorkerType
  <2>2. RequestType'
    BY <1>1, <1>11 DEF WorkerDies, RequestType, Over
  <2> QED BY <1>1, <1>11, <2>1, <2>2 DEF WorkerDies, TruthType
<1>12. ASSUME NEW w \in Workers, WorkerRestarts(w)
       PROVE  WorkerType' /\ RequestType' /\ TruthType'
  BY <1>1, <1>12, RestartFacts DEF WorkerRestarts, WorkerType, RequestType, TruthType
<1>13. CASE Requests
  BY <1>2, <1>3, <1>4, <1>5, <1>13, RequestSteps
<1>14. CASE Harness
  <2>1. CASE Start \/ Establish \/ CleanFirst \/ CleanSecond \/ Gate \/ AfterLoad \/ EndRound
             \/ CleanupEvidence \/ Assemble \/ \E w \in Workers : Poll(w)
    BY <1>6, <2>1 DEF Start, Establish, CleanFirst, CleanSecond, Gate, AfterLoad, EndRound,
                      CleanupEvidence, Assemble, Poll
  <2> QED BY <1>7, <1>8, <1>9, <1>10, <1>14, <2>1 DEF Harness
<1> QED BY <1>11, <1>12, <1>13, <1>14 DEF Next, Processes

------------------------------------------------------------------------------
(* The harness *)

\* Nothing but the harness moves the harness.
LEMMA HarnessStays ==
  ASSUME Next, ~Harness
  PROVE  h' = h /\ obs' = obs /\ acceptance' = acceptance
<1>1. CASE \E w \in Workers, r \in Members :
             Admit(w, r) \/ Allocate(w, r) \/ AllocationFails(w, r) \/ Cancelled(w, r)
  BY <1>1 DEF Admit, Allocate, AllocationFails, Cancelled, Retire
<1>2. CASE \E w \in Workers, r \in Members : Complete(w, r) \/ Fail(w, r)
  BY <1>2 DEF Complete, Fail, Retire
<1>3. CASE \E r \in Members : Deliver(r) \/ Close(r) \/ Unreachable(r)
  BY <1>3 DEF Deliver, Close, Unreachable
<1>4. CASE Processes
  BY <1>4 DEF Processes, WorkerDies, WorkerRestarts
<1> QED BY <1>1, <1>2, <1>3, <1>4 DEF Next, Requests

\* The snapshots of a worker are all that a snapshot changes.
Looks(w) == \E lost \in Lost : obs' = [obs EXCEPT ![w] = Observe(w, lost)]

\* clean() and the pollers take a snapshot, or find the worker gone.
LEMMA LookSteps ==
  /\ CleanFirst => (Looks(1) /\ worker[1].up) \/ (UNCHANGED obs /\ h' = Raised(h))
  /\ CleanSecond => (Looks(2) /\ worker[2].up) \/ (UNCHANGED obs /\ h' = Raised(h))
  /\ \A w \in Workers : Poll(w) => Looks(w) \/ UNCHANGED obs
BY DEF CleanFirst, CleanSecond, Poll, Snapshot, Looks, Lost

\* An exception leads out of the session, if there is one, or to the end.
LEMMA RaisedStep ==
  ASSUME HarnessType, HarnessInv, h.pc # "finish", h' = Raised(h)
  PROVE  HarnessType' /\ HarnessInv'
<1>1. /\ h'.failure = TRUE /\ h'.looked = FALSE /\ h'.pc = IF h.session THEN "close" ELSE "finish"
      /\ h'.session = h.session /\ h'.cycle = h.cycle /\ h'.phase = h.phase
  BY DEF HarnessType, Raised
<1>2. HarnessType'
  BY DEF HarnessType, Raised, Places
<1>3. HarnessInv'
  BY <1>1 DEF HarnessInv, Cleaning
<1> QED BY <1>2, <1>3

Status(available, device) ==
  {assess_serving_envelope(w, available[w], device) : w \in Workers}

Scored(available, device) ==
  [h EXCEPT !.unsafe = @ \/ "unsafe" \in Status(available, device),
            !.open = @ \/ "unknown" \in Status(available, device),
            !.pc = IF h.cycle < Cycles THEN "gate" ELSE "finish"]

\* A cycle is scored with some budgets of its gate and some sample of the device.
LEMMA ScoreFacts ==
  ASSUME Score
  PROVE  \E device \in {None, Resident, worker[1].peak}, available \in [Workers -> FittingBudgets] :
           /\ h' = Scored(available, device)
           /\ truth' = [truth EXCEPT !.earned = @ /\ \A w \in Workers :
                          worker[w].pid = h.process[w] =>
                            envelope(worker[w].peak, Budget(available[w])) = "ok"]
BY Zenon DEF Score, Scored, Status

\* One step of the harness keeps its place, round and cycle consistent.
LEMMA HarnessStep ==
  ASSUME WorkerType, HarnessType, HarnessInv, Next
  PROVE  HarnessType' /\ HarnessInv'
<1>1. CASE h' = h
  BY <1>1 DEF HarnessType, HarnessInv, Cleaning
<1>2. CASE Start
  <2>1. HarnessType'
    BY <1>2 DEF Start, HarnessType, Places
  <2>2. h'.pc \in {"identity", "refused"} /\ \A f \in {"failure", "session", "cycle", "phase"} : h'[f] = h[f]
    BY <1>2 DEF Start, HarnessType
  <2>3. HarnessInv'
    BY <1>2, <2>2 DEF Start, HarnessInv, Cleaning
  <2> QED BY <2>1, <2>3
<1>3. CASE Establish
  <2>5. [w \in Workers |-> worker[w].pid] \in [Workers -> Nat]
    BY DEF WorkerType, Process
  <2>1. HarnessType'
    BY <1>3, <2>5 DEF Establish, HarnessType, Places
  <2>2. \/ h'.pc = "noted" /\ h'.phase = h.phase
        \/ h'.pc = "clean" /\ h'.phase = "baseline"
    BY <1>3 DEF Establish, HarnessType
  <2>3. \A f \in {"failure", "session", "cycle"} : h'[f] = h[f]
    BY <1>3 DEF Establish, HarnessType
  <2>4. HarnessInv'
    BY <1>3, <2>2, <2>3 DEF Establish, HarnessInv, Cleaning
  <2> QED BY <2>1, <2>4
<1>4. CASE h.pc # "finish" /\ h' = Raised(h)
  BY <1>4, RaisedStep
<1>5. CASE CleanFirst
  <2>1. CASE h' = [h EXCEPT !.looked = TRUE, !.idle = Idle(1)]
    <3>1. HarnessType'
      BY <2>1 DEF HarnessType, Idle
    <3>2. \A f \in {"pc", "failure", "session", "cycle", "phase", "round"} : h'[f] = h[f]
      BY <2>1 DEF HarnessType
    <3> QED BY <3>1, <3>2 DEF HarnessInv, Cleaning
  <2> QED BY <1>4, <1>5, <2>1 DEF CleanFirst
<1>6. CASE CleanSecond
  <2>1. CASE h' = [h EXCEPT !.looked = FALSE]
    <3>1. HarnessType'
      BY <2>1 DEF HarnessType
    <3>2. \A f \in {"pc", "failure", "session", "cycle", "phase", "round"} : h'[f] = h[f]
      BY <2>1 DEF HarnessType
    <3> QED BY <3>1, <3>2 DEF HarnessInv, Cleaning
  <2>2. CASE h' = Cleaned
    <3>1. HarnessType'
      BY <2>2 DEF Cleaned, HarnessType, Places
    <3>2. \A f \in {"failure", "session", "cycle", "round"} : h'[f] = h[f]
      BY <2>2 DEF Cleaned, HarnessType
    <3>3. \/ h.phase = "baseline" /\ h'.pc = "gate"
          \/ h.phase = "round" /\ h'.pc = "next"
          \/ h.phase = "unloaded" /\ h'.pc = h.pc /\ h'.phase = "idle"
          \/ h.phase = "idle" /\ h'.pc = "scored"
      BY <2>2 DEF Cleaned, HarnessType
    <3>4. HarnessInv'
      BY <1>6, <3>1, <3>2, <3>3, ConcurrentAssumption DEF CleanSecond, HarnessInv, Cleaning
    <3> QED BY <3>1, <3>4
  <2> QED BY <1>4, <1>6, <2>1, <2>2 DEF CleanSecond
<1>7. CASE Gate
  <2>1. h.pc = "gate" /\ ~h.failure /\ ~h.session /\ h.cycle + 1 \in 0..Cycles /\ h.cycle + 1 # 0
    BY <1>7, ConcurrentAssumption DEF Gate, HarnessInv, Cleaning, HarnessType
  <2>2. CASE h' = [[h EXCEPT !.cycle = @ + 1] EXCEPT !.pc = "load"]
    <3>1. HarnessType'
      BY <2>1, <2>2 DEF HarnessType, Places
    <3>2. h'.pc = "load" /\ h'.cycle = h.cycle + 1 /\ \A f \in {"failure", "session"} : h'[f] = h[f]
      BY <2>2 DEF HarnessType
    <3> QED BY <2>1, <3>1, <3>2 DEF HarnessInv, Cleaning
  <2>3. CASE h' = Raised([h EXCEPT !.cycle = @ + 1])
    <3>1. HarnessType'
      BY <2>1, <2>3 DEF HarnessType, Places, Raised
    <3>2. h'.pc = "finish" /\ h'.failure = TRUE /\ h'.session = h.session
      BY <2>1, <2>3 DEF HarnessType, Raised
    <3> QED BY <2>1, <3>1, <3>2 DEF HarnessInv, Cleaning
  <2> QED BY <1>7, <2>2, <2>3 DEF Gate
<1>8. CASE Load
  <2>1. CASE h' = [h EXCEPT !.pc = "loaded", !.round = 1, !.session = TRUE]
    <3>3. 1 \in 1..Len(Kinds)
      BY KindsFacts
    <3>1. HarnessType'
      BY <2>1, <3>3 DEF HarnessType, Places
    <3>2. h'.pc = "loaded" /\ h'.session = TRUE /\ h'.failure = h.failure /\ h'.cycle = h.cycle
      BY <2>1 DEF HarnessType
    <3> QED BY <1>8, <3>1, <3>2 DEF Load, HarnessInv, Cleaning
  <2> QED BY <1>4, <1>8, <2>1 DEF Load
<1>9. CASE AfterLoad
  <2>1. CASE h' = [h EXCEPT !.pc = "round"]
    <3>1. HarnessType'
      BY <2>1 DEF HarnessType, Places
    <3>2. h'.pc = "round" /\ \A f \in {"failure", "session", "cycle"} : h'[f] = h[f]
      BY <2>1 DEF HarnessType
    <3> QED BY <1>9, <3>1, <3>2 DEF AfterLoad, HarnessInv, Cleaning
  <2> QED BY <1>4, <1>9, <2>1 DEF AfterLoad
<1>10. ASSUME NEW w \in Workers, Poll(w)
       PROVE  HarnessType' /\ HarnessInv'
  <2>1. CASE h' = [h EXCEPT !.sampler = TRUE]
    <3>1. HarnessType'
      BY <2>1 DEF HarnessType
    <3>2. \A f \in {"pc", "failure", "session", "cycle", "phase", "round"} : h'[f] = h[f]
      BY <2>1 DEF HarnessType
    <3> QED BY <3>1, <3>2 DEF HarnessInv, Cleaning
  <2> QED BY <1>1, <1>10, <2>1 DEF Poll
<1>11. CASE EndRound
  <2>1. CASE h' = [h EXCEPT !.pc = "clean", !.phase = "round"]
    <3>1. HarnessType'
      BY <2>1 DEF HarnessType, Places
    <3>2. h'.pc = "clean" /\ h'.phase = "round" /\ \A f \in {"failure", "session", "cycle"} : h'[f] = h[f]
      BY <2>1 DEF HarnessType
    <3> QED BY <1>11, <3>1, <3>2 DEF EndRound, HarnessInv, Cleaning
  <2> QED BY <1>4, <1>11, <2>1 DEF EndRound
<1>12. CASE NextRound
  <2> DEFINE more == h.round < Len(Kinds)
  <2>1. h' = [h EXCEPT !.open = @ \/ RoundOpen, !.pc = IF more THEN "round" ELSE "close",
                       !.round = IF more THEN @ + 1 ELSE @]
    BY <1>12 DEF NextRound
  <2>2. (IF more THEN h.round + 1 ELSE h.round) \in 1..Len(Kinds) /\ (~more => h.round = Len(Kinds))
    BY KindsFacts DEF HarnessType
  <2>3. (h.open \/ RoundOpen) \in BOOLEAN
    OBVIOUS
  <2> HIDE DEF more
  <2>4. HarnessType'
    BY <2>1, <2>2, <2>3 DEF HarnessType, Places
  <2>5. /\ h'.pc = (IF more THEN "round" ELSE "close") /\ (~more => h'.round = Len(Kinds))
        /\ \A f \in {"failure", "session", "cycle"} : h'[f] = h[f]
    BY <2>1, <2>2 DEF HarnessType
  <2>6. h.pc = "next"
    BY <1>12 DEF NextRound
  <2> QED BY <2>4, <2>5, <2>6 DEF HarnessInv, Cleaning
<1>13. CASE CloseSession
  <2>1. CASE h' = Raised([h EXCEPT !.session = FALSE])
    <3>1. HarnessType'
      BY <2>1 DEF HarnessType, Places, Raised
    <3>2. h'.pc = "finish" /\ h'.failure = TRUE /\ h'.session = FALSE
      BY <2>1 DEF HarnessType, Raised
    <3> QED BY <3>1, <3>2 DEF HarnessInv, Cleaning
  <2>2. CASE ~h.failure /\ h' = [h EXCEPT !.pc = "clean", !.phase = "unloaded", !.session = FALSE]
    <3>1. HarnessType'
      BY <2>2 DEF HarnessType, Places
    <3>2. h'.pc = "clean" /\ h'.phase = "unloaded" /\ h'.session = FALSE
          /\ \A f \in {"failure", "round", "cycle"} : h'[f] = h[f]
      BY <2>2 DEF HarnessType
    <3> QED BY <1>13, <2>2, <3>1, <3>2 DEF CloseSession, HarnessInv, Cleaning
  <2> QED BY <1>13, <2>1, <2>2 DEF CloseSession
<1>14. CASE Score
  <2>1. PICK unsafe \in BOOLEAN, open \in BOOLEAN :
          h' = [h EXCEPT !.unsafe = unsafe, !.open = open,
                         !.pc = IF h.cycle < Cycles THEN "gate" ELSE "finish"]
    <3>1. PICK device \in {None, Resident, worker[1].peak}, available \in [Workers -> FittingBudgets] :
            h' = Scored(available, device)
      BY <1>14, ScoreFacts
    <3>2. /\ (h.unsafe \/ "unsafe" \in Status(available, device)) \in BOOLEAN
          /\ (h.open \/ "unknown" \in Status(available, device)) \in BOOLEAN
      OBVIOUS
    <3> QED BY <3>1, <3>2 DEF Scored
  <2>2. HarnessType'
    BY <2>1 DEF HarnessType, Places
  <2>3. /\ h'.pc = (IF h.cycle < Cycles THEN "gate" ELSE "finish")
        /\ \A f \in {"failure", "session", "cycle", "round"} : h'[f] = h[f]
    BY <2>1 DEF HarnessType
  <2>4. ~(h.cycle < Cycles) => h.cycle = Cycles
    BY ConcurrentAssumption DEF HarnessType
  <2> QED BY <1>14, <2>2, <2>3, <2>4 DEF Score, HarnessInv, Cleaning
<1>15. CASE CleanupEvidence
  <2> DEFINE clean == [w \in Workers |-> worker[w].up /\ Table(w) = {} /\ ~worker[w].loaded]
  <2>1. clean \in [Workers -> BOOLEAN]
    OBVIOUS
  <2>2. h' = [h EXCEPT !.pc = "assemble", !.cleanup = clean]
    BY <1>15 DEF CleanupEvidence
  <2> HIDE DEF clean
  <2>3. HarnessType'
    BY <2>1, <2>2 DEF HarnessType, Places
  <2>4. h'.pc = "assemble" /\ \A f \in {"failure", "session", "cycle", "round"} : h'[f] = h[f]
    BY <2>2 DEF HarnessType
  <2> QED BY <1>15, <2>3, <2>4 DEF CleanupEvidence, HarnessInv, Cleaning
<1>16. CASE Assemble
  <2>1. HarnessType'
    BY <1>16 DEF Assemble, HarnessType, Places
  <2>2. h'.pc = "done" /\ \A f \in {"failure", "session", "cycle", "round"} : h'[f] = h[f]
    BY <1>16 DEF Assemble, HarnessType
  <2> QED BY <1>16, <2>1, <2>2 DEF Assemble, HarnessInv, Cleaning
<1>17. CASE ~Harness
  BY <1>1, <1>17, HarnessStays
<1> QED BY <1>2, <1>3, <1>5, <1>6, <1>7, <1>8, <1>9, <1>10, <1>11, <1>12, <1>13, <1>14, <1>15, <1>16,
           <1>17 DEF Harness

------------------------------------------------------------------------------
(* Snapshots *)

\* A round goes on until the next one, or for good in a failed record.
LEMMA RoundGoesOn ==
  ASSUME HarnessType, HarnessInv, Next, InRound, ~NextRound
  PROVE  InRound'
<1>1. CASE ~Harness
  BY <1>1, HarnessStays DEF InRound, Cleaning
<1>2. CASE h.failure
  <2>1. h.pc \in {"close", "finish", "assemble", "done"}
    BY <1>2 DEF HarnessInv
  <2>2. CASE CloseSession
    BY <1>2, <2>2 DEF CloseSession, HarnessType, Raised, InRound
  <2>3. CASE CleanupEvidence \/ Assemble
    BY <1>2, <2>3 DEF CleanupEvidence, Assemble, HarnessType, InRound
  <2> QED BY <1>1, <2>1, <2>2, <2>3
           DEF Harness, Start, Establish, CleanFirst, CleanSecond, Gate, Load, AfterLoad, Poll,
               EndRound, NextRound, Score
<1>3. CASE ~h.failure /\ Harness
  <2>1. h.pc \in {"round", "next"} \/ (h.pc = "clean" /\ h.phase = "round")
    BY <1>3 DEF InRound, Cleaning
  <2>2. CASE h' = Raised(h)
    BY <2>2 DEF Raised, HarnessType, InRound
  <2>3. CASE CleanFirst \/ CleanSecond
    BY <2>1, <2>2, <2>3 DEF CleanFirst, CleanSecond, Cleaned, HarnessType, InRound, Cleaning
  <2>4. CASE EndRound
    BY <2>1, <2>2, <2>4 DEF EndRound, HarnessType, InRound, Cleaning
  <2>5. CASE \E w \in Workers : Poll(w)
    BY <2>1, <2>5 DEF Poll, HarnessType, InRound, Cleaning
  <2> QED BY <1>3, <2>1, <2>3, <2>4, <2>5
           DEF Harness, Start, Establish, Gate, Load, AfterLoad, NextRound, CloseSession, Score,
               CleanupEvidence, Assemble
<1> QED BY <1>1, <1>2, <1>3

\* How the snapshots of a worker change.
LEMMA ObsSteps ==
  ASSUME SnapshotType, Next
  PROVE  /\ DOMAIN obs' = Workers
         /\ \A w \in Workers :
              \/ obs'[w] = obs[w]
              \/ \E lost \in Lost : obs'[w] = Observe(w, lost)
              \/ Gate /\ obs'[w] = [obs[w] EXCEPT !.cycle = NoCycle]
              \/ NextRound /\ obs'[w] = [obs[w] EXCEPT !.events = << >>, !.joint = {}]
              \/ CloseSession /\ obs'[w] = NoSnapshots
<1>1. DOMAIN obs = Workers
  BY DEF SnapshotType
<1>2. CASE UNCHANGED obs
  BY <1>1, <1>2
<1>3. ASSUME NEW w \in Workers, Looks(w)
      PROVE  DOMAIN obs' = Workers /\ \A v \in Workers :
               obs'[v] = obs[v] \/ \E lost \in Lost : obs'[v] = Observe(v, lost)
  <2>1. PICK lost \in Lost : obs' = [obs EXCEPT ![w] = Observe(w, lost)]
    BY <1>3 DEF Looks
  <2> QED BY <1>1, <2>1
<1>4. CASE AfterLoad
  <2>1. "nothing" \in Lost
    BY DEF Lost
  <2> QED BY <1>2, <1>4, <2>1 DEF AfterLoad
<1>5. CASE Gate
  BY <1>5 DEF Gate
<1>6. CASE NextRound
  BY <1>6 DEF NextRound
<1>7. CASE CloseSession
  BY <1>1, <1>7 DEF CloseSession
<1>8. CASE ~Harness
  BY <1>2, <1>8, HarnessStays
<1>9. CASE CleanFirst \/ CleanSecond \/ \E w \in Workers : Poll(w)
  <2>1. 1 \in Workers /\ 2 \in Workers
    BY DEF Workers
  <2> QED BY <1>2, <1>3, <1>9, <2>1, LookSteps
<1>10. CASE Start \/ Establish \/ Load \/ EndRound \/ Score \/ CleanupEvidence \/ Assemble
  BY <1>2, <1>10 DEF Start, Establish, Load, EndRound, Score, CleanupEvidence, Assemble
<1> QED BY <1>4, <1>5, <1>6, <1>7, <1>8, <1>9, <1>10 DEF Harness

\* No snapshot shows an event that was not known.
LEMMA ObsView ==
  ASSUME Types, Next, NEW w \in Workers, EventsInv(w)
  PROVE  /\ EventsOf(w)' \subseteq Known(w)
         /\ \A s \in DOMAIN obs'[w].events : obs'[w].events[s].seq = s
         /\ obs'[w].joint \subseteq obs[w].joint \/ Rows(w) = Members
         /\ NextRound => EventsOf(w)' = {} /\ obs'[w].joint = {}
         /\ DOMAIN obs'[w] = {"events", "joint", "pids", "over", "cycle"}
         /\ obs'[w].joint \subseteq Joint
         /\ obs'[w].cycle \in [peak : Nat \cup {None},
                                lost : SUBSET {"process", "footprint", "allocator"}]
<1> DEFINE o == obs[w]
           p == obs'[w]
<1>1. /\ DOMAIN o = {"events", "joint", "pids", "over", "cycle"} /\ o.joint \subseteq Joint
      /\ o.cycle \in [peak : Nat \cup {None}, lost : SUBSET {"process", "footprint", "allocator"}]
      /\ \A s \in DOMAIN o.events : o.events[s].seq = s
  BY DEF Types, SnapshotType, EventsInv
<1>2. EventsOf(w)' = {p.events[s] : s \in DOMAIN p.events}
      /\ EventsOf(w) = {o.events[s] : s \in DOMAIN o.events}
  BY DEF EventsOf
<1>3. NoCycle \in [peak : Nat \cup {None}, lost : SUBSET {"process", "footprint", "allocator"}]
  BY DEF NoCycle
<1>4. CASE ~NextRound /\ p = o
  BY <1>1, <1>2, <1>4 DEF Known
<1>5. ASSUME ~NextRound, NEW lost \in Lost, p = Observe(w, lost)
      PROVE  EventsOf(w)' \subseteq Known(w)
             /\ (\A s \in DOMAIN p.events : p.events[s].seq = s)
             /\ (p.joint \subseteq o.joint \/ Rows(w) = Members)
             /\ DOMAIN p = {"events", "joint", "pids", "over", "cycle"} /\ p.joint \subseteq Joint
             /\ p.cycle \in [peak : Nat \cup {None}, lost : SUBSET {"process", "footprint", "allocator"}]
  BY <1>2, <1>5, ObserveFacts
<1>6. CASE ~NextRound /\ p = [o EXCEPT !.cycle = NoCycle]
  <2>1. p.events = o.events /\ p.joint = o.joint /\ p.cycle = NoCycle /\ DOMAIN p = DOMAIN o
    BY <1>1, <1>6
  <2> QED BY <1>1, <1>2, <1>3, <1>6, <2>1 DEF Known
<1>7. CASE NextRound /\ p = [o EXCEPT !.events = << >>, !.joint = {}]
  <2>1. p.events = << >> /\ p.joint = {} /\ p.cycle = o.cycle /\ DOMAIN p = DOMAIN o
    BY <1>1, <1>7
  <2>2. DOMAIN p.events = {} /\ EventsOf(w)' = {}
    BY <2>1, <1>2
  <2> QED BY <1>1, <1>7, <2>1, <2>2
<1>8. CASE ~NextRound /\ p = NoSnapshots
  <2>1. /\ p.events = << >> /\ p.joint = {} /\ p.cycle = NoCycle
        /\ DOMAIN p = {"events", "joint", "pids", "over", "cycle"}
    BY <1>8 DEF NoSnapshots
  <2>2. DOMAIN p.events = {} /\ EventsOf(w)' = {}
    BY <2>1, <1>2
  <2> QED BY <1>3, <1>8, <2>1, <2>2
<1>9. CASE NextRound
  <2>1. p = [o EXCEPT !.events = << >>, !.joint = {}]
    BY <1>9 DEF NextRound
  <2> QED BY <1>7, <1>9, <2>1
<1>10. CASE ~NextRound
  <2>1. SnapshotType
    BY DEF Types
  <2> QED BY <1>4, <1>5, <1>6, <1>8, <1>10, <2>1, ObsSteps
<1> QED BY <1>9, <1>10

\* All variables keep their types.
LEMMA TypesStep ==
  ASSUME Types, HarnessInv, Next, \A w \in Workers : EventsInv(w)
  PROVE  Types' /\ HarnessInv'
<1>1. WorkerType' /\ RequestType' /\ TruthType'
  BY WorkTypes
<1>2. HarnessType' /\ HarnessInv'
  BY HarnessStep DEF Types
<1>3. SnapshotType'
  <2>1. DOMAIN obs' = Workers
    BY ObsSteps DEF Types
  <2> QED BY <2>1, ObsView DEF SnapshotType
<1> QED BY <1>1, <1>2, <1>3 DEF Types

------------------------------------------------------------------------------
(* The steps as one worker sees them *)

\* The worker goes on as before, or its process or its stage goes: no event is
\* recorded.
Calm(v) ==
  /\ Logged(v)' \subseteq Logged(v)
  /\ worker'[v].clock = worker[v].clock
  /\ worker'[v].loaded => (worker[v].loaded \/ Load) /\ worker'[v].total = worker[v].total
  /\ \A r \in Members : \/ req'[v][r] = req[v][r]
                        \/ req[v][r] \in Held /\ req'[v][r] \in {"allocated"} \cup Over

Same(v) ==
  /\ worker'[v] = worker[v] /\ req'[v] = req[v]
  /\ truth'.together[v] = truth.together[v] /\ truth'.alone[v] = truth.alone[v]

\* What may happen to a worker in one step.
LEMMA WorkerSteps ==
  ASSUME Types, Next, NEW v \in Workers
  PROVE  \/ NextRound \/ Load \/ CloseSession \/ WorkerDies(v) \/ WorkerRestarts(v)
         \/ \E r \in Members : Admit(v, r) \/ Allocate(v, r)
         \/ \E r \in Members, how \in Over, reason \in Reasons : Retires(v, r, how, reason)
         \/ Same(v)
<1>1. WorkerType /\ RequestType /\ TruthType
  BY DEF Types
<1>2. ASSUME NEW w \in Workers, NEW r \in Members, Admit(w, r), w # v
      PROVE  Same(v)
  <2>1. worker'[v] = worker[v]
    BY <1>1, <1>2, AdmitFacts
  <2> QED BY <1>1, <1>2, <2>1 DEF Admit, RequestType, Same
<1>3. ASSUME NEW w \in Workers, NEW r \in Members, Allocate(w, r), w # v
      PROVE  Same(v)
  BY <1>1, <1>3 DEF Allocate, WorkerType, RequestType, TruthType, Same
<1>4. ASSUME NEW w \in Workers, NEW r \in Members, NEW how \in Over, NEW reason \in Reasons,
             Retires(w, r, how, reason), w # v
      PROVE  Same(v)
  <2>1. worker'[v] = worker[v]
    BY <1>1, <1>4, RecordFacts DEF Retires, Retire
  <2> QED BY <1>1, <1>4, <2>1 DEF Retires, Retire, RequestType, TruthType, Same
<1>5. CASE Requests
  BY <1>2, <1>3, <1>4, <1>5, RequestSteps DEF ClientStep, Same
<1>6. CASE Harness
  <2>1. CASE UNCHANGED <<worker, req, truth>>
    BY <2>1 DEF Same
  <2>2. CASE Score
    BY <1>1, <2>2 DEF Score, TruthType, Same
  <2> QED BY <1>6, <2>1, <2>2
           DEF Harness, Start, Establish, CleanFirst, CleanSecond, Gate, AfterLoad, EndRound,
               CleanupEvidence, Assemble, Poll
<1>7. ASSUME NEW w \in Workers, WorkerDies(w), w # v
      PROVE  Same(v)
  BY <1>1, <1>7, DiesFacts DEF WorkerDies, RequestType, Same
<1>8. ASSUME NEW w \in Workers, WorkerRestarts(w), w # v
      PROVE  Same(v)
  BY <1>1, <1>8, RestartFacts DEF WorkerRestarts, Same
<1> QED BY <1>5, <1>6, <1>7, <1>8 DEF Next, Processes

\* A step that records no event is calm.
LEMMA CalmSteps ==
  ASSUME Types, NEW v \in Workers,
         \/ Load \/ CloseSession \/ WorkerDies(v) \/ WorkerRestarts(v) \/ Same(v)
         \/ \E r \in Members : Allocate(v, r)
  PROVE  Calm(v)
<1>1. WorkerType /\ RequestType /\ worker[v] \in Process
  BY DEF Types, WorkerType
<1>2. CASE Same(v)
  BY <1>2 DEF Same, Calm, Logged
<1>3. CASE Load
  <2>1. worker'[v].log = worker[v].log /\ worker'[v].clock = worker[v].clock
        /\ worker'[v].total = worker[v].total
    BY <1>1, <1>3, LoadFacts
  <2> QED BY <1>3, <2>1 DEF Load, Calm, Logged
<1>4. CASE CloseSession
  <2>1. worker'[v] = [worker[v] EXCEPT !.loaded = @ /\ Table(v) # {}] /\ req' = req
    BY <1>4 DEF CloseSession
  <2>2. worker'[v].log = worker[v].log /\ worker'[v].clock = worker[v].clock
        /\ worker'[v].total = worker[v].total /\ (worker'[v].loaded => worker[v].loaded)
    BY <1>1, <2>1 DEF Process
  <2> QED BY <2>1, <2>2 DEF Calm, Logged
<1>5. CASE WorkerDies(v)
  <2>1. worker'[v].log = << >> /\ worker'[v].clock = worker[v].clock /\ worker'[v].loaded = FALSE
    BY <1>1, <1>5, DiesFacts
  <2>2. Logged(v)' = {}
    BY <2>1 DEF Logged, ToSet
  <2>3. \A r \in Members : req'[v][r] = IF req[v][r] \in Held THEN "failed" ELSE req[v][r]
    BY <1>1, <1>5 DEF WorkerDies, RequestType
  <2> QED BY <2>1, <2>2, <2>3 DEF Calm, Over
<1>6. CASE WorkerRestarts(v)
  <2>1. worker'[v] = [worker[v] EXCEPT !.up = TRUE, !.pid = @ + 1]
    BY <1>1, <1>6, RestartFacts
  <2>2. worker'[v].log = worker[v].log /\ worker'[v].clock = worker[v].clock
        /\ worker'[v].total = worker[v].total /\ worker'[v].loaded = worker[v].loaded
    BY <1>1, <2>1 DEF Process
  <2> QED BY <1>6, <2>2 DEF WorkerRestarts, Calm, Logged
<1>7. ASSUME NEW r \in Members, Allocate(v, r)
      PROVE  Calm(v)
  <2>1. worker'[v].log = worker[v].log /\ worker'[v].clock = worker[v].clock
        /\ worker'[v].total = worker[v].total /\ worker'[v].loaded = worker[v].loaded
    BY <1>1, <1>7 DEF Allocate, WorkerType, Process
  <2>2. \A q \in Members : req'[v][q] = IF q = r THEN "allocated" ELSE req[v][q]
    BY <1>1, <1>7 DEF Allocate, RequestType
  <2>3. req[v][r] = "allocating"
    BY <1>7 DEF Allocate
  <2> QED BY <2>1, <2>2, <2>3 DEF Calm, Logged, Held
<1> QED BY <1>2, <1>3, <1>4, <1>5, <1>6, <1>7

------------------------------------------------------------------------------
(* Events *)

\* With fewer events, and requests that only move on, what is known stays right.
LEMMA EventsKept ==
  ASSUME NEW v \in Workers, EventsInv(v),
         \A s \in DOMAIN obs'[v].events : obs'[v].events[s].seq = s,
         Known(v)' \subseteq Known(v),
         \/ Known(v)' = {}
         \/ /\ worker'[v].clock = worker[v].clock
            /\ worker'[v].loaded => worker[v].loaded /\ worker'[v].total = worker[v].total
            /\ \A r \in Members : \/ req'[v][r] = req[v][r]
                                  \/ req[v][r] \in Held /\ req'[v][r] \in {"allocated"} \cup Over
  PROVE  EventsInv(v)'
<1> DEFINE K == Known(v)
           L == Known(v)'
<1>1. Admitted(v)' = {e \in L : e.kind = "admitted"} /\ Retired(v)' = {e \in L : e.kind = "retired"}
  BY DEF Admitted, Retired
<1>2. Admitted(v) = {e \in K : e.kind = "admitted"} /\ Retired(v) = {e \in K : e.kind = "retired"}
  BY DEF Admitted, Retired
<1>3. CASE L = {}
  <2>1. Admitted(v)' = {} /\ Retired(v)' = {}
    BY <1>1, <1>3
  <2> QED BY <1>3, <2>1 DEF EventsInv
<1>4. CASE L # {}
  <2>1. L \subseteq Event
    BY DEF EventsInv
  <2>2. \A e, f \in L : e.seq = f.seq \/ (e.kind = f.kind /\ e.id = f.id) => e = f
    BY DEF EventsInv
  <2>3. \A e \in L : e.at <= worker'[v].clock /\ (worker'[v].loaded => e.seq <= worker'[v].total)
    BY <1>4 DEF EventsInv
  <2>4. \A e \in L : e.id \in Members
    BY <2>1 DEF Event
  <2>5. \A r \in Members : /\ req[v][r] # "none" => req'[v][r] # "none"
                           /\ req[v][r] \in Over => req'[v][r] = req[v][r]
    BY <1>4 DEF Held, Over
  <2>6. 2 \in Members
    BY DEF Members
  <2> HIDE DEF K, L
  <2>7. \A e \in Admitted(v)' : req'[v][e.id] # "none"
    BY <1>1, <1>2, <2>4, <2>5 DEF EventsInv, K, L
  <2>8. \A e \in Retired(v)' : req'[v][e.id] \in Over
    BY <1>1, <1>2, <2>4, <2>5 DEF EventsInv, K, L
  <2>9. \A e \in Retired(v)' : e.id = 2 /\ e.reason = "completed" => req'[v][2] = "completed"
    BY <1>1, <1>2, <2>5, <2>6 DEF EventsInv, K, L, Over
  <2> QED BY <2>1, <2>2, <2>3, <2>7, <2>8, <2>9 DEF EventsInv, L
<1> QED BY <1>3, <1>4

\* One event more, of a request that did not have it.
LEMMA EventsAdded ==
  ASSUME Types, NEW v \in Workers, EventsInv(v), NEW r \in Members, NEW e \in Event,
         obs' = obs, Known(v)' \subseteq Known(v) \cup {e},
         worker[v].loaded, worker'[v].loaded = worker[v].loaded,
         e.id = r, e.seq = worker[v].total + 1, e.at = worker[v].clock + 1,
         worker'[v].total = worker[v].total + 1, worker'[v].clock = worker[v].clock + 1,
         \A q \in Members : q # r => req'[v][q] = req[v][q],
         e.kind = "admitted" => req[v][r] = "none" /\ req'[v][r] = "allocating",
         e.kind = "retired" => /\ req[v][r] \in Held /\ req'[v][r] \in Over
                               /\ e.reason = "completed" => req'[v][r] = "completed"
  PROVE  EventsInv(v)'
<1> DEFINE K == Known(v)
           L == Known(v)'
<1>1. Admitted(v)' = {f \in L : f.kind = "admitted"} /\ Retired(v)' = {f \in L : f.kind = "retired"}
  BY DEF Admitted, Retired
<1>2. Admitted(v) = {f \in K : f.kind = "admitted"} /\ Retired(v) = {f \in K : f.kind = "retired"}
  BY DEF Admitted, Retired
<1>3. worker[v].total \in Nat /\ worker[v].clock \in Nat
  BY DEF Types, WorkerType, Process
<1>4. L \subseteq Event
  BY DEF EventsInv
<1>5. \A f \in Event : f.kind \in {"admitted", "retired"} /\ f.id \in Members /\ f.seq \in Nat /\ f.at \in Nat
  BY DEF Event
<1>6. \A f \in K : /\ f.seq <= worker[v].total /\ f.at <= worker[v].clock
                   /\ f.kind = "admitted" => req[v][f.id] # "none"
                   /\ f.kind = "retired" => req[v][f.id] \in Over
                   /\ f \in Event
  BY <1>2 DEF EventsInv
<1>7. \A f \in K : f.seq # e.seq /\ ~(f.kind = e.kind /\ f.id = e.id)
  <2> TAKE f \in K
  <2>1. f.seq # e.seq
    BY <1>3, <1>5, <1>6
  <2>2. ~(f.kind = e.kind /\ f.id = e.id)
    BY <1>5, <1>6 DEF Held, Over
  <2> QED BY <2>1, <2>2
<1> HIDE DEF K, L
<1>8. \A d, f \in L : d.seq = f.seq \/ (d.kind = f.kind /\ d.id = f.id) => d = f
  <2>1. \A d, f \in K : d.seq = f.seq \/ (d.kind = f.kind /\ d.id = f.id) => d = f
    BY DEF EventsInv, K
  <2>2. L \subseteq K \cup {e}
    BY DEF K, L
  <2> QED BY <1>7, <2>1, <2>2, Zenon
<1>9. \A f \in L : f.at <= worker'[v].clock /\ (worker'[v].loaded => f.seq <= worker'[v].total)
  BY <1>3, <1>5, <1>6 DEF K, L
<1>10. \A f \in Admitted(v)' : req'[v][f.id] # "none"
  BY <1>1, <1>4, <1>5, <1>6 DEF K, L, Held, Over
<1>11. \A f \in Retired(v)' : req'[v][f.id] \in Over
  <2> SUFFICES ASSUME NEW f \in L, f.kind = "retired" PROVE req'[v][f.id] \in Over
    BY <1>1
  <2>1. CASE f = e
    BY <2>1
  <2>2. CASE f \in K
    <3>1. req[v][f.id] \in Over /\ f.id \in Members
      BY <1>4, <1>5, <1>6, <2>2
    <3>2. f.id # r
      <4>1. CASE e.kind = "retired"
        BY <1>7, <2>2, <4>1
      <4>2. CASE e.kind = "admitted"
        BY <3>1, <4>2 DEF Over
      <4> QED BY <1>5, <4>1, <4>2
    <3> QED BY <3>1, <3>2
  <2> QED BY <2>1, <2>2 DEF K, L
<1>12. \A f \in Retired(v)' : f.id = 2 /\ f.reason = "completed" => req'[v][2] = "completed"
  <2> SUFFICES ASSUME NEW f \in L, f.kind = "retired", f.id = 2, f.reason = "completed"
               PROVE  req'[v][2] = "completed"
    BY <1>1
  <2>1. CASE f = e
    BY <2>1
  <2>2. CASE f \in K
    <3>1. req[v][2] = "completed" /\ 2 \in Members
      BY <1>2, <2>2 DEF EventsInv, Members
    <3>2. r # 2
      <4>1. CASE e.kind = "retired"
        BY <1>7, <2>2, <4>1
      <4>2. CASE e.kind = "admitted"
        BY <3>1, <4>2
      <4> QED BY <1>5, <4>1, <4>2
    <3> QED BY <3>1, <3>2
  <2> QED BY <2>1, <2>2 DEF K, L
<1>13. \A s \in DOMAIN obs'[v].events : obs'[v].events[s].seq = s
  BY DEF EventsInv
<1> QED BY <1>4, <1>8, <1>9, <1>10, <1>11, <1>12, <1>13 DEF EventsInv, L

\* A calm step shows and loses events, it adds none.
LEMMA KnownKept ==
  ASSUME Types, Next, NEW v \in Workers, EventsInv(v), Logged(v)' \subseteq Logged(v)
  PROVE  Known(v)' \subseteq Known(v)
<1>1. EventsOf(v)' \subseteq Known(v)
  BY ObsView
<1> QED BY <1>1 DEF Known

\* An admission and a retirement add their event.
LEMMA KnownGrows ==
  ASSUME NEW v \in Workers, NEW e, obs' = obs, ToSet(worker'[v].log) \subseteq ToSet(worker[v].log) \cup {e}
  PROVE  Known(v)' \subseteq Known(v) \cup {e} /\ EventsOf(v)' = EventsOf(v)
BY DEF Known, Logged, EventsOf

\* A retirement records its event.
LEMMA RetireFacts ==
  ASSUME Types, NEW w \in Workers, NEW r \in Members, NEW how \in Over, NEW reason \in Reasons,
         Retires(w, r, how, reason)
  PROVE  /\ \A f \in {"up", "pid", "loaded", "peak"} : worker'[w][f] = worker[w][f]
         /\ worker'[w].total = worker[w].total + 1 /\ worker'[w].clock = worker[w].clock + 1
         /\ ToSet(worker'[w].log) \subseteq ToSet(worker[w].log) \cup {NewEvent(w, "retired", r, reason)}
         /\ NewEvent(w, "retired", r, reason) \in Event
         /\ \A q \in Members : req'[w][q] = IF q = r THEN how ELSE req[w][q]
         /\ obs' = obs /\ h' = h
<1>1. PICK kind \in {"admitted", "retired"} : kind = "retired"
  OBVIOUS
<1>2. worker' = record_lifecycle(w, kind, r, reason)
  BY <1>1 DEF Retires, Retire
<1>3. WorkerType
  BY DEF Types
<1>6. PICK W : W = record_lifecycle(w, kind, r, reason)
  OBVIOUS
<1>4. /\ W \in [Workers -> Process]
      /\ \A v \in Workers : v # w => W[v] = worker[v]
      /\ \A f \in {"up", "pid", "loaded", "admitted", "peak"} : W[w][f] = worker[w][f]
      /\ W[w].total = worker[w].total + 1 /\ W[w].clock = worker[w].clock + 1
      /\ ToSet(W[w].log) \subseteq ToSet(worker[w].log) \cup {NewEvent(w, kind, r, reason)}
      /\ NewEvent(w, kind, r, reason) \in Event
  BY <1>3, <1>6, RecordFacts
<1>5. \A q \in Members : req'[w][q] = IF q = r THEN how ELSE req[w][q]
  BY DEF Retires, Retire, Types, RequestType
<1> QED BY <1>1, <1>2, <1>4, <1>5, <1>6 DEF Retires, Retire

\* A round starts with no events, requests or answers.
LEMMA NextRoundFacts ==
  ASSUME Types, Next, NEW v \in Workers, EventsInv(v), NextRound
  PROVE  /\ Known(v)' = {} /\ Table(v)' = {} /\ Rows(v)' = {} /\ obs'[v].joint = {}
         /\ \A r \in Members : got'[r] = "none" /\ req'[v][r] = "none"
         /\ truth'.together[v] = FALSE
<1>1. worker'[v] = [worker[v] EXCEPT !.log = [i \in DOMAIN worker[v].log |-> [kind |-> "old"]]]
  BY DEF NextRound
<1>2. worker[v] \in Process
  BY DEF Types, WorkerType
<1>3. worker'[v].log = [i \in DOMAIN worker[v].log |-> [kind |-> "old"]]
  BY <1>1, <1>2 DEF Process
<1>4. Logged(v)' = {}
  <2>1. \A e \in ToSet(worker'[v].log) : e.kind = "old"
    BY <1>3 DEF ToSet
  <2> QED BY <2>1 DEF Logged
<1>5. EventsOf(v)' = {} /\ obs'[v].joint = {}
  BY ObsView
<1>6. \A r \in Members : got'[r] = "none" /\ req'[v][r] = "none"
  BY DEF NextRound, NoRequests, NoTokens
<1>7. truth'.together[v] = FALSE
  BY DEF NextRound, Unearned
<1> QED BY <1>4, <1>5, <1>6, <1>7 DEF Known, Table, Rows, Held

\* The events of a worker stay those of its requests.
LEMMA EventsStep ==
  ASSUME Types, HarnessInv, WorkersInv, RoundsInv, Next, NEW v \in Workers, EventsInv(v)
  PROVE  EventsInv(v)'
<1>1. \A s \in DOMAIN obs'[v].events : obs'[v].events[s].seq = s
  BY ObsView
<1>2. CASE NextRound
  <2>1. Known(v)' = {}
    BY <1>2, NextRoundFacts
  <2> QED BY <1>1, <2>1, EventsKept
<1>3. CASE Calm(v)
  <2>1. Known(v)' \subseteq Known(v)
    BY <1>3, KnownKept DEF Calm
  <2>2. CASE Load
    <3>1. ~InRound
      BY <2>2 DEF Load, InRound, HarnessInv, Cleaning
    <3>2. Known(v)' = {}
      BY <2>1, <3>1 DEF RoundsInv
    <3> QED BY <1>1, <2>1, <3>2, EventsKept
  <2>3. CASE ~Load
    <3>1. /\ worker'[v].clock = worker[v].clock
          /\ worker'[v].loaded => worker[v].loaded /\ worker'[v].total = worker[v].total
          /\ \A r \in Members : \/ req'[v][r] = req[v][r]
                                \/ req[v][r] \in Held /\ req'[v][r] \in {"allocated"} \cup Over
      BY <1>3, <2>3 DEF Calm
    <3> QED BY <1>1, <2>1, <3>1, EventsKept
  <2> QED BY <2>2, <2>3
<1>4. ASSUME NEW r \in Members, Admit(v, r)
      PROVE  EventsInv(v)'
  <2> DEFINE e == NewEvent(v, "admitted", r, "")
  <2>1. WorkerType /\ RequestType
    BY DEF Types
  <2>2. e.kind = "admitted" /\ e.id = r /\ e.seq = worker[v].total + 1 /\ e.at = worker[v].clock + 1
    BY DEF NewEvent
  <2>3. /\ e \in Event /\ worker'[v].loaded = worker[v].loaded
        /\ worker'[v].total = worker[v].total + 1 /\ worker'[v].clock = worker[v].clock + 1
        /\ ToSet(worker'[v].log) \subseteq ToSet(worker[v].log) \cup {e}
    BY <1>4, <2>1, AdmitFacts
  <2> HIDE DEF e
  <2>4. obs' = obs /\ worker[v].loaded /\ req[v][r] = "none"
        /\ \A q \in Members : req'[v][q] = IF q = r THEN "allocating" ELSE req[v][q]
    BY <1>4, <2>1 DEF Admit, RequestType
  <2>5. Known(v)' \subseteq Known(v) \cup {e}
    BY <2>3, <2>4, KnownGrows
  <2> QED BY <2>2, <2>3, <2>4, <2>5, EventsAdded
<1>5. ASSUME NEW r \in Members, NEW how \in Over, NEW reason \in Reasons, Retires(v, r, how, reason)
      PROVE  EventsInv(v)'
  <2> DEFINE e == NewEvent(v, "retired", r, reason)
  <2>2. /\ e.kind = "retired" /\ e.id = r /\ e.seq = worker[v].total + 1 /\ e.at = worker[v].clock + 1
        /\ e.reason = reason
    BY DEF NewEvent
  <2>3. /\ e \in Event /\ worker'[v].loaded = worker[v].loaded
        /\ worker'[v].total = worker[v].total + 1 /\ worker'[v].clock = worker[v].clock + 1
        /\ ToSet(worker'[v].log) \subseteq ToSet(worker[v].log) \cup {e}
        /\ obs' = obs /\ \A q \in Members : req'[v][q] = IF q = r THEN how ELSE req[v][q]
    BY <1>5, RetireFacts
  <2> HIDE DEF e
  <2>4. /\ req[v][r] \in Held /\ (reason = "completed" => how = "completed")
    BY <1>5 DEF Retires, Held
  <2>5. worker[v].loaded
    BY <2>4 DEF WorkersInv, Table
  <2>6. Known(v)' \subseteq Known(v) \cup {e}
    BY <2>3, KnownGrows
  <2> QED BY <2>2, <2>3, <2>4, <2>5, <2>6, EventsAdded
<1> QED BY <1>2, <1>3, <1>4, <1>5, WorkerSteps, CalmSteps

\* Events and requests stay those of the round under way.
LEMMA RoundsStep ==
  ASSUME Types, HarnessInv, WorkersInv, RoundsInv, Next, \A w \in Workers : EventsInv(w)
  PROVE  RoundsInv'
<1> SUFFICES ASSUME NEW v \in Workers, Known(v)' # {} \/ Table(v)' # {}
             PROVE  InRound'
  BY DEF RoundsInv
<1>1. HarnessType
  BY DEF Types
<1>2. ~NextRound
  BY NextRoundFacts
<1>3. InRound
  <2>1. CASE Known(v) # {} \/ Table(v) # {}
    BY <2>1 DEF RoundsInv
  <2>2. CASE \E r \in Members : Admit(v, r)
    BY <2>2 DEF Admit, InRound
  <2>3. CASE Calm(v) /\ Known(v) = {} /\ Table(v) = {}
    <3>1. Known(v)' = {}
      BY <2>3, KnownKept DEF Calm
    <3>2. Table(v)' = {}
      BY <2>3 DEF Calm, Table, Held
    <3> QED BY <3>1, <3>2
  <2>4. ASSUME NEW r \in Members, NEW how \in Over, NEW reason \in Reasons, Retires(v, r, how, reason)
        PROVE  InRound
    <3>1. r \in Table(v)
      BY <2>4 DEF Retires, Table
    <3> QED BY <3>1 DEF RoundsInv
  <2> QED BY <1>2, <2>1, <2>2, <2>3, <2>4, WorkerSteps, CalmSteps
<1> QED BY <1>1, <1>2, <1>3, RoundGoesOn

------------------------------------------------------------------------------
(* Requests and their clients *)

\* The round changes when a session is opened and when the next round begins.
LEMMA RoundStays ==
  ASSUME HarnessType, Next, ~Load, ~NextRound
  PROVE  h'.round = h.round
<1>1. CASE ~Harness
  BY <1>1, HarnessStays
<1>2. CASE h' \in {Raised(h), Raised([h EXCEPT !.session = FALSE]), Raised([h EXCEPT !.cycle = @ + 1])}
  BY <1>2 DEF Raised, HarnessType
<1>3. CASE Start \/ Establish \/ EndRound \/ AfterLoad \/ CleanupEvidence \/ Assemble
  BY <1>2, <1>3 DEF Start, Establish, EndRound, AfterLoad, CleanupEvidence, Assemble, HarnessType
<1>4. CASE CleanFirst \/ CleanSecond
  BY <1>2, <1>4 DEF CleanFirst, CleanSecond, Cleaned, HarnessType
<1>5. CASE Gate
  BY <1>2, <1>5 DEF Gate, HarnessType
<1>6. CASE CloseSession
  BY <1>2, <1>6 DEF CloseSession, HarnessType
<1>7. CASE Score
  <2>1. PICK device \in {None, Resident, worker[1].peak}, available \in [Workers -> FittingBudgets] :
          h' = Scored(available, device)
    BY <1>7, ScoreFacts
  <2> QED BY <2>1 DEF Scored, HarnessType
<1>8. CASE \E w \in Workers : Poll(w)
  BY <1>8 DEF Poll, HarnessType
<1> QED BY <1>1, <1>3, <1>4, <1>5, <1>6, <1>7, <1>8 DEF Harness

\* A request that was allocated or is over does not become new again.
LEMMA RequestGoesOn ==
  ASSUME Types, Next, ~NextRound, NEW v \in Workers, NEW r \in Members
  PROVE  /\ req[v][r] \notin {"none", "allocating"} => req'[v][r] \notin {"none", "allocating"}
         /\ req[v][r] \in Over => req'[v][r] = req[v][r]
<1>1. RequestType
  BY DEF Types
<1>2. CASE Calm(v)
  BY <1>2 DEF Calm, Held, Over
<1>3. ASSUME NEW q \in Members, Admit(v, q)
      PROVE  /\ req[v][r] \notin {"none", "allocating"} => req'[v][r] \notin {"none", "allocating"}
             /\ req[v][r] \in Over => req'[v][r] = req[v][r]
  BY <1>1, <1>3 DEF Admit, RequestType, Over
<1>4. ASSUME NEW q \in Members, NEW how \in Over, NEW reason \in Reasons, Retires(v, q, how, reason)
      PROVE  /\ req[v][r] \notin {"none", "allocating"} => req'[v][r] \notin {"none", "allocating"}
             /\ req[v][r] \in Over => req'[v][r] = req[v][r]
  <2>1. req'[v][r] = IF r = q THEN how ELSE req[v][r]
    BY <1>4, RetireFacts
  <2>2. req[v][q] \in Held
    BY <1>4 DEF Retires
  <2> QED BY <2>1, <2>2 DEF Over, Held
<1> QED BY <1>2, <1>3, <1>4, WorkerSteps, CalmSteps

\* What a client gets: a final answer stays, a stream is the victim's.
LEMMA AnswerSteps ==
  ASSUME Types, RoundsInv, ClientsInv, Next, ~NextRound, NEW r \in Members
  PROVE  /\ got[r] \in {"exact", "closed"} => got'[r] = got[r]
         /\ got'[r] = "exact" => got[r] = "exact" \/ req'[1][r] = "completed"
         /\ got'[r] \in {"prefix", "closed"} =>
              req[1][r] \notin {"none", "allocating"} /\ Victim(r) /\ InRound
<1>1. RequestType /\ 1 \in Workers
  BY DEF Types, Workers
<1>2. CASE got' = got
  BY <1>2 DEF ClientsInv
<1>3. ASSUME NEW w \in Workers, NEW q \in Members, NEW how \in Over, NEW reason \in Reasons,
             Retires(w, q, how, reason)
      PROVE  /\ got[r] \in {"exact", "closed"} => got'[r] = got[r]
             /\ got'[r] = "exact" => got[r] = "exact" \/ req'[1][r] = "completed"
             /\ got'[r] \in {"prefix", "closed"} =>
                  req[1][r] \notin {"none", "allocating"} /\ Victim(r) /\ InRound
  <2>1. CASE got'[r] = got[r]
    BY <2>1 DEF ClientsInv
  <2>2. CASE got'[r] # got[r]
    <3>1. /\ w = 1 /\ q = r /\ got'[r] \in {"exact", "inexact", "error"}
          /\ got[r] = "closed" => req[1][r] = "allocating" \/ ~Victim(r)
          /\ got'[r] = "exact" => how = "completed"
          /\ req[1][r] \in Held
      BY <1>3, <2>2 DEF Retires
    <3>2. req'[1][r] = how
      BY <1>3, <3>1, RetireFacts
    <3>3. got[r] \notin {"exact", "closed"}
      BY <3>1 DEF ClientsInv, Held
    <3> QED BY <3>1, <3>2, <3>3
  <2> QED BY <2>1, <2>2
<1>4. CASE ClientStep
  <2>1. PICK q \in Members : Deliver(q) \/ Close(q) \/ Unreachable(q)
    BY <1>4 DEF ClientStep
  <2>2. CASE Unreachable(q)
    BY <1>1, <2>2 DEF Unreachable, RequestType, ClientsInv
  <2>3. CASE Close(q)
    BY <1>1, <2>3 DEF Close, RequestType, ClientsInv
  <2>4. CASE Deliver(q)
    <3>1. req[1][q] = "allocated" /\ Victim(q) /\ got[q] = "none"
      BY <1>1, <2>4 DEF Deliver
    <3>2. q \in Table(1)
      BY <3>1 DEF Table, Held
    <3>3. InRound
      BY <1>1, <3>2 DEF RoundsInv
    <3>4. got'[r] = IF r = q THEN "prefix" ELSE got[r]
      BY <1>1, <2>4 DEF Deliver, RequestType
    <3> QED BY <3>1, <3>3, <3>4 DEF ClientsInv
  <2> QED BY <2>1, <2>2, <2>3, <2>4
<1>5. ASSUME NEW w \in Workers, WorkerDies(w)
      PROVE  /\ got[r] \in {"exact", "closed"} => got'[r] = got[r]
             /\ got'[r] = "exact" => got[r] = "exact"
             /\ got'[r] \in {"prefix", "closed"} => got'[r] = got[r]
  <2>1. got'[r] = IF w = 1 /\ req[1][r] \in Held /\ got[r] # "closed" THEN "error" ELSE got[r]
    BY <1>5 DEF WorkerDies
  <2> QED BY <2>1 DEF ClientsInv, Held
<1>6. CASE Requests
  <2>1. CASE \E w \in Workers, q \in Members : Admit(w, q) \/ Allocate(w, q)
    BY <1>2, <2>1 DEF Admit, Allocate
  <2> QED BY <1>3, <1>4, <1>6, <2>1, RequestSteps
<1>7. CASE Harness
  BY <1>2, <1>7 DEF Harness, Start, Establish, CleanFirst, CleanSecond, Gate, Load, AfterLoad, EndRound,
                    CloseSession, Score, CleanupEvidence, Assemble, Poll
<1>8. CASE \E w \in Workers : WorkerRestarts(w)
  BY <1>2, <1>8 DEF WorkerRestarts
<1>9. CASE \E w \in Workers : WorkerDies(w)
  BY <1>5, <1>9 DEF ClientsInv
<1> QED BY <1>6, <1>7, <1>8, <1>9 DEF Next, Processes

\* The harness waits for the workers of a round whose answers are right.
LEMMA RoundIsAnswered ==
  ASSUME Types, ClientsInv, Next, ~NextRound, h'.pc = "next" \/ (h'.pc = "clean" /\ h'.phase = "round")
  PROVE  /\ \A r \in Ids : got[r] \in {"exact", "closed"}
         /\ h'.round = h.round
<1>1. HarnessType
  BY DEF Types
<1>2. CASE h' = h
  BY <1>2 DEF ClientsInv, Cleaning
<1>3. h' \notin {Raised(h), Raised([h EXCEPT !.session = FALSE]), Raised([h EXCEPT !.cycle = @ + 1])}
  BY <1>1 DEF Raised, HarnessType
<1>4. CASE EndRound
  <2>1. \A r \in Ids : got[r] \in {"exact", "closed"}
    BY <1>3, <1>4 DEF EndRound
  <2> QED BY <1>1, <1>4, <2>1, RoundStays DEF EndRound, Load
<1>5. CASE CleanFirst \/ CleanSecond
  <2>1. h.pc = "clean"
    BY <1>5 DEF CleanFirst, CleanSecond
  <2>2. h.phase = "round" /\ h'.round = h.round
    BY <1>1, <1>3, <1>5 DEF CleanFirst, CleanSecond, Cleaned, HarnessType
  <2> QED BY <2>1, <2>2 DEF ClientsInv, Cleaning
<1>6. CASE \E w \in Workers : Poll(w)
  <2>1. h.pc = "round" /\ h'.pc = h.pc
    BY <1>1, <1>2, <1>6 DEF Poll, HarnessType
  <2> QED BY <2>1
<1>7. CASE Start \/ Establish \/ CleanupEvidence \/ Assemble \/ Load \/ AfterLoad
  BY <1>1, <1>3, <1>7 DEF Start, Establish, CleanupEvidence, Assemble, Load, AfterLoad, HarnessType
<1>8. CASE Gate \/ CloseSession
  BY <1>1, <1>3, <1>8 DEF Gate, CloseSession, HarnessType
<1>9. CASE Score
  <2>1. PICK device \in {None, Resident, worker[1].peak}, available \in [Workers -> FittingBudgets] :
          h' = Scored(available, device)
    BY <1>9, ScoreFacts
  <2> QED BY <1>1, <2>1 DEF Scored, HarnessType
<1>10. CASE ~Harness
  BY <1>2, <1>10, HarnessStays
<1> QED BY <1>4, <1>5, <1>6, <1>7, <1>8, <1>9, <1>10 DEF Harness

\* What the clients have stays what the driver gave them.
LEMMA ClientsStep ==
  ASSUME Types, HarnessInv, RoundsInv, ClientsInv, Next, \A w \in Workers : EventsInv(w)
  PROVE  ClientsInv'
<1>1. HarnessType /\ 1 \in Workers
  BY DEF Types, Workers
<1>2. CASE NextRound
  <2>1. \A r \in Members : got'[r] = "none"
    BY <1>1, <1>2, NextRoundFacts
  <2>2. h'.pc \in {"round", "close"}
    BY <1>1, <1>2 DEF NextRound, HarnessType
  <2> QED BY <2>1, <2>2 DEF ClientsInv, Cleaning
<1>3. CASE ~NextRound
  <2>1. ASSUME NEW r \in Members, got'[r] \in {"prefix", "closed"}
        PROVE  req'[1][r] \notin {"none", "allocating"} /\ Victim(r)' /\ InRound'
    <3>1. req[1][r] \notin {"none", "allocating"} /\ Victim(r) /\ InRound
      BY <1>3, <2>1, AnswerSteps
    <3>2. req'[1][r] \notin {"none", "allocating"}
      BY <1>1, <1>3, <3>1, RequestGoesOn
    <3>3. InRound'
      BY <1>1, <1>3, <3>1, RoundGoesOn
    <3>4. ~Load
      BY <3>1 DEF Load, InRound, HarnessInv, Cleaning
    <3>5. Victim(r)'
      BY <1>1, <1>3, <3>1, <3>4, RoundStays DEF Victim, Kind
    <3> QED BY <3>2, <3>3, <3>5
  <2>2. ASSUME NEW r \in Members, got'[r] = "exact"
        PROVE  req'[1][r] = "completed"
    <3>1. CASE got[r] = "exact"
      <4>1. req[1][r] = "completed"
        BY <3>1 DEF ClientsInv
      <4> QED BY <1>1, <1>3, <4>1, RequestGoesOn DEF Over
    <3> QED BY <1>3, <2>2, <3>1, AnswerSteps
  <2>3. ASSUME h'.pc = "next" \/ Cleaning("round")'
        PROVE  \A r \in Ids' : got'[r] \in {"exact", "closed"}
    <3>1. (\A r \in Ids : got[r] \in {"exact", "closed"}) /\ h'.round = h.round
      BY <1>3, <2>3, RoundIsAnswered DEF Cleaning
    <3>2. Ids' = Ids /\ Ids \subseteq Members
      BY <3>1 DEF Ids, Kind, Members
    <3>3. \A r \in Ids : got'[r] = got[r]
      BY <1>3, <3>1, <3>2, AnswerSteps
    <3> QED BY <3>1, <3>2, <3>3
  <2> QED BY <2>1, <2>2, <2>3 DEF ClientsInv
<1> QED BY <1>2, <1>3

------------------------------------------------------------------------------
(* What the harness was told of the workers *)

\* The processes are noted once, and what is left of them at the end.
LEMMA NotesStay ==
  ASSUME HarnessType, Next
  PROVE  /\ ~Establish => h'.process = h.process
         /\ ~CleanupEvidence => h'.cleanup = h.cleanup
<1>1. CASE ~Harness
  BY <1>1, HarnessStays
<1>2. CASE h' \in {Raised(h), Raised([h EXCEPT !.session = FALSE]), Raised([h EXCEPT !.cycle = @ + 1])}
  BY <1>2 DEF Raised, HarnessType
<1>3. CASE Start \/ Establish \/ EndRound \/ AfterLoad \/ Assemble \/ Load
  BY <1>2, <1>3 DEF Start, Establish, EndRound, AfterLoad, Assemble, Load, HarnessType
<1>4. CASE CleanFirst \/ CleanSecond
  BY <1>2, <1>4 DEF CleanFirst, CleanSecond, Cleaned, HarnessType
<1>5. CASE Gate
  BY <1>2, <1>5 DEF Gate, HarnessType
<1>6. CASE CloseSession \/ CleanupEvidence \/ NextRound
  BY <1>2, <1>6 DEF CloseSession, CleanupEvidence, NextRound, HarnessType
<1>7. CASE Score
  <2>1. PICK device \in {None, Resident, worker[1].peak}, available \in [Workers -> FittingBudgets] :
          h' = Scored(available, device)
    BY <1>7, ScoreFacts
  <2> QED BY <2>1 DEF Scored, HarnessType
<1>8. CASE \E w \in Workers : Poll(w)
  BY <1>8 DEF Poll, HarnessType
<1> QED BY <1>1, <1>3, <1>4, <1>5, <1>6, <1>7, <1>8 DEF Harness

\* How the harness comes to be cleaning, scoring and assembling.
LEMMA PlaceSteps ==
  ASSUME HarnessType, WorkersInv, Next
  PROVE  /\ h'.looked =>
              \/ h.looked /\ h'.pc = h.pc /\ h'.idle = h.idle /\ h'.phase = h.phase /\ ~Harness
              \/ /\ CleanFirst /\ Looks(1) /\ worker[1].up
                 /\ h'.pc = "clean" /\ h'.phase = h.phase /\ h'.idle = Idle(1)
         /\ h'.pc = "scored" =>
              \/ h.pc = "scored" /\ ~Harness
              \/ CleanSecond /\ Looks(2) /\ h.pc = "clean" /\ h.phase = "idle" /\ h.looked /\ h.idle /\ Idle(2)
         /\ h'.pc \in {"assemble", "done"} =>
              \/ h.pc \in {"assemble", "done"}
              \/ CleanupEvidence /\ h'.cleanup =
                   [w \in Workers |-> worker[w].up /\ Table(w) = {} /\ ~worker[w].loaded]
<1>1. CASE ~Harness
  BY <1>1, HarnessStays
<1>2. CASE h' \in {Raised(h), Raised([h EXCEPT !.session = FALSE]), Raised([h EXCEPT !.cycle = @ + 1])}
  BY <1>2 DEF Raised, HarnessType
<1>3. CASE EndRound \/ AfterLoad \/ Load
  <2>1. CASE h' \in {[h EXCEPT !.pc = "clean", !.phase = "round"], [h EXCEPT !.pc = "round"],
                     [h EXCEPT !.pc = "loaded", !.round = 1, !.session = TRUE]}
    <3>1. h'.looked = h.looked /\ h'.pc \in {"clean", "round", "loaded"}
      BY <2>1 DEF HarnessType
    <3>2. ~h.looked
      BY <1>3 DEF EndRound, AfterLoad, Load, WorkersInv
    <3> QED BY <3>1, <3>2
  <2> QED BY <1>2, <1>3, <2>1 DEF EndRound, AfterLoad, Load
<1>11. CASE Start \/ Establish \/ Assemble
  BY <1>11 DEF Start, Establish, Assemble, HarnessType, WorkersInv
<1>4. CASE CleanFirst
  <2>1. CASE h' = [h EXCEPT !.looked = TRUE, !.idle = Idle(1)]
    <3>1. h'.pc = "clean" /\ h'.phase = h.phase /\ h'.idle = Idle(1)
      BY <1>4, <2>1 DEF HarnessType, CleanFirst
    <3>2. Looks(1) /\ worker[1].up
      <4>1. CASE h' = Raised(h)
        BY <2>1, <4>1 DEF Raised, HarnessType
      <4> QED BY <1>4, <4>1, LookSteps
    <3> QED BY <1>4, <3>1, <3>2
  <2> QED BY <1>2, <1>4, <2>1 DEF CleanFirst
<1>5. CASE CleanSecond
  <2>1. CASE h.idle /\ Idle(2) /\ h' = Cleaned
    <3>1. h'.looked = FALSE /\ h'.pc \notin {"assemble", "done"} /\ (h'.pc = "scored" => h.phase = "idle")
      BY <1>5, <2>1 DEF HarnessType, CleanSecond, Cleaned
    <3>2. h'.failure = h.failure
      BY <2>1 DEF Cleaned, HarnessType
    <3>3. Looks(2) \/ h' = Raised(h)
      BY <1>5, LookSteps
    <3> QED BY <1>2, <1>5, <2>1, <3>1, <3>3 DEF CleanSecond
  <2>2. CASE h' = [h EXCEPT !.looked = FALSE]
    BY <1>5, <2>2 DEF CleanSecond, HarnessType
  <2> QED BY <1>2, <1>5, <2>1, <2>2 DEF CleanSecond
<1>6. CASE Gate
  BY <1>2, <1>6 DEF Gate, HarnessType, WorkersInv
<1>7. CASE CloseSession \/ NextRound
  BY <1>2, <1>7 DEF CloseSession, NextRound, HarnessType, WorkersInv
<1>8. CASE CleanupEvidence
  BY <1>8 DEF CleanupEvidence, HarnessType, WorkersInv
<1>9. CASE Score
  <2>1. PICK device \in {None, Resident, worker[1].peak}, available \in [Workers -> FittingBudgets] :
          h' = Scored(available, device)
    BY <1>9, ScoreFacts
  <2>2. h.pc = "scored"
    BY <1>9 DEF Score
  <2> QED BY <2>1, <2>2 DEF Scored, HarnessType, WorkersInv
<1>10. CASE \E w \in Workers : Poll(w)
  <2>1. h.pc = "round" /\ h'.pc = h.pc /\ h'.looked = h.looked
    BY <1>10 DEF Poll, HarnessType
  <2> QED BY <2>1 DEF WorkersInv
<1> QED BY <1>1, <1>3, <1>4, <1>5, <1>6, <1>7, <1>8, <1>9, <1>10, <1>11 DEF Harness

\* Outside a round and a load, a worker only lets go of what it holds.
LEMMA Settles ==
  ASSUME Types, Next, NEW v \in Workers, EventsInv(v), h.pc \notin {"round", "load"}
  PROVE  Table(v)' \subseteq Table(v) /\ (worker'[v].loaded => worker[v].loaded)
<1>1. CASE NextRound
  <2>1. worker'[v].loaded = worker[v].loaded
    BY <1>1 DEF NextRound, Types, WorkerType, Process
  <2> QED BY <1>1, <2>1, NextRoundFacts
<1>2. CASE Calm(v)
  BY <1>2 DEF Calm, Load, Table, Held
<1>3. ASSUME NEW r \in Members, NEW how \in Over, NEW reason \in Reasons, Retires(v, r, how, reason)
      PROVE  Table(v)' \subseteq Table(v) /\ (worker'[v].loaded => worker[v].loaded)
  <2>1. /\ worker'[v].loaded = worker[v].loaded
        /\ \A q \in Members : req'[v][q] = IF q = r THEN how ELSE req[v][q]
    BY <1>3, RetireFacts
  <2> QED BY <2>1 DEF Table, Held, Over
<1> QED BY <1>1, <1>2, <1>3, WorkerSteps, CalmSteps DEF Admit

\* The peak of a process grows with its requests and its stage only.
LEMMA PeakSteps ==
  ASSUME Types, WorkersInv, Next, NEW v \in Workers
  PROVE  /\ worker'[v].peak >= Resident
         /\ ~Load /\ Table(v) = {} => worker'[v].peak <= worker[v].peak
<1>1. worker[v].peak \in Nat /\ Resident \in Nat /\ worker[v].peak >= Resident /\ WorkerType
      /\ worker[v] \in Process
  BY ConcurrentAssumption DEF Types, WorkerType, Process, WorkersInv
<1>2. CASE worker'[v].peak = worker[v].peak
  BY <1>1, <1>2
<1>3. CASE Load
  <2>1. worker'[v].peak >= worker[v].peak /\ worker'[v].peak \in Nat
    BY <1>1, <1>3, LoadFacts DEF Process
  <2> QED BY <1>1, <1>3, <2>1
<1>4. CASE WorkerDies(v)
  <2>1. worker'[v].peak = Resident
    BY <1>1, <1>4, DiesFacts
  <2> QED BY <1>1, <2>1
<1>5. ASSUME NEW r \in Members, Allocate(v, r)
      PROVE  worker'[v].peak >= Resident /\ Table(v) # {}
  <2>1. worker'[v].peak = Max({worker[v].peak, Level(v)})
    BY <1>1, <1>5 DEF Allocate, WorkerType, Process
  <2>2. Level(v) \in Nat
    BY LevelFacts
  <2>3. Max({worker[v].peak, Level(v)}) >= worker[v].peak /\ Max({worker[v].peak, Level(v)}) \in Nat
    BY <1>1, <2>2, MaxOfNats
  <2>4. r \in Table(v)
    BY <1>5 DEF Allocate, Table, Held
  <2> QED BY <1>1, <2>1, <2>3, <2>4
<1>6. CASE NextRound \/ CloseSession
  <2>1. \/ worker'[v] = [worker[v] EXCEPT !.log = [i \in DOMAIN worker[v].log |-> [kind |-> "old"]]]
        \/ worker'[v] = [worker[v] EXCEPT !.loaded = @ /\ Table(v) # {}]
    BY <1>6 DEF NextRound, CloseSession
  <2>2. worker'[v].peak = worker[v].peak
    BY <1>1, <2>1 DEF Process
  <2> QED BY <1>2, <2>2
<1>7. CASE WorkerRestarts(v)
  BY <1>1, <1>2, <1>7, RestartFacts DEF Process
<1>8. CASE \E r \in Members : Admit(v, r)
  BY <1>1, <1>2, <1>8, AdmitFacts
<1>9. CASE \E r \in Members, how \in Over, reason \in Reasons : Retires(v, r, how, reason)
  BY <1>2, <1>9, RetireFacts
<1> QED BY <1>2, <1>3, <1>4, <1>5, <1>6, <1>7, <1>8, <1>9, WorkerSteps DEF Same


\* What the harness was told stays true while it relies on it.
LEMMA WorkersStep ==
  ASSUME Types, HarnessInv, WorkersInv, Next, \A w \in Workers : EventsInv(w)
  PROVE  WorkersInv'
<1>1. HarnessType /\ WorkerType /\ RequestType /\ 1 \in Workers /\ 2 \in Workers
      /\ Workers = {1, 2}
  BY DEF Types, Workers
<1>2. h'.looked => h'.pc = "clean"
  <2>1. CASE h.looked /\ h'.pc = h.pc
    BY <2>1 DEF WorkersInv
  <2> QED BY <1>1, <2>1, PlaceSteps
<1>3. ASSUME NEW v \in Workers
      PROVE  /\ worker'[v].loaded => worker'[v].up
             /\ Table(v)' # {} => worker'[v].loaded
             /\ worker'[v].pid >= h'.process[v]
  <2>1. /\ worker[v].loaded => worker[v].up
        /\ Table(v) # {} => worker[v].loaded
        /\ worker[v].pid >= h.process[v]
        /\ worker[v] \in Process /\ worker[v].pid \in Nat /\ h.process[v] \in Nat
    BY <1>1 DEF WorkersInv, WorkerType, HarnessType, Process
  <2>2. CASE Same(v)
    <3>1. h'.process[v] \in {h.process[v], worker[v].pid}
      <4>1. CASE Establish
        <5>1. h'.process \in {[w \in Workers |-> worker[w].pid], h.process}
          BY <1>1, <4>1 DEF Establish, HarnessType
        <5> QED BY <5>1
      <4>2. CASE ~Establish
        BY <1>1, <4>2, NotesStay
      <4> QED BY <4>1, <4>2
    <3> QED BY <2>1, <2>2, <3>1 DEF Same, Table
  <2>3. ASSUME ~Establish, worker'[v].up = worker[v].up, worker'[v].pid = worker[v].pid,
               worker'[v].loaded = worker[v].loaded, Table(v)' \subseteq Table(v) \/ worker[v].loaded
        PROVE  /\ worker'[v].loaded => worker'[v].up
               /\ Table(v)' # {} => worker'[v].loaded
               /\ worker'[v].pid >= h'.process[v]
    <3>1. h'.process = h.process
      BY <1>1, <2>3, NotesStay
    <3> QED BY <2>1, <2>3, <3>1
  <2>4. ASSUME NEW r \in Members, Admit(v, r)
        PROVE  /\ worker'[v].loaded => worker'[v].up
               /\ Table(v)' # {} => worker'[v].loaded
               /\ worker'[v].pid >= h'.process[v]
    BY <1>1, <2>3, <2>4, AdmitFacts DEF Admit, Establish
  <2>5. ASSUME NEW r \in Members, NEW how \in Over, NEW reason \in Reasons, Retires(v, r, how, reason)
        PROVE  /\ worker'[v].loaded => worker'[v].up
               /\ Table(v)' # {} => worker'[v].loaded
               /\ worker'[v].pid >= h'.process[v]
    <3>1. /\ \A f \in {"up", "pid", "loaded", "peak"} : worker'[v][f] = worker[v][f]
          /\ \A q \in Members : req'[v][q] = IF q = r THEN how ELSE req[v][q]
          /\ h' = h
      BY <2>5, RetireFacts
    <3>2. Table(v)' \subseteq Table(v)
      BY <3>1 DEF Table, Held, Over
    <3> QED BY <2>1, <3>1, <3>2
  <2>6. ASSUME NEW r \in Members, Allocate(v, r)
        PROVE  /\ worker'[v].loaded => worker'[v].up
               /\ Table(v)' # {} => worker'[v].loaded
               /\ worker'[v].pid >= h'.process[v]
    <3>1. /\ worker'[v].loaded = worker[v].loaded /\ worker'[v].up = worker[v].up
          /\ worker'[v].pid = worker[v].pid /\ h' = h
      BY <1>1, <2>6 DEF Allocate, WorkerType, Process
    <3>2. r \in Table(v)
      BY <2>6 DEF Allocate, Table, Held
    <3> QED BY <2>1, <3>1, <3>2
  <2>7. CASE WorkerDies(v)
    <3>1. worker'[v].loaded = FALSE /\ worker'[v].pid = worker[v].pid /\ h' = h
      BY <1>1, <2>7, DiesFacts DEF WorkerDies
    <3>2. \A r \in Members : req'[v][r] = IF req[v][r] \in Held THEN "failed" ELSE req[v][r]
      BY <1>1, <2>7 DEF WorkerDies, RequestType
    <3>3. Table(v)' = {}
      BY <3>2 DEF Table, Held
    <3> QED BY <2>1, <3>1, <3>3
  <2>8. CASE WorkerRestarts(v)
    <3>1. worker'[v] = [worker[v] EXCEPT !.up = TRUE, !.pid = @ + 1]
      BY <1>1, <2>8, RestartFacts
    <3>2. worker'[v].loaded = worker[v].loaded /\ worker'[v].up = TRUE
          /\ worker'[v].pid = worker[v].pid + 1
      BY <2>1, <3>1 DEF Process
    <3>3. h' = h /\ Table(v)' = Table(v)
      BY <2>8 DEF WorkerRestarts, Table
    <3> QED BY <2>1, <3>2, <3>3
  <2>9. CASE Load
    <3>1. /\ worker'[v].up = worker[v].up /\ worker'[v].pid = worker[v].pid
          /\ worker'[v].loaded => worker[v].loaded \/ worker[v].up
      BY <1>1, <2>9, LoadFacts
    <3>2. h'.process = h.process
      BY <1>1, <2>9, NotesStay DEF Load, Establish
    <3>3. worker[v].loaded => worker'[v].loaded
      <4>1. CASE UNCHANGED worker
        BY <4>1
      <4>2. CASE worker'[v] = [worker[v] EXCEPT !.loaded = TRUE, !.peak = Max({@, Resident + Weights})]
        <5>1. worker'[v].loaded = TRUE
          BY <2>1, <4>2 DEF Process
        <5> QED BY <5>1
      <4> QED BY <2>9, <4>1, <4>2 DEF Load
    <3>4. Table(v)' = Table(v)
      BY <2>9 DEF Load, Table
    <3> QED BY <2>1, <3>1, <3>2, <3>3, <3>4
  <2>10. CASE CloseSession
    <3>1. worker'[v] = [worker[v] EXCEPT !.loaded = @ /\ Table(v) # {}] /\ Table(v)' = Table(v)
      BY <2>10 DEF CloseSession, Table
    <3>2. /\ worker'[v].up = worker[v].up /\ worker'[v].pid = worker[v].pid
          /\ worker'[v].loaded = (worker[v].loaded /\ Table(v) # {})
      BY <2>1, <3>1 DEF Process
    <3>3. h'.process = h.process
      BY <1>1, <2>10, NotesStay DEF CloseSession, Establish
    <3> QED BY <2>1, <3>1, <3>2, <3>3
  <2>11. CASE NextRound
    <3>1. worker'[v] = [worker[v] EXCEPT !.log = [i \in DOMAIN worker[v].log |-> [kind |-> "old"]]]
      BY <2>11 DEF NextRound
    <3>2. /\ worker'[v].up = worker[v].up /\ worker'[v].pid = worker[v].pid
          /\ worker'[v].loaded = worker[v].loaded
      BY <2>1, <3>1 DEF Process
    <3>3. Table(v)' = {}
      BY <2>11, NextRoundFacts
    <3> QED BY <2>3, <2>11, <3>2, <3>3 DEF NextRound, Establish
  <2> QED BY <2>2, <2>4, <2>5, <2>6, <2>7, <2>8, <2>9, <2>10, <2>11, WorkerSteps
<1>4. \A v \in Workers : worker'[v].peak >= Resident
  BY PeakSteps
<1>5. ASSUME h'.pc = "clean", h'.looked, h'.idle
      PROVE  Table(1)' = {} /\ (h'.phase # "round" => ~worker'[1].loaded)
  <2>1. CASE h.looked /\ h'.pc = h.pc /\ h'.idle = h.idle /\ h'.phase = h.phase
    BY <1>1, <1>5, <2>1, Settles DEF WorkersInv
  <2>2. CASE CleanFirst /\ h'.phase = h.phase /\ h'.idle = Idle(1)
    <3>1. worker' = worker /\ req' = req
      BY <2>2 DEF CleanFirst
    <3> QED BY <1>5, <2>2, <3>1 DEF Idle, Table
  <2> QED BY <1>1, <1>5, <2>1, <2>2, PlaceSteps
<1>6. ASSUME h'.pc = "scored", NEW v \in Workers
      PROVE  Quiet(v)'
  <2>1. CASE h.pc = "scored"
    BY <1>1, <2>1, Settles DEF WorkersInv, Quiet
  <2>2. CASE CleanSecond /\ h.pc = "clean" /\ h.phase = "idle" /\ h.looked /\ h.idle /\ Idle(2)
    <3>1. worker' = worker /\ req' = req
      BY <2>2 DEF CleanSecond
    <3>2. Quiet(1) /\ Quiet(2)
      BY <2>2 DEF WorkersInv, Idle, Quiet
    <3> QED BY <1>1, <3>1, <3>2 DEF Quiet, Table
  <2> QED BY <1>1, <1>6, <2>1, <2>2, PlaceSteps
<1>7. ASSUME h'.pc \in {"assemble", "done"}, NEW v \in Workers, h'.cleanup[v]
      PROVE  Quiet(v)'
  <2>1. CASE h.pc \in {"assemble", "done"}
    <3>1. h'.cleanup = h.cleanup
      BY <1>1, <2>1, NotesStay DEF CleanupEvidence
    <3> QED BY <1>1, <1>7, <2>1, <3>1, Settles DEF WorkersInv, Quiet
  <2>2. CASE CleanupEvidence /\ h'.cleanup =
                [w \in Workers |-> worker[w].up /\ Table(w) = {} /\ ~worker[w].loaded]
    <3>1. worker' = worker /\ req' = req
      BY <2>2 DEF CleanupEvidence
    <3> QED BY <1>7, <2>2, <3>1 DEF Quiet, Table
  <2> QED BY <1>1, <1>7, <2>1, <2>2, PlaceSteps
<1> QED BY <1>2, <1>3, <1>4, <1>5, <1>6, <1>7 DEF WorkersInv

\* A snapshot that covers the peak of an idle process goes on covering it.
LEMMA CoveredStays ==
  ASSUME Types, WorkersInv, Next, NEW v \in Workers, Covered(v), Table(v) = {}, ~Load,
         obs'[v].cycle = obs[v].cycle, \A w \in Workers : EventsInv(w)
  PROVE  Covered(v)'
<1>1. CASE "process" \in obs[v].cycle.lost
  BY <1>1 DEF Covered
<1>2. CASE obs[v].cycle.peak # None /\ obs[v].cycle.peak >= worker[v].peak
  <2>1. worker'[v].peak <= worker[v].peak
    BY PeakSteps
  <2>2. worker[v].peak \in Nat /\ worker'[v].peak >= Resident /\ obs[v].cycle.peak \in Nat \cup {None}
    BY PeakSteps DEF Types, WorkerType, Process, SnapshotType
  <2>3. obs[v].cycle.peak \in Nat
    BY <1>2, <2>2
  <2>4. worker'[v].peak \in Nat
    BY WorkTypes DEF WorkerType, Process
  <2>5. obs[v].cycle.peak >= worker'[v].peak
    BY <1>2, <2>1, <2>2, <2>3, <2>4
  <2> QED BY <1>2, <2>5 DEF Covered
<1> QED BY <1>1, <1>2 DEF Covered


\* The peaks are covered when the cycle is scored.
LEMMA PeaksStep ==
  ASSUME Types, HarnessInv, WorkersInv, PeaksInv, Next, \A w \in Workers : EventsInv(w)
  PROVE  PeaksInv'
<1>1. HarnessType /\ 1 \in Workers /\ 2 \in Workers /\ 1 # 2 /\ DOMAIN obs = Workers
  BY DEF Types, Workers, SnapshotType
<1>2. ASSUME NEW v \in Workers, Looks(v), h.cycle # 0, UNCHANGED worker
      PROVE  Covered(v)' /\ \A w \in Workers : w # v => obs'[w] = obs[w]
  <2>1. PICK lost \in Lost : obs' = [obs EXCEPT ![v] = Observe(v, lost)]
    BY <1>2 DEF Looks
  <2>2. obs'[v] = Observe(v, lost) /\ \A w \in Workers : w # v => obs'[w] = obs[w]
    BY <1>1, <2>1
  <2>3. \/ "process" \in obs'[v].cycle.lost
        \/ obs'[v].cycle.peak # None /\ obs'[v].cycle.peak >= worker[v].peak
    BY <1>2, <2>2, ObserveFacts
  <2> QED BY <1>2, <2>2, <2>3 DEF Covered
<1>3. ASSUME ~Harness, NEW v \in Workers, Covered(v), Table(v) = {}
      PROVE  Covered(v)'
  <2>1. obs' = obs /\ ~Load
    BY <1>3, HarnessStays DEF Harness
  <2> QED BY <1>3, <2>1, CoveredStays
<1>4. ASSUME Cleaning("idle")', h'.looked, h'.idle
      PROVE  Covered(1)'
  <2>1. CASE h.looked /\ h'.pc = h.pc /\ h'.idle = h.idle /\ h'.phase = h.phase /\ ~Harness
    <3>1. Covered(1) /\ Table(1) = {}
      BY <1>4, <2>1 DEF PeaksInv, WorkersInv, Cleaning
    <3> QED BY <1>1, <1>3, <2>1, <3>1
  <2>2. CASE CleanFirst /\ Looks(1) /\ h'.pc = "clean" /\ h'.phase = h.phase
    <3>1. h.cycle # 0 /\ UNCHANGED worker
      BY <1>4, <2>2 DEF HarnessInv, Cleaning, CleanFirst
    <3> QED BY <1>1, <1>2, <2>2, <3>1
  <2> QED BY <1>1, <1>4, <2>1, <2>2, PlaceSteps
<1>5. ASSUME h'.pc = "scored"
      PROVE  Covered(1)' /\ Covered(2)'
  <2>1. CASE h.pc = "scored" /\ ~Harness
    <3>1. Covered(1) /\ Covered(2) /\ Table(1) = {} /\ Table(2) = {}
      BY <1>1, <2>1 DEF PeaksInv, WorkersInv, Quiet
    <3> QED BY <1>1, <1>3, <2>1, <3>1
  <2>2. CASE CleanSecond /\ Looks(2) /\ h.pc = "clean" /\ h.phase = "idle" /\ h.looked /\ h.idle
    <3>1. h.cycle # 0 /\ UNCHANGED worker /\ Covered(1) /\ Table(1) = {} /\ ~Load
      BY <2>2 DEF HarnessInv, Cleaning, CleanSecond, PeaksInv, WorkersInv, Load
    <3>2. Covered(2)' /\ obs'[1] = obs[1]
      BY <1>1, <1>2, <2>2, <3>1
    <3> QED BY <1>1, <3>1, <3>2, CoveredStays
  <2> QED BY <1>1, <1>5, <2>1, <2>2, PlaceSteps
<1> QED BY <1>4, <1>5 DEF PeaksInv

------------------------------------------------------------------------------
(* Overlaps *)

\* A record whose history was dropped stays failed.
LEMMA DroppedStays ==
  ASSUME HarnessType, HarnessInv, Next, Dropped
  PROVE  Dropped'
<1>1. h.failure /\ ~h.session /\ h.pc \in {"finish", "assemble", "done"}
  BY DEF Dropped, HarnessInv
<1>2. CASE ~Harness
  BY <1>1, <1>2, HarnessStays DEF Dropped
<1>3. CASE CleanupEvidence \/ Assemble
  BY <1>1, <1>3 DEF CleanupEvidence, Assemble, HarnessType, Dropped
<1> QED BY <1>1, <1>2, <1>3
         DEF Harness, Start, Establish, CleanFirst, CleanSecond, Gate, Load, AfterLoad, Poll, EndRound,
             NextRound, CloseSession, Score

\* Fewer events, and requests that end without one, leave what the others say right.
LEMMA OverlapKept ==
  ASSUME Types, NEW v \in Workers, OverlapInv(v), EventsInv(v), Known(v)' \subseteq Known(v),
         obs'[v].joint \subseteq obs[v].joint \/ Rows(v) = Members,
         truth'.together[v] = truth.together[v], truth'.alone[v] = truth.alone[v],
         Known(v)' = {} \/ Kind' = Kind,
         \A r \in Members : \/ req'[v][r] = req[v][r]
                            \/ req[v][r] \in Held /\ req'[v][r] \in Over
  PROVE  OverlapInv(v)'
<1> DEFINE A == Admitted(v)
           R == Retired(v)
           B == Admitted(v)'
           S == Retired(v)'
           t == truth.together[v]
<1>1. B \subseteq A /\ S \subseteq R
  BY DEF Admitted, Retired
<1>2. (Rows(v) = Members)' => Rows(v) = Members
  BY DEF Rows, Over
<1>3. obs'[v].joint # {} => t
  BY DEF OverlapInv
<1>4. \A r \in Members : req[v][r] \in {"allocated"} \cup Over => req'[v][r] \in {"allocated"} \cup Over
  OBVIOUS
<1>5. \A r \in Members : req'[v][r] = "allocated" => req[v][r] = "allocated"
  BY DEF Over
<1>6. S # {} => Kind' = Kind
  BY DEF Retired
<1> HIDE DEF A, R, B, S
<1>7. (Rows(v) = Members \/ obs[v].joint # {})' => t
  BY <1>2, <1>3 DEF OverlapInv
<1>8. \A e \in S : e.reason # "allocation-failed" /\ e.others # {} => t
  BY <1>1 DEF OverlapInv, R
<1>9. \A e \in S : Kind' = "cancel" /\ e.id = 1 /\ e.reason = "cancelled" /\ 2 \in e.others
                     => truth.alone[v]
  BY <1>1, <1>6 DEF OverlapInv, R
<1>10. ASSUME t
       PROVE  /\ \A r \in Members : req'[v][r] \in {"allocated"} \cup Over
              /\ \A a \in B, e \in S : a.seq < e.seq /\ a.at <= e.at
              /\ \A e \in S, r \in Members : e.id # r /\ req'[v][r] = "allocated" =>
                   r \in e.others /\ e.reason # "allocation-failed"
              /\ \A e, f \in S : e.id # f.id /\ e.seq < f.seq =>
                   f.id \in e.others /\ e.reason # "allocation-failed"
  <2>1. \A r \in Members : req'[v][r] \in {"allocated"} \cup Over
    BY <1>4, <1>10 DEF OverlapInv
  <2>2. \A a \in B, e \in S : a.seq < e.seq /\ a.at <= e.at
    BY <1>1, <1>10 DEF OverlapInv, A, R
  <2>3. \A e \in S, r \in Members : e.id # r /\ req'[v][r] = "allocated" =>
          r \in e.others /\ e.reason # "allocation-failed"
    BY <1>1, <1>5, <1>10 DEF OverlapInv, R
  <2>4. \A e, f \in S : e.id # f.id /\ e.seq < f.seq =>
          f.id \in e.others /\ e.reason # "allocation-failed"
    BY <1>1, <1>10 DEF OverlapInv, R
  <2> QED BY <2>1, <2>2, <2>3, <2>4
<1> QED BY <1>7, <1>8, <1>9, <1>10 DEF OverlapInv, B, S

\* The second allocation of a pair comes before the retirements.
LEMMA OverlapAllocate ==
  ASSUME Types, NEW v \in Workers, OverlapInv(v), EventsInv(v), NEW r \in Members, Allocate(v, r),
         Known(v)' \subseteq Known(v)
  PROVE  OverlapInv(v)'
<1>1. RequestType /\ TruthType
  BY DEF Types
<1>2. /\ req[v][r] = "allocating" /\ obs' = obs /\ h' = h
      /\ \A q \in Members : req'[v][q] = IF q = r THEN "allocated" ELSE req[v][q]
      /\ truth'.together[v] = (truth.together[v] \/ Rows(v) \cup {r} = Members)
      /\ truth'.alone[v] = truth.alone[v]
  BY <1>1 DEF Allocate, RequestType, TruthType
<1>3. ~truth.together[v]
  BY <1>2 DEF OverlapInv, Over
<1>4. Rows(v)' = Rows(v) \cup {r}
  BY <1>2 DEF Rows
<1>5. Retired(v)' \subseteq Retired(v)
  BY DEF Retired
<1>6. (Rows(v) = Members \/ obs[v].joint # {})' => truth'.together[v]
  BY <1>2, <1>3, <1>4 DEF OverlapInv
<1>7. \A e \in Retired(v)' : e.reason # "allocation-failed" /\ e.others # {} => truth'.together[v]
  BY <1>3, <1>5 DEF OverlapInv
<1>8. \A e \in Retired(v)' : Kind' = "cancel" /\ e.id = 1 /\ e.reason = "cancelled" /\ 2 \in e.others
                               => truth'.alone[v]
  <2>1. Kind' = Kind
    BY <1>2 DEF Kind
  <2> QED BY <1>2, <1>5, <2>1 DEF OverlapInv
<1>9. ASSUME truth'.together[v]
      PROVE  Retired(v)' = {} /\ \A q \in Members : req'[v][q] \in {"allocated"} \cup Over
  <2>1. Rows(v) \cup {r} = Members
    BY <1>2, <1>3, <1>9
  <2>2. \A q \in Members : req[v][q] \in {"allocating", "allocated"} /\ req'[v][q] = "allocated"
    BY <1>2, <2>1 DEF Rows
  <2>3. \A e \in Retired(v) : e.id \in Members /\ req[v][e.id] \in Over
    BY DEF EventsInv, Retired, Event
  <2>4. Retired(v) = {}
    BY <2>2, <2>3 DEF Over
  <2> QED BY <1>5, <2>2, <2>4
<1> QED BY <1>6, <1>7, <1>8, <1>9 DEF OverlapInv

\* A request that is admitted was not there: nothing overlapped yet.
LEMMA OverlapAdmit ==
  ASSUME Types, NEW v \in Workers, OverlapInv(v), NEW r \in Members, Admit(v, r)
  PROVE  OverlapInv(v)'
<1>1. WorkerType /\ RequestType
  BY DEF Types
<1>2. /\ req[v][r] = "none" /\ obs' = obs /\ h' = h /\ truth' = truth
      /\ \A q \in Members : req'[v][q] = IF q = r THEN "allocating" ELSE req[v][q]
  BY <1>1 DEF Admit, RequestType
<1>3. ~truth.together[v]
  BY <1>2 DEF OverlapInv, Over
<1>4. Rows(v)' \subseteq Rows(v)
  BY <1>2 DEF Rows
<1>5. Retired(v)' \subseteq Retired(v)
  <2> DEFINE e == NewEvent(v, "admitted", r, "")
  <2>1. ToSet(worker'[v].log) \subseteq ToSet(worker[v].log) \cup {e}
    BY <1>1, AdmitFacts
  <2>2. e.kind = "admitted"
    BY DEF NewEvent
  <2> HIDE DEF e
  <2>3. Known(v)' \subseteq Known(v) \cup {e}
    BY <1>2, <2>1, KnownGrows
  <2> QED BY <2>2, <2>3 DEF Retired
<1>6. ~(Rows(v) = Members \/ obs[v].joint # {})'
  <2>1. Rows(v) # Members /\ obs[v].joint = {}
    BY <1>3 DEF OverlapInv
  <2>2. Rows(v)' \subseteq Members
    BY DEF Rows
  <2>3. Rows(v) \subseteq Members
    BY DEF Rows
  <2> QED BY <1>2, <1>4, <2>1, <2>2, <2>3
<1>7. \A e \in Retired(v)' : ~(e.reason # "allocation-failed" /\ e.others # {})
  BY <1>3, <1>5 DEF OverlapInv
<1>8. \A e \in Retired(v)' : Kind' = "cancel" /\ e.id = 1 /\ e.reason = "cancelled" /\ 2 \in e.others
                               => truth'.alone[v]
  <2>1. Kind' = Kind
    BY <1>2 DEF Kind
  <2> QED BY <1>2, <1>5, <2>1 DEF OverlapInv
<1> QED BY <1>2, <1>3, <1>6, <1>7, <1>8 DEF OverlapInv

\* A retirement lists the other request if and only if it is allocated.
LEMMA OverlapRetire ==
  ASSUME Types, WorkersInv, NEW v \in Workers, OverlapInv(v), EventsInv(v), NEW r \in Members,
         NEW how \in Over, NEW reason \in Reasons, Retires(v, r, how, reason)
  PROVE  OverlapInv(v)'
<1> DEFINE e == NewEvent(v, "retired", r, reason)
           R == Retired(v)
           S == Retired(v)'
           A == Admitted(v)
           B == Admitted(v)'
           t == truth.together[v]
<1>1. RequestType /\ TruthType
  BY DEF Types
<1>2. /\ \A q \in Members : req'[v][q] = IF q = r THEN how ELSE req[v][q]
      /\ obs' = obs /\ h' = h
      /\ ToSet(worker'[v].log) \subseteq ToSet(worker[v].log) \cup {e}
  BY RetireFacts
<1>3. /\ req[v][r] \in Held
      /\ req[v][r] = "allocating" => reason = "allocation-failed"
      /\ req[v][r] = "allocated" => reason \in Over
  BY DEF Retires
<1>4. /\ truth'.together[v] = t
      /\ truth'.alone[v] = (truth.alone[v] \/ /\ Kind = "cancel" /\ r = 1 /\ reason = "cancelled"
                                              /\ req[v][2] = "allocated")
  BY <1>1 DEF Retires, Retire, TruthType
<1>5. /\ e.kind = "retired" /\ e.id = r /\ e.reason = reason /\ e.others = Rows(v) \ {r}
      /\ e.seq = worker[v].total + 1 /\ e.at = worker[v].clock + 1
  BY DEF NewEvent
<1> HIDE DEF e
<1>6. Known(v)' \subseteq Known(v) \cup {e}
  BY <1>2, KnownGrows
<1>7. S \subseteq R \cup {e} /\ B \subseteq A
  BY <1>5, <1>6 DEF Retired, Admitted
<1>8. worker[v].loaded /\ worker[v].total \in Nat /\ worker[v].clock \in Nat
  BY <1>3 DEF WorkersInv, Table, Types, WorkerType, Process
<1>9. \A f \in Known(v) : f.seq \in Nat /\ f.at \in Nat /\ f.seq <= worker[v].total /\ f.at <= worker[v].clock
  BY <1>8 DEF EventsInv, Event
<1>10. \A f \in R \cup A : f.seq \in Nat /\ f.at \in Nat /\ f.seq < e.seq /\ f.at <= e.at
  BY <1>5, <1>8, <1>9 DEF Retired, Admitted
<1>11. Kind' = Kind
  BY <1>2 DEF Kind
<1> HIDE DEF R, S, A, B
<1>12. (Rows(v) = Members \/ obs[v].joint # {})' => t
  <2>1. (Rows(v) = Members)' => Rows(v) = Members
    BY <1>2, <1>3 DEF Rows, Over
  <2> QED BY <1>2, <2>1 DEF OverlapInv
<1>13. e.reason # "allocation-failed" /\ e.others # {} => t
  <2> SUFFICES ASSUME reason # "allocation-failed", Rows(v) \ {r} # {}
               PROVE  t
    BY <1>5
  <2>1. req[v][r] = "allocated"
    BY <1>3 DEF Held
  <2>2. Rows(v) = Members
    BY <2>1 DEF Rows, Members
  <2> QED BY <2>2 DEF OverlapInv
<1>14. \A f \in S : f.reason # "allocation-failed" /\ f.others # {} => t
  BY <1>7, <1>13 DEF OverlapInv, R
<1>15. \A f \in S : Kind = "cancel" /\ f.id = 1 /\ f.reason = "cancelled" /\ 2 \in f.others
                      => truth'.alone[v]
  <2>1. 2 \in Rows(v) \ {r} => req[v][2] = "allocated"
    BY DEF Rows
  <2> QED BY <1>4, <1>5, <1>7, <2>1 DEF OverlapInv, R
<1>16. ASSUME t
       PROVE  /\ \A q \in Members : req'[v][q] \in {"allocated"} \cup Over
              /\ \A a \in B, f \in S : a.seq < f.seq /\ a.at <= f.at
              /\ \A f \in S, q \in Members : f.id # q /\ req'[v][q] = "allocated" =>
                   q \in f.others /\ f.reason # "allocation-failed"
              /\ \A d, f \in S : d.id # f.id /\ d.seq < f.seq =>
                   f.id \in d.others /\ d.reason # "allocation-failed"
  <2>1. /\ \A q \in Members : req[v][q] \in {"allocated"} \cup Over
        /\ \A a \in A, f \in R : a.seq < f.seq /\ a.at <= f.at
        /\ \A f \in R, q \in Members : f.id # q /\ req[v][q] = "allocated" =>
             q \in f.others /\ f.reason # "allocation-failed"
        /\ \A d, f \in R : d.id # f.id /\ d.seq < f.seq =>
             f.id \in d.others /\ d.reason # "allocation-failed"
    BY <1>16 DEF OverlapInv, R, A
  <2>2. req[v][r] = "allocated" /\ reason # "allocation-failed"
    BY <1>3, <2>1 DEF Held, Over
  <2>3. \A q \in Members : req'[v][q] \in {"allocated"} \cup Over
    BY <1>2, <2>1
  <2>4. \A a \in B, f \in S : a.seq < f.seq /\ a.at <= f.at
    BY <1>7, <1>10, <2>1
  <2>5. \A f \in S, q \in Members : f.id # q /\ req'[v][q] = "allocated" =>
          q \in f.others /\ f.reason # "allocation-failed"
    <3> TAKE f \in S, q \in Members
    <3> HAVE f.id # q /\ req'[v][q] = "allocated"
    <3>1. req[v][q] = "allocated"
      BY <1>2, <2>2
    <3>2. CASE f = e
      BY <1>5, <2>2, <3>1, <3>2 DEF Rows
    <3>3. CASE f \in R
      BY <2>1, <3>1, <3>3
    <3> QED BY <1>7, <3>2, <3>3
  <2>6. \A d, f \in S : d.id # f.id /\ d.seq < f.seq =>
          f.id \in d.others /\ d.reason # "allocation-failed"
    <3> TAKE d, f \in S
    <3> HAVE d.id # f.id /\ d.seq < f.seq
    <3>1. CASE d = e
      <4>1. f # e
        BY <3>1
      <4>2. f \in R
        BY <1>7, <4>1
      <4>3. f.seq < e.seq /\ f.seq \in Nat /\ e.seq \in Nat
        BY <1>5, <1>8, <1>10, <4>2
      <4> QED BY <3>1, <4>3
    <3>2. CASE d \in R /\ f = e
      BY <1>5, <2>1, <2>2, <3>2
    <3>3. CASE d \in R /\ f \in R
      BY <2>1, <3>3
    <3> QED BY <1>7, <3>1, <3>2, <3>3
  <2> QED BY <2>3, <2>4, <2>5, <2>6
<1> QED BY <1>4, <1>11, <1>12, <1>14, <1>15, <1>16 DEF OverlapInv, S, B

\* What the events say stays what happened.
LEMMA OverlapStep ==
  ASSUME Types, HarnessInv, WorkersInv, RoundsInv, Next, NEW v \in Workers, EventsInv(v), OverlapInv(v),
         ~Dropped'
  PROVE  OverlapInv(v)'
<1>1. HarnessType /\ WorkerType /\ RequestType
  BY DEF Types
<1>2. /\ obs'[v].joint \subseteq obs[v].joint \/ Rows(v) = Members
  BY ObsView
<1>3. CASE NextRound
  <2>1. /\ Known(v)' = {} /\ Rows(v)' = {} /\ obs'[v].joint = {} /\ truth'.together[v] = FALSE
    BY <1>3, NextRoundFacts
  <2>2. Retired(v)' = {} /\ Rows(v)' # Members
    BY <2>1 DEF Retired, Members
  <2> QED BY <2>1, <2>2 DEF OverlapInv
<1>4. ASSUME ~NextRound, Calm(v), truth'.together[v] = truth.together[v], truth'.alone[v] = truth.alone[v],
             \A r \in Members : \/ req'[v][r] = req[v][r]
                                \/ req[v][r] \in Held /\ req'[v][r] \in Over
      PROVE  OverlapInv(v)'
  <2>1. Known(v)' \subseteq Known(v)
    BY <1>4, KnownKept DEF Calm
  <2>2. Known(v)' = {} \/ Kind' = Kind
    <3>1. CASE Load
      <4>1. ~InRound
        BY <3>1 DEF Load, InRound, HarnessInv, Cleaning
      <4> QED BY <2>1, <4>1 DEF RoundsInv
    <3>2. CASE ~Load
      BY <1>1, <1>4, <3>2, RoundStays DEF Kind
    <3> QED BY <3>1, <3>2
  <2> QED BY <1>2, <1>4, <2>1, <2>2, OverlapKept
<1>5. CASE ~NextRound /\ Same(v)
  <2>1. Calm(v)
    BY <1>5, CalmSteps
  <2> QED BY <1>4, <1>5, <2>1 DEF Same
<1>6. CASE Load \/ WorkerRestarts(v)
  <2>1. Calm(v)
    BY <1>6, CalmSteps
  <2>2. req' = req /\ truth' = truth
    BY <1>6 DEF Load, WorkerRestarts
  <2> QED BY <1>3, <1>4, <2>1, <2>2
<1>7. CASE CloseSession
  <2>1. Calm(v)
    BY <1>7, CalmSteps
  <2>2. ~h'.session
    BY <1>1, <1>7 DEF CloseSession, HarnessType, Raised
  <2>3. req' = req /\ truth' = truth /\ ~NextRound
    BY <1>7, <2>2 DEF CloseSession, NextRound, Dropped
  <2> QED BY <1>4, <2>1, <2>3
<1>8. CASE WorkerDies(v)
  <2>1. Calm(v)
    BY <1>8, CalmSteps
  <2>2. \A r \in Members : req'[v][r] = IF req[v][r] \in Held THEN "failed" ELSE req[v][r]
    BY <1>1, <1>8 DEF WorkerDies, RequestType
  <2>3. truth' = truth
    BY <1>8 DEF WorkerDies
  <2> QED BY <1>3, <1>4, <2>1, <2>2, <2>3 DEF Over
<1>9. ASSUME NEW r \in Members, Allocate(v, r)
      PROVE  OverlapInv(v)'
  <2>1. Known(v)' \subseteq Known(v)
    BY <1>9, CalmSteps, KnownKept DEF Calm
  <2> QED BY <1>9, <2>1, OverlapAllocate
<1> QED BY <1>3, <1>5, <1>6, <1>7, <1>8, <1>9, WorkerSteps, OverlapAdmit, OverlapRetire

------------------------------------------------------------------------------
(* What is derived from the events happened *)

\* An interval rests on a retirement that lists the other member, or a joint snapshot.
LEMMA IntervalFacts ==
  ASSUME NEW w \in Workers, NEW start, NEW later, NEW retired,
         Interval(w, start, later, retired) # None
  PROVE  (\E e \in retired : e.others # {}) \/ obs[w].joint # {}
<1>1. ~({e \in retired : e.others # {}} = {} /\ {s \in obs[w].joint : s.at >= start} = {})
  BY DEF Interval
<1> QED BY <1>1

\* The retirements it considers are known, and none is a failed allocation.
LEMMA AfterFacts ==
  ASSUME NEW w \in Workers, NEW start, NEW seq, NEW e \in After(w, start, seq)
  PROVE  e \in Retired(w) /\ e.reason # "allocation-failed"
BY DEF After, Retirements, Retired, Known

\* An overlap that is derived happened.
LEMMA DerivedHappened ==
  ASSUME NEW w \in Workers, OverlapInv(w), derive_overlap(w) # None
  PROVE  truth.together[w]
<1>1. ASSUME NEW start, NEW later, NEW seq, Interval(w, start, later, After(w, start, seq)) # None
      PROVE  truth.together[w]
  <2>1. CASE obs[w].joint # {}
    BY <2>1 DEF OverlapInv
  <2>2. CASE \E e \in After(w, start, seq) : e.others # {}
    BY <2>2, AfterFacts DEF OverlapInv
  <2> QED BY <1>1, <2>1, <2>2, IntervalFacts
<1> DEFINE later == Max({e.seq : e \in Admissions(w)})
           start == obs[w].events[later].at
           begin == (CHOOSE s \in obs[w].joint : TRUE).start
<1>2. \/ derive_overlap(w) = Interval(w, start, later, After(w, start, later))
      \/ derive_overlap(w) = Interval(w, begin, None, After(w, begin, 0))
      \/ derive_overlap(w) = None
  BY DEF derive_overlap
<1> HIDE DEF later, start, begin
<1> QED BY <1>1, <1>2

\* A cancellation that is shown happened, and the survivor completed.
LEMMA ShownHappened ==
  ASSUME NEW w \in Workers, EventsInv(w), OverlapInv(w), Kind = "cancel", CancellationShown(w)
  PROVE  truth.alone[w] /\ req[w][2] = "completed"
<1>1. PICK c \in Retirements(w, 1) : c.reason = "cancelled" /\ 2 \in c.others
  BY DEF CancellationShown
<1>2. PICK d \in Retirements(w, 2) : d.reason = "completed"
  BY DEF CancellationShown
<1>3. c \in Retired(w) /\ c.id = 1 /\ d \in Retired(w) /\ d.id = 2
  BY <1>1, <1>2 DEF Retirements, Retired, Known
<1> QED BY <1>1, <1>2, <1>3 DEF EventsInv, OverlapInv

\* A round that is not left open, with the same processes, did what it is about.
LEMMA RoundIsEarned ==
  ASSUME h.pc = "next", ClientsInv, \A w \in Workers : EventsInv(w) /\ OverlapInv(w), ~RoundOpen,
         \A w \in Workers : worker[w].pid = h.process[w]
  PROVE  RoundEarned
<1>1. \A r \in Ids : got[r] \in {"exact", "closed"}
  BY DEF ClientsInv
<1>2. ASSUME Kind # "serial", NEW w \in Workers
      PROVE  truth.together[w]
  <2>1. derive_overlap(w) # None
    BY <1>2 DEF RoundOpen
  <2> QED BY <2>1, DerivedHappened
<1>3. ASSUME Kind = "cancel", NEW w \in Workers
      PROVE  truth.alone[w] /\ req[w][2] = "completed"
  <2>1. CancellationShown(w)
    BY <1>3 DEF RoundOpen
  <2> QED BY <1>3, <2>1, ShownHappened
<1> QED BY <1>1, <1>2, <1>3 DEF RoundEarned

------------------------------------------------------------------------------
(* Memory *)

\* What fits is still "ok" with a smaller peak.
LEMMA EnvelopeMonotone ==
  ASSUME NEW p \in Nat, NEW q \in Nat, p <= q, NEW a \in Nat, envelope(q, Budget(a)) = "ok"
  PROVE  envelope(p, Budget(a)) = "ok"
<1>1. /\ None # Budget(a)
      /\ ~(Needed(q, Budget(a)) + 2 > a)
  BY DEF envelope, Budget
<1>2. /\ Needed(p, Budget(a)) = p + (p * 10 + 99) \div 100 + 2
      /\ Needed(q, Budget(a)) = q + (q * 10 + 99) \div 100 + 2
  BY DEF Needed, Budget
<1>3. (p * 10 + 99) \div 100 <= (q * 10 + 99) \div 100 /\ (p * 10 + 99) \div 100 \in Nat
      /\ (q * 10 + 99) \div 100 \in Nat
  OBVIOUS
<1>4. ~(Needed(p, Budget(a)) + 2 > a)
  BY <1>1, <1>2, <1>3
<1>5. None # p /\ None # a
  <2>1. p \in Int /\ a \in Int
    OBVIOUS
  <2>2. None \notin Int
    BY PlannerAssumption
  <2> QED BY <2>1, <2>2
<1>6. None \notin {p, Budget(a)}
  BY <1>1, <1>5
<1>7. Budget(a).available = a /\ Budget(a).headroom = 2
  BY DEF Budget
<1> QED BY <1>4, <1>5, <1>6, <1>7 DEF envelope

\* An envelope that is called safe covers what the process really used.
LEMMA SafeIsSafe ==
  ASSUME Types, NEW w \in Workers, Covered(w), NEW a \in Nat, NEW device,
         assess_serving_envelope(w, a, device) \notin {"unsafe", "unknown"}
  PROVE  envelope(worker[w].peak, Budget(a)) = "ok"
<1> DEFINE c == obs[w].cycle
           p == serving_host_peak(w, c)
           host == envelope(p, Budget(a))
<1>1. c.peak \in Nat \cup {None} /\ worker[w].peak \in Nat
  BY DEF Types, SnapshotType, WorkerType, Process
<1>2. host \notin {"unsafe", "unknown"} /\ "process" \notin c.lost
  BY DEF assess_serving_envelope
<1>3. host = "ok"
  <2> HIDE DEF p
  <2> QED BY <1>2 DEF envelope
<1>4. c.peak # None /\ c.peak >= worker[w].peak
  BY <1>2 DEF Covered
<1>5. c.peak \in Nat
  BY <1>1, <1>4
<1>6. p \in {c.peak, c.peak + c.peak}
  BY <1>4 DEF serving_host_peak
<1> HIDE DEF c, p, host
<1>7. p \in Nat /\ worker[w].peak <= p
  BY <1>1, <1>4, <1>5, <1>6
<1> QED BY <1>1, <1>3, <1>7, EnvelopeMonotone DEF host

------------------------------------------------------------------------------
(* Acceptance *)

\* Only three steps of the harness touch the verdict of the history.
LEMMA HistoryStays ==
  ASSUME Types, Next
  PROVE  \/ NextRound \/ Score
         \/ CloseSession /\ h'.failure
         \/ truth'.earned = truth.earned
<1>1. TruthType
  BY DEF Types
<1>2. CASE UNCHANGED truth
  BY <1>2
<1>3. CASE Harness
  BY <1>2, <1>3 DEF Harness, Start, Establish, CleanFirst, CleanSecond, Gate, Load, AfterLoad, EndRound,
                    CloseSession, CleanupEvidence, Assemble, Poll
<1>4. CASE Processes
  BY <1>2, <1>4 DEF Processes, WorkerDies, WorkerRestarts
<1>5. CASE \E w \in Workers, r \in Members : Admit(w, r) \/ Allocate(w, r)
  BY <1>1, <1>5 DEF Admit, Allocate, TruthType
<1>6. CASE \E w \in Workers, r \in Members, how \in Over, reason \in Reasons : Retires(w, r, how, reason)
  BY <1>1, <1>6 DEF Retires, Retire, TruthType
<1>7. CASE ClientStep
  BY <1>2, <1>7 DEF ClientStep
<1> QED BY <1>3, <1>4, <1>5, <1>6, <1>7, RequestSteps DEF Next

\* Snapshots only add processes, except those of a failed record.
LEMMA PidsGrow ==
  ASSUME Types, Next, NEW w \in Workers, EventsInv(w)
  PROVE  obs[w].pids \subseteq obs'[w].pids \/ (CloseSession /\ h'.failure)
<1>1. SnapshotType /\ DOMAIN obs[w] = {"events", "joint", "pids", "over", "cycle"}
  BY DEF Types, SnapshotType
<1>2. CASE obs'[w] = obs[w]
  BY <1>2
<1>3. ASSUME NEW lost \in Lost, obs'[w] = Observe(w, lost)
      PROVE  obs[w].pids \subseteq obs'[w].pids
  BY <1>3, ObserveFacts
<1>4. CASE obs'[w] = [obs[w] EXCEPT !.cycle = NoCycle]
  BY <1>1, <1>4
<1>5. CASE obs'[w] = [obs[w] EXCEPT !.events = << >>, !.joint = {}]
  BY <1>1, <1>5
<1>6. CASE CloseSession
  BY <1>2, <1>6 DEF CloseSession
<1> QED BY <1>1, <1>2, <1>3, <1>4, <1>5, <1>6, ObsSteps

\* Nothing makes a record good again.
LEMMA GoodBefore ==
  ASSUME Types, HarnessInv, Next, ~Establish, Good', \A w \in Workers : EventsInv(w)
  PROVE  Good
<1>1. HarnessType
  BY DEF Types
<1>2. ~h'.failure /\ ~h'.unsafe /\ ~h'.open /\ \A w \in Workers : obs'[w].pids \subseteq {h'.process[w]}
  BY DEF Good
<1>3. h'.process = h.process
  BY <1>1, NotesStay
<1>4. \A w \in Workers : obs[w].pids \subseteq {h.process[w]}
  BY <1>2, <1>3, PidsGrow
<1>5. ~h.failure /\ ~h.unsafe /\ ~h.open
  <2>1. CASE ~Harness
    BY <1>2, <2>1, HarnessStays
  <2>2. h' \notin {Raised(h), Raised([h EXCEPT !.session = FALSE]), Raised([h EXCEPT !.cycle = @ + 1])}
    BY <1>1, <1>2 DEF Raised, HarnessType
  <2>3. CASE EndRound \/ AfterLoad
    <3>1. h' \in {[h EXCEPT !.pc = "clean", !.phase = "round"], [h EXCEPT !.pc = "round"]}
      BY <2>2, <2>3 DEF EndRound, AfterLoad
    <3> QED BY <1>1, <1>2, <3>1 DEF HarnessType
  <2>9. CASE Start \/ Assemble \/ Load
    BY <1>1, <1>2, <2>2, <2>9 DEF Start, Assemble, Load, HarnessType
  <2>4. CASE CleanFirst \/ CleanSecond
    BY <1>1, <1>2, <2>2, <2>4 DEF CleanFirst, CleanSecond, Cleaned, HarnessType
  <2>5. CASE Gate
    BY <1>1, <1>2, <2>2, <2>5 DEF Gate, HarnessType
  <2>6. CASE CloseSession \/ CleanupEvidence \/ NextRound
    BY <1>1, <1>2, <2>2, <2>6 DEF CloseSession, CleanupEvidence, NextRound, HarnessType
  <2>7. CASE Score
    <3>1. PICK device \in {None, Resident, worker[1].peak}, available \in [Workers -> FittingBudgets] :
            h' = Scored(available, device)
      BY <2>7, ScoreFacts
    <3> QED BY <1>1, <1>2, <3>1 DEF Scored, HarnessType
  <2>8. CASE \E w \in Workers : Poll(w)
    BY <1>1, <1>2, <2>8 DEF Poll, HarnessType
  <2> QED BY <2>1, <2>3, <2>4, <2>5, <2>6, <2>7, <2>8, <2>9 DEF Harness
<1> QED BY <1>4, <1>5 DEF Good

\* A process keeps its number until another takes its place.
LEMMA PidSteps ==
  ASSUME Types, WorkersInv, Next, NEW w \in Workers, worker[w].pid # h.process[w]
  PROVE  worker'[w].pid # h.process[w]
<1>1. WorkerType /\ worker[w] \in Process /\ worker[w].pid \in Nat /\ h.process[w] \in Nat
      /\ worker[w].pid >= h.process[w]
  BY DEF Types, WorkerType, HarnessType, Process, WorkersInv
<1>2. CASE worker'[w].pid = worker[w].pid
  BY <1>2
<1>3. CASE WorkerRestarts(w)
  <2>1. worker'[w].pid = worker[w].pid + 1
    BY <1>1, <1>3, RestartFacts DEF Process
  <2> QED BY <1>1, <2>1
<1>4. CASE NextRound \/ CloseSession
  <2>1. \/ worker'[w] = [worker[w] EXCEPT !.log = [i \in DOMAIN worker[w].log |-> [kind |-> "old"]]]
        \/ worker'[w] = [worker[w] EXCEPT !.loaded = @ /\ Table(w) # {}]
    BY <1>4 DEF NextRound, CloseSession
  <2>2. worker'[w].pid = worker[w].pid
    BY <1>1, <2>1 DEF Process
  <2> QED BY <1>2, <2>2
<1>5. CASE Load
  BY <1>1, <1>2, <1>5, LoadFacts
<1>6. CASE WorkerDies(w)
  BY <1>1, <1>2, <1>6, DiesFacts
<1>7. CASE \E r \in Members : Admit(w, r)
  BY <1>1, <1>2, <1>7, AdmitFacts
<1>8. CASE \E r \in Members : Allocate(w, r)
  BY <1>1, <1>2, <1>8 DEF Allocate, WorkerType, Process
<1>9. CASE \E r \in Members, how \in Over, reason \in Reasons : Retires(w, r, how, reason)
  BY <1>2, <1>9, RetireFacts
<1> QED BY <1>2, <1>3, <1>4, <1>5, <1>6, <1>7, <1>8, <1>9, WorkerSteps DEF Same

\* A snapshot of a worker shows its process.
LEMMA LooksFacts ==
  ASSUME Types, NEW w \in Workers, EventsInv(w), Looks(w), Good', h'.process = h.process
  PROVE  worker[w].pid = h.process[w]
<1>1. PICK lost \in Lost : obs' = [obs EXCEPT ![w] = Observe(w, lost)]
  BY DEF Looks
<1>2. obs'[w] = Observe(w, lost)
  BY <1>1 DEF Types, SnapshotType
<1>3. worker[w].pid \in obs'[w].pids
  BY <1>2, ObserveFacts
<1> QED BY <1>3 DEF Good

\* A process that was replaced is still to be seen, or was seen and the record says so.
LEMMA UnseenStays ==
  ASSUME Types, HarnessInv, WorkersInv, Next, \A w \in Workers : EventsInv(w), Good',
         NEW w \in Workers, worker[w].pid # h.process[w], Unseen(w)
  PROVE  worker'[w].pid # h'.process[w] /\ Unseen(w)'
<1>1. HarnessType /\ Workers = {1, 2}
  BY DEF Types, Workers
<1>2. ~h'.failure
  BY DEF Good
<1>3. h.session \/ (h.pc = "clean" /\ h.phase = "unloaded")
  BY DEF Unseen, Cleaning
<1>4. ~Establish
  BY <1>3 DEF Establish, HarnessInv, Cleaning
<1>5. h'.process = h.process
  BY <1>1, <1>4, NotesStay
<1>6. worker'[w].pid # h'.process[w]
  BY <1>5, PidSteps
<1>7. h' \notin {Raised(h), Raised([h EXCEPT !.session = FALSE]), Raised([h EXCEPT !.cycle = @ + 1])}
  BY <1>1, <1>2 DEF Raised, HarnessType
<1>8. CASE ~Harness
  BY <1>6, <1>8, HarnessStays DEF Unseen, Cleaning
<1>9. CASE CleanFirst
  <2>1. h' = [h EXCEPT !.looked = TRUE, !.idle = Idle(1)] /\ Looks(1)
    BY <1>7, <1>9, LookSteps DEF CleanFirst
  <2>2. w # 1
    BY <1>1, <1>5, <2>1, LooksFacts
  <2>3. h'.session = h.session /\ h'.pc = h.pc /\ h'.phase = h.phase
    BY <1>1, <2>1 DEF HarnessType
  <2> QED BY <1>6, <2>2, <2>3 DEF Unseen, Cleaning
<1>10. CASE CleanSecond
  <2>1. Looks(2) /\ h.looked /\ h.pc = "clean"
    BY <1>7, <1>10, LookSteps DEF CleanSecond
  <2>2. w # 2
    BY <1>1, <1>5, <2>1, LooksFacts
  <2>3. h.session
    BY <1>1, <2>1, <2>2 DEF Unseen
  <2>4. h'.session = h.session
    BY <1>1, <1>7, <1>10 DEF CleanSecond, Cleaned, HarnessType
  <2> QED BY <1>6, <2>3, <2>4 DEF Unseen
<1>11. CASE CloseSession
  <2>1. h' = [h EXCEPT !.pc = "clean", !.phase = "unloaded", !.session = FALSE]
    BY <1>7, <1>11 DEF CloseSession
  <2>2. h'.pc = "clean" /\ h'.phase = "unloaded" /\ h'.looked = h.looked
    BY <1>1, <2>1 DEF HarnessType
  <2>3. ~h.looked
    BY <1>11 DEF CloseSession, WorkersInv
  <2> QED BY <1>6, <2>2, <2>3 DEF Unseen, Cleaning
<1>12. CASE AfterLoad \/ EndRound \/ NextRound \/ \E v \in Workers : Poll(v)
  <2>1. h.session /\ h'.session = h.session
    BY <1>1, <1>3, <1>7, <1>12 DEF AfterLoad, EndRound, NextRound, Poll, HarnessType
  <2> QED BY <1>6, <2>1 DEF Unseen
<1>13. CASE Start \/ Establish \/ Gate \/ Load \/ Score \/ CleanupEvidence \/ Assemble
  BY <1>3, <1>13 DEF Start, Establish, Gate, Load, Score, CleanupEvidence, Assemble, HarnessInv, Cleaning
<1> QED BY <1>8, <1>9, <1>10, <1>11, <1>12, <1>13 DEF Harness

\* A good record stays earned, or the replaced process is still to be seen.
LEMMA EarnedStep ==
  ASSUME Types, HarnessInv, WorkersInv, PeaksInv, ClientsInv, EarnedInv, Next,
         \A w \in Workers : EventsInv(w), ~Dropped => \A w \in Workers : OverlapInv(w)
  PROVE  EarnedInv'
<1>1. HarnessType
  BY DEF Types
<1>2. ASSUME h'.pc \in {"start", "identity"}
      PROVE  truth'.earned
  <2>1. h.pc \in {"start", "identity"}
    <3>1. CASE ~Harness
      BY <1>2, <3>1, HarnessStays
    <3>2. h' \notin {Raised(h), Raised([h EXCEPT !.session = FALSE]), Raised([h EXCEPT !.cycle = @ + 1])}
      BY <1>1, <1>2 DEF Raised, HarnessType
    <3>3. CASE EndRound \/ AfterLoad \/ Load
      BY <1>1, <1>2, <3>2, <3>3 DEF EndRound, AfterLoad, Load, HarnessType
    <3>4. CASE CleanFirst \/ CleanSecond
      BY <1>1, <1>2, <3>2, <3>4 DEF CleanFirst, CleanSecond, Cleaned, HarnessType
    <3>5. CASE Gate \/ CloseSession
      BY <1>1, <1>2, <3>2, <3>5 DEF Gate, CloseSession, HarnessType
    <3>6. CASE CleanupEvidence \/ Assemble \/ NextRound
      BY <1>1, <1>2, <3>6 DEF CleanupEvidence, Assemble, NextRound, HarnessType
    <3>7. CASE Score
      <4>1. PICK device \in {None, Resident, worker[1].peak}, available \in [Workers -> FittingBudgets] :
              h' = Scored(available, device)
        BY <3>7, ScoreFacts
      <4> QED BY <1>1, <1>2, <4>1 DEF Scored, HarnessType
    <3>8. CASE \E w \in Workers : Poll(w)
      BY <1>1, <1>2, <3>8 DEF Poll, HarnessType
    <3>9. CASE Start \/ Establish
      BY <3>9 DEF Start, Establish
    <3> QED BY <3>1, <3>3, <3>4, <3>5, <3>6, <3>7, <3>8, <3>9 DEF Harness
  <2>2. truth'.earned = truth.earned
    BY <2>1, HistoryStays DEF NextRound, Score, CloseSession
  <2> QED BY <2>1, <2>2 DEF EarnedInv
<1>3. ASSUME Good'
      PROVE  truth'.earned \/ \E w \in Workers : worker'[w].pid # h'.process[w] /\ Unseen(w)'
  <2>1. ~h'.failure /\ ~h'.open /\ ~h'.unsafe
    BY <1>3 DEF Good
  <2>2. CASE Establish
    <3>1. truth' = truth /\ h.pc = "identity"
      BY <2>2 DEF Establish
    <3> QED BY <3>1 DEF EarnedInv
  <2>3. CASE \E w \in Workers : worker[w].pid # h.process[w] /\ Unseen(w)
    BY <1>3, <2>3, UnseenStays
  <2>4. CASE ~Establish /\ ~\E w \in Workers : worker[w].pid # h.process[w] /\ Unseen(w)
    <3>1. Good
      BY <1>3, <2>4, GoodBefore
    <3>2. truth.earned
      BY <2>4, <3>1 DEF EarnedInv
    <3>3. CASE NextRound
      <4>1. h.session /\ h.pc = "next"
        BY <3>3 DEF NextRound, HarnessInv
      <4>2. \A w \in Workers : worker[w].pid = h.process[w]
        BY <2>4, <4>1 DEF Unseen
      <4>3. ~RoundOpen
        BY <1>1, <2>1, <3>3 DEF NextRound, HarnessType
      <4>4. \A w \in Workers : OverlapInv(w)
        BY <4>1 DEF Dropped
      <4>5. RoundEarned
        BY <4>1, <4>2, <4>3, <4>4, RoundIsEarned
      <4>6. truth'.earned = (h'.open \/ (truth.earned /\ RoundEarned))
        BY <3>3 DEF NextRound, Unearned
      <4> QED BY <3>2, <4>5, <4>6
    <3>4. CASE Score
      <4>1. PICK device \in {None, Resident, worker[1].peak}, available \in [Workers -> FittingBudgets] :
              /\ h' = Scored(available, device)
              /\ truth' = [truth EXCEPT !.earned = @ /\ \A w \in Workers :
                             worker[w].pid = h.process[w] =>
                               envelope(worker[w].peak, Budget(available[w])) = "ok"]
        BY <3>4, ScoreFacts
      <4>2. "unsafe" \notin Status(available, device) /\ "unknown" \notin Status(available, device)
        BY <1>1, <2>1, <4>1 DEF Scored, HarnessType
      <4>3. \A w \in Workers : Covered(w)
        BY <3>4 DEF Score, PeaksInv, Workers
      <4>4. ASSUME NEW w \in Workers
            PROVE  envelope(worker[w].peak, Budget(available[w])) = "ok"
        <5>1. available[w] \in Nat
          BY ConcurrentAssumption DEF FittingBudgets
        <5>2. assess_serving_envelope(w, available[w], device) \notin {"unsafe", "unknown"}
          BY <4>2 DEF Status
        <5> QED BY <4>3, <5>1, <5>2, SafeIsSafe
      <4>5. truth'.earned = (truth.earned /\ \A w \in Workers : worker[w].pid = h.process[w] =>
                               envelope(worker[w].peak, Budget(available[w])) = "ok")
        BY <4>1 DEF Types, TruthType
      <4> QED BY <3>2, <4>4, <4>5
    <3> QED BY <2>1, <3>2, <3>3, <3>4, HistoryStays
  <2> QED BY <2>2, <2>3, <2>4
<1> QED BY <1>2, <1>3 DEF EarnedInv

\* A record is accepted when it is assembled, and the workers do not come back to it.
LEMMA AcceptedStep ==
  ASSUME Types, HarnessInv, WorkersInv, EarnedInv, AcceptedInv, Next, \A w \in Workers : EventsInv(w)
  PROVE  AcceptedInv'
<1>1. HarnessType /\ None # "accepted"
  BY ConcurrentAssumption DEF Types
<1> SUFFICES ASSUME acceptance' = "accepted"
             PROVE  /\ h'.pc = "done" /\ truth'.earned /\ h'.round = Len(Kinds) /\ h'.cycle = Cycles
                    /\ \A w \in Workers : Quiet(w)'
  BY DEF AcceptedInv, AcceptanceIsEarned, Quiet
<1>2. CASE Assemble
  <2>1. h.pc = "assemble" /\ h'.pc = "done" /\ UNCHANGED <<worker, req, truth>>
        /\ h'.round = h.round /\ h'.cycle = h.cycle
    BY <1>1, <1>2 DEF Assemble, HarnessType
  <2>2. PICK guards : acceptance' = assess_evidence(guards, h.cleanup)
    BY <1>2 DEF Assemble
  <2>3. /\ ~h.failure /\ ~h.unsafe /\ ~h.open
        /\ \A w \in Workers : obs[w].pids \ {h.process[w]} = {} /\ h.cleanup[w]
    BY <2>2 DEF assess_evidence
  <2>4. Good
    BY <2>3 DEF Good
  <2>5. \A w \in Workers : ~Unseen(w)
    BY <2>1 DEF Unseen, Cleaning, HarnessInv
  <2>6. truth.earned
    BY <2>4, <2>5 DEF EarnedInv
  <2>7. h.round = Len(Kinds) /\ h.cycle = Cycles
    BY <2>1, <2>3 DEF HarnessInv
  <2>8. \A w \in Workers : Quiet(w)
    BY <2>1, <2>3 DEF WorkersInv
  <2> QED BY <2>1, <2>6, <2>7, <2>8 DEF Quiet, Table
<1>3. CASE ~Assemble
  <2>1. acceptance' = acceptance
    BY <1>3, HarnessStays DEF Harness, Start, Establish, CleanFirst, CleanSecond, Gate, Load, AfterLoad,
       EndRound, NextRound, CloseSession, Score, CleanupEvidence, Poll
  <2>2. /\ h.pc = "done" /\ truth.earned /\ h.round = Len(Kinds) /\ h.cycle = Cycles
        /\ \A w \in Workers : Quiet(w)
    BY <2>1 DEF AcceptedInv, AcceptanceIsEarned, Quiet
  <2>3. ~Harness
    BY <2>2 DEF Harness, Start, Establish, CleanFirst, CleanSecond, Gate, Load, AfterLoad, EndRound,
                NextRound, CloseSession, Score, CleanupEvidence, Assemble, Poll
  <2>4. h' = h
    BY <2>3, HarnessStays
  <2>5. truth'.earned = truth.earned
    BY <2>3, HistoryStays DEF Harness
  <2>6. \A w \in Workers : Quiet(w)'
    BY <2>2, Settles DEF Quiet
  <2> QED BY <2>2, <2>4, <2>5, <2>6
<1> QED BY <1>2, <1>3

------------------------------------------------------------------------------
(* The theorems *)

\* The invariant holds when the command starts.
LEMMA InitEvidence == Init => EvidenceInv
<1> SUFFICES ASSUME Init PROVE EvidenceInv
  OBVIOUS
<1>1. Types
  BY InitTypes
<1>2. /\ h.pc = "start" /\ h.phase = "baseline" /\ h.looked = FALSE /\ h.cycle = 0 /\ h.session = FALSE
      /\ h.failure = FALSE /\ h.process = [w \in Workers |-> 1]
  BY DEF Init
<1>3. HarnessInv
  BY <1>2 DEF HarnessInv, Cleaning
<1>4. ASSUME NEW w \in Workers
      PROVE  /\ worker[w].log = << >> /\ worker[w].loaded = FALSE /\ worker[w].peak = Resident
             /\ worker[w].pid = 1 /\ \A r \in Members : req[w][r] = "none" /\ got[r] = "none"
             /\ obs[w] = NoSnapshots
  BY DEF Init, NoRequests, NoTokens
<1>5. ASSUME NEW w \in Workers
      PROVE  /\ Known(w) = {} /\ Retired(w) = {} /\ Admitted(w) = {} /\ Table(w) = {} /\ Rows(w) = {}
             /\ obs[w].joint = {} /\ DOMAIN obs[w].events = {}
  <2>6. worker[w].log = << >> /\ obs[w] = NoSnapshots
    BY <1>4
  <2>1. obs[w].events = << >> /\ obs[w].joint = {}
    BY <2>6 DEF NoSnapshots
  <2>2. DOMAIN obs[w].events = {}
    BY <2>1
  <2>3. Logged(w) = {}
    BY <2>6 DEF Logged, ToSet
  <2>4. Known(w) = {}
    BY <2>2, <2>3 DEF Known, EventsOf
  <2>5. Table(w) = {} /\ Rows(w) = {}
    BY <1>4 DEF Table, Rows, Held
  <2> QED BY <2>1, <2>2, <2>4, <2>5 DEF Retired, Admitted
<1>6. WorkersInv
  <2>1. Resident \in Nat
    BY ConcurrentAssumption
  <2>2. ASSUME NEW w \in Workers
        PROVE  /\ worker[w].loaded => worker[w].up
               /\ Table(w) # {} => worker[w].loaded
               /\ worker[w].peak >= Resident /\ worker[w].pid >= h.process[w]
    <3>1. worker[w].loaded = FALSE /\ worker[w].peak = Resident /\ worker[w].pid = 1
      BY <1>4
    <3>2. Table(w) = {}
      BY <1>5
    <3>3. h.process[w] = 1
      BY <1>2
    <3> QED BY <2>1, <3>1, <3>2, <3>3
  <2> QED BY <1>2, <2>2 DEF WorkersInv
<1>7. PeaksInv /\ ClientsInv /\ RoundsInv
  <2>1. 1 \in Workers
    BY DEF Workers
  <2>2. PeaksInv
    BY <1>2 DEF PeaksInv, Cleaning
  <2>3. ClientsInv
    BY <1>2, <1>4, <2>1 DEF ClientsInv, Cleaning
  <2>4. RoundsInv
    BY <1>5 DEF RoundsInv
  <2> QED BY <2>2, <2>3, <2>4
<1>8. \A w \in Workers : EventsInv(w)
  BY <1>5 DEF EventsInv
<1>9. ASSUME NEW w \in Workers
      PROVE  OverlapInv(w)
  <2>1. truth.together[w] = FALSE
    BY DEF Init, Unearned
  <2>2. Rows(w) # Members
    BY <1>5 DEF Members
  <2> QED BY <1>5, <2>1, <2>2 DEF OverlapInv
<1>10. EarnedInv
  <2>1. truth.earned = TRUE
    BY DEF Init, Unearned
  <2> QED BY <2>1 DEF EarnedInv
<1>11. AcceptedInv
  BY ConcurrentAssumption DEF Init, AcceptedInv
<1> QED BY <1>1, <1>3, <1>6, <1>7, <1>8, <1>9, <1>10, <1>11 DEF EvidenceInv

\* Every step keeps the invariant.
LEMMA NextEvidence == EvidenceInv /\ [Next]_vars => EvidenceInv'
<1> SUFFICES ASSUME EvidenceInv, [Next]_vars PROVE EvidenceInv'
  OBVIOUS
<1>1. /\ Types /\ HarnessInv /\ WorkersInv /\ PeaksInv /\ ClientsInv /\ RoundsInv
      /\ \A w \in Workers : EventsInv(w)
      /\ ~Dropped => \A w \in Workers : OverlapInv(w)
      /\ EarnedInv /\ AcceptedInv
  BY DEF EvidenceInv
<1>2. CASE Next
  <2>1. Types' /\ HarnessInv'
    BY <1>1, <1>2, TypesStep
  <2>2. WorkersInv' /\ PeaksInv' /\ ClientsInv' /\ RoundsInv'
    BY <1>1, <1>2, WorkersStep, PeaksStep, ClientsStep, RoundsStep
  <2>3. \A w \in Workers : EventsInv(w)'
    BY <1>1, <1>2, EventsStep
  <2>4. ASSUME ~Dropped', NEW w \in Workers
        PROVE  OverlapInv(w)'
    <3>1. ~Dropped
      BY <1>1, <1>2, <2>4, DroppedStays DEF Types
    <3> QED BY <1>1, <1>2, <2>4, <3>1, OverlapStep
  <2>5. EarnedInv' /\ AcceptedInv'
    BY <1>1, <1>2, EarnedStep, AcceptedStep
  <2> QED BY <2>1, <2>2, <2>3, <2>4, <2>5 DEF EvidenceInv
<1>3. CASE UNCHANGED vars
  <2>1. Types'
    BY <1>1, <1>3 DEF vars, Types, WorkerType, RequestType, HarnessType, SnapshotType, TruthType
  <2>2. HarnessInv' /\ PeaksInv'
    BY <1>1, <1>3 DEF vars, HarnessInv, PeaksInv, Covered, Cleaning
  <2>3. WorkersInv'
    BY <1>1, <1>3 DEF vars, WorkersInv, Quiet, Table
  <2>4. ClientsInv'
    BY <1>1, <1>3 DEF vars, ClientsInv, Victim, Kind, Ids, InRound, Cleaning
  <2>5. \A w \in Workers : Known(w)' = Known(w) /\ Table(w)' = Table(w) /\ Rows(w)' = Rows(w)
                           /\ Admitted(w)' = Admitted(w) /\ Retired(w)' = Retired(w)
    BY <1>3 DEF vars, Known, Logged, EventsOf, Admitted, Retired, Table, Rows
  <2>6. RoundsInv'
    BY <1>1, <1>3, <2>5 DEF vars, RoundsInv, InRound, Cleaning
  <2>7. \A w \in Workers : EventsInv(w)'
    BY <1>1, <1>3, <2>5 DEF vars, EventsInv
  <2>8. ASSUME ~Dropped', NEW w \in Workers
        PROVE  OverlapInv(w)'
    <3>1. OverlapInv(w)
      BY <1>1, <1>3, <2>8 DEF vars, Dropped
    <3>2. Kind' = Kind /\ req' = req /\ truth' = truth /\ obs' = obs
      BY <1>3 DEF vars, Kind
    <3> QED BY <2>5, <3>1, <3>2 DEF OverlapInv
  <2>9. EarnedInv'
    BY <1>1, <1>3 DEF vars, EarnedInv, Good, Unseen, Cleaning
  <2>10. AcceptedInv'
    BY <1>1, <1>3 DEF vars, AcceptedInv, AcceptanceIsEarned, Table
  <2> QED BY <2>1, <2>2, <2>3, <2>4, <2>6, <2>7, <2>8, <2>9, <2>10 DEF EvidenceInv
<1> QED BY <1>2, <1>3

\* In every state of an experiment the events that logs and snapshots hold are those
\* of the requests of the round, what they say happened, and a record that is not
\* open, unsafe or failed is earned unless a process was replaced that the snapshots
\* after the unload will show (record_lifecycle, derive_overlap, assess_evidence).
THEOREM EvidenceInvariant == Spec => []EvidenceInv
<1>1. Init => EvidenceInv
  BY InitEvidence
<1>2. EvidenceInv /\ [Next]_vars => EvidenceInv'
  BY NextEvidence
<1> QED BY <1>1, <1>2, PTL DEF Spec

\* An accepted record means what it says, whatever the workers, their clients and the
\* pollers did, for logs of every length and any number of rounds, cycles and faults
\* (assess_evidence).
THEOREM AcceptancesAreEarned == Spec => []AcceptanceIsEarned
<1>1. EvidenceInv => AcceptanceIsEarned
  BY DEF EvidenceInv, AcceptedInv, AcceptanceIsEarned
<1> QED BY <1>1, EvidenceInvariant, PTL

\* With four events of a worker, both members were seen admitted and retired.
LEMMA FourEvents ==
  ASSUME NEW w \in Workers, EventsInv(w), Cardinality(EventsOf(w)) = 4,
         NEW kind \in {"admitted", "retired"}, NEW r \in Members
  PROVE  \E e \in EventsOf(w) : e.kind = kind /\ e.id = r
<1> DEFINE E == EventsOf(w)
           T == {"admitted", "retired"} \X Members
           f == [e \in E |-> <<e.kind, e.id>>]
<1>1. \A e \in E : e.kind \in {"admitted", "retired"} /\ e.id \in Members
  BY DEF EventsInv, Known, Event
<1>2. \A d, e \in E : d.kind = e.kind /\ d.id = e.id => d = e
  BY DEF EventsInv, Known
<1>3. f \in [E -> T]
  BY <1>1
<1>4. f \in Injection(E, T)
  BY <1>2, <1>3 DEF Injection, IsInjective
<1>5. IsFiniteSet(T) /\ Cardinality(T) = 4
  <2>1. T = {<<"admitted", 1>>} \cup {<<"admitted", 2>>} \cup {<<"retired", 1>>} \cup {<<"retired", 2>>}
    BY DEF Members
  <2> DEFINE A == {<<"admitted", 1>>}
             B == A \cup {<<"admitted", 2>>}
             C == B \cup {<<"retired", 1>>}
  <2>2. IsFiniteSet(A) /\ Cardinality(A) = 1
    BY FS_Singleton
  <2>3. <<"admitted", 2>> \notin A /\ <<"retired", 1>> \notin B /\ <<"retired", 2>> \notin C
    OBVIOUS
  <2> HIDE DEF A
  <2>4. IsFiniteSet(B) /\ Cardinality(B) = 2
    BY <2>2, <2>3, FS_AddElement
  <2> HIDE DEF B
  <2>5. IsFiniteSet(C) /\ Cardinality(C) = 3
    BY <2>3, <2>4, FS_AddElement
  <2> HIDE DEF C
  <2>6. IsFiniteSet(C \cup {<<"retired", 2>>}) /\ Cardinality(C \cup {<<"retired", 2>>}) = 4
    BY <2>3, <2>5, FS_AddElement
  <2> QED BY <2>1, <2>6 DEF A, B, C
<1>6. f \in Surjection(E, T)
  <2> HIDE DEF f, T, E
  <2>1. Cardinality(E) = Cardinality(T)
    BY <1>5 DEF E
  <2> QED BY <1>4, <1>5, <2>1, FS_Injection
<1>7. PICK e \in E : f[e] = <<kind, r>>
  <2>1. <<kind, r>> \in T
    OBVIOUS
  <2> QED BY <1>6, <2>1 DEF Surjection
<1> QED BY <1>7

\* When no event of the round was lost, the earlier retirement witnesses the overlap.
LEMMA HappenedIsDerived ==
  ASSUME NEW w \in Workers, EventsInv(w), OverlapInv(w), truth.together[w], Cardinality(EventsOf(w)) = 4
  PROVE  derive_overlap(w) # None
<1>1. 1 \in Members /\ 2 \in Members /\ Members = {1, 2} /\ 1 # 2
  BY DEF Members
<1>2. PICK a1 \in EventsOf(w) : a1.kind = "admitted" /\ a1.id = 1
  BY <1>1, FourEvents
<1>3. PICK a2 \in EventsOf(w) : a2.kind = "admitted" /\ a2.id = 2
  BY <1>1, FourEvents
<1>4. PICK r1 \in EventsOf(w) : r1.kind = "retired" /\ r1.id = 1
  BY <1>1, FourEvents
<1>5. PICK r2 \in EventsOf(w) : r2.kind = "retired" /\ r2.id = 2
  BY <1>1, FourEvents
<1>6. \A e \in EventsOf(w) : /\ e \in Known(w) /\ e \in Event /\ obs[w].events[e.seq] = e
                             /\ e.kind \in {"admitted", "retired"} /\ e.id \in Members
                             /\ e.seq \in Nat /\ e.at \in Nat
  <2>1. \A e \in EventsOf(w) : obs[w].events[e.seq] = e
    BY DEF EventsInv, EventsOf
  <2>2. \A e \in EventsOf(w) : e \in Known(w) /\ e \in Event
    BY DEF EventsInv, Known
  <2> QED BY <2>1, <2>2 DEF Event
<1>7. \A d, e \in EventsOf(w) : d.seq = e.seq \/ (d.kind = e.kind /\ d.id = e.id) => d = e
  BY <1>6 DEF EventsInv
<1>8. Admissions(w) = {a1, a2}
  BY <1>1, <1>2, <1>3, <1>6, <1>7 DEF Admissions
<1>9. {e.id : e \in Admissions(w)} = Members /\ {e.seq : e \in Admissions(w)} = {a1.seq, a2.seq}
  BY <1>1, <1>2, <1>3, <1>8
<1> DEFINE later == Max({e.seq : e \in Admissions(w)})
           start == obs[w].events[later].at
           retired == After(w, start, later)
           witnessed == {e \in retired : e.others # {}}
<1>10. derive_overlap(w) = Interval(w, start, later, retired)
  BY <1>9 DEF derive_overlap
<1>11. later \in {a1.seq, a2.seq}
  <2>1. a1.seq \in Int /\ a2.seq \in Int
    BY <1>6
  <2> QED BY <1>9, <2>1, MaxOfTwo
<1>12. PICK a \in {a1, a2} : later = a.seq
  BY <1>11
<1>13. start = a.at /\ start \in Nat /\ later \in Nat
  BY <1>6, <1>12
<1>14. PICK d \in {r1, r2}, e \in {r1, r2} : d.id # e.id /\ d.seq < e.seq /\ {d, e} = {r1, r2}
  <2>1. r1.seq # r2.seq /\ r1.seq \in Nat /\ r2.seq \in Nat
    BY <1>1, <1>4, <1>5, <1>6, <1>7
  <2>2. r1.seq < r2.seq \/ r2.seq < r1.seq
    BY <2>1
  <2> QED BY <1>1, <1>4, <1>5, <2>2
<1>15. d \in Retired(w) /\ e \in Retired(w) /\ a \in Admitted(w) /\ d \in EventsOf(w) /\ e \in EventsOf(w)
  BY <1>2, <1>3, <1>4, <1>5, <1>6, <1>12, <1>14 DEF Retired, Admitted
<1>16. /\ e.id \in d.others /\ d.reason # "allocation-failed"
       /\ a.seq < d.seq /\ a.at <= d.at
  BY <1>14, <1>15 DEF OverlapInv
<1> HIDE DEF later, start
<1>17. d.at >= start /\ d.seq > later
  BY <1>6, <1>12, <1>13, <1>15, <1>16
<1>18. d \in retired
  <2>1. d \in UNION {Retirements(w, r) : r \in Members}
    BY <1>1, <1>4, <1>5, <1>14 DEF Retirements
  <2> QED BY <1>16, <1>17, <2>1 DEF After
<1>19. d \in witnessed /\ witnessed \subseteq {d, e}
  <2>1. d \in witnessed
    BY <1>16, <1>18
  <2>2. ASSUME NEW x \in retired
        PROVE  x \in {d, e}
    <3>1. x \in EventsOf(w) /\ x.kind = "retired"
      BY <2>2 DEF After, Retirements
    <3>2. x \in {r1, r2}
      BY <1>1, <1>4, <1>5, <1>6, <1>7, <3>1
    <3> QED BY <1>14, <3>2
  <2> QED BY <2>1, <2>2
<1> HIDE DEF retired
<1>20. First(witnessed) \in witnessed
  <2>1. \A x \in witnessed : d.seq <= x.seq
    BY <1>6, <1>14, <1>15, <1>19
  <2> HIDE DEF witnessed
  <2> QED BY <1>19, <2>1 DEF First
<1>21. First(witnessed).at \in Nat
  BY <1>6, <1>15, <1>19, <1>20
<1>22. Max({start, First(witnessed).at}) \in Nat
  BY <1>13, <1>21, MaxOfNats
<1>23. Interval(w, start, later, retired) =
         [start |-> start, end |-> Max({start, First(witnessed).at}), seq |-> later]
  BY <1>19 DEF Interval
<1> HIDE DEF witnessed
<1>24. Interval(w, start, later, retired) \in [start : Nat, end : Nat, seq : Nat \cup {None}]
  BY <1>13, <1>22, <1>23
<1> QED BY <1>10, <1>24, ConcurrentAssumption

\* Whatever the logs lost and whenever the pollers looked, a derived overlap happened;
\* and an overlap of a round whose events were all seen is derived (derive_overlap).
THEOREM OverlapIsDerivedExactly == Spec => []OverlapIsExact
<1>1. EvidenceInv => OverlapIsExact
  <2> SUFFICES ASSUME EvidenceInv, NEW w \in Workers, h.pc \in {"round", "clean", "next", "close"},
                      Kind # "serial"
               PROVE  /\ derive_overlap(w) # None => truth.together[w]
                      /\ (h.pc = "next" /\ Cardinality(EventsOf(w)) = 4 /\ truth.together[w])
                           => derive_overlap(w) # None
    BY DEF OverlapIsExact
  <2>1. ~Dropped
    BY DEF EvidenceInv, Dropped, HarnessInv, Cleaning
  <2>2. EventsInv(w) /\ OverlapInv(w)
    BY <2>1 DEF EvidenceInv
  <2> QED BY <2>2, DerivedHappened, HappenedIsDerived
<1> QED BY <1>1, EvidenceInvariant, PTL

=============================================================================
