--------------------------- MODULE PlacementProofs ---------------------------
(***************************************************************************)
(* Proofs about Placement, for every set of inputs, every age limit and    *)
(* any number of troubles: what a qualified link run says of the path, how *)
(* old the evidence of an activated plan is, which machines answered, that *)
(* the plan does not depend on the order of the workers and is accepted by *)
(* them, and why activation may refuse it.                                 *)
(***************************************************************************)
EXTENDS Placement, FiniteSetTheorems, SequenceTheorems, WellFoundedInduction, TLAPS

-----------------------------------------------------------------------------
(* The inductive invariant *)

LinkFields == {"phase", "paths", "at", "monitor", "read", "observed", "stopped", "completed",
               "rejected", "first", "last", "probes", "artifact"}
LinkPhases == {"idle", "running", "joining", "deciding", "sealing", "done"}
KnownRoutes == {"direct", "derp-relayed", "peer-relayed", "inactive"}
Observation == [at : Nat, route : KnownRoutes \cup {"unknown"}]

Counters ==
  /\ stage \in {1, 2} /\ now \in 0..MaxNow /\ troubles \in 0..MaxTroubles
  /\ reroutes \in 0..MaxReroutes /\ route \in KnownRoutes

\* What a qualified artifact says.
Steady ==
  link.artifact # None /\ link.artifact.qualified =>
    /\ link.first # "unknown" /\ link.first = link.last
    /\ \A p \in ToSet(link.artifact.paths) : p.route = link.first

\* The same of the artifact that was written.
SoundArtifact ==
  /\ link.artifact.paths \in Seq(Observation) /\ link.artifact.paths # << >>
  /\ link.artifact.qualified =>
       link.first # "unknown" /\ \A p \in ToSet(link.artifact.paths) : p.route = link.first

\* The observations at both ends of the run are among the stored ones, and none is
\* ever taken out, however late the monitor thread appends its own.
LinkInv ==
  /\ DOMAIN link = LinkFields /\ link.phase \in LinkPhases
  /\ link.paths \in Seq(Observation) /\ link.at \in Nat
  /\ link.monitor = "reading" => link.read \in Observation
  /\ link.phase # "idle" => \E i \in DOMAIN link.paths : link.paths[i].route = link.first
  /\ link.phase \in {"deciding", "sealing", "done"} =>
       \E i \in DOMAIN link.paths : link.paths[i].route = link.last
  /\ link.artifact # None => link.phase = "done"
  /\ Steady

\* the snapshot of worker k
SnapshotOf(e, k) == e.worker = Worker(k) /\ e.at \in Nat

OneSnapshot == Len(evidence) = 1 /\ evidence = <<evidence[1]>> /\ SnapshotOf(evidence[1], 1)

TwoSnapshots(ws) ==
  /\ Len(ws) = 2 /\ ws = <<ws[1], ws[2]>>
  /\ SnapshotOf(ws[1], 1) /\ SnapshotOf(ws[2], 2)

\* Where the operator is says what has been measured.
FlowInv ==
  /\ link.phase \in {"idle", "done"} \/ pc = "link"
  /\ pc \in {"setup", "path", "snapshot", "seal"} => link.phase = "done" /\ link.artifact.at \in Nat
  /\ pc \in {"path", "snapshot", "seal"} => setup \in Nat
  /\ pc \in {"snapshot", "seal"} => path.at \in Nat
  /\ pc \in {"memory", "compute", "link", "setup", "path"} => evidence = << >>
  /\ pc \in {"link", "setup", "path"} => stage = 1
  /\ pc = "snapshot" => (stage = 1 /\ evidence = << >>) \/ (stage = 2 /\ OneSnapshot)
  /\ pc = "seal" => TwoSnapshots(evidence)
  /\ evidence = << >> \/ OneSnapshot \/ TwoSnapshots(evidence)
  /\ accepted = << >> \/ Len(accepted) = 2

ProfileFacts(ps) == \A p \in ps : p.assignment \in {Stages[1], Stages[2]} /\ p.at \in Nat

Planned == {"activate", "state", "report", "send", "sent"}

BundleFacts ==
  /\ ProfileFacts(bundle.profiles)
  /\ bundle.at \in Nat /\ bundle.setup \in Nat /\ bundle.link.at \in Nat /\ bundle.path.at \in Nat
  /\ TwoSnapshots(bundle.workers)

PlanFacts ==
  /\ plan.stages = assignments_for(plan.stages[1].worker, plan.stages[2].worker,
                                   plan.stages[1].end, in.manifest.layers)
  /\ Worker(1).id # Worker(2).id

\* None of the evidence is too old when the clock reads t, and no snapshot was
\* when the bundle was sealed.
FreshAt(t) ==
  /\ \A at \in {p.at : p \in bundle.profiles} \cup {bundle.link.at, bundle.setup, bundle.at} :
       t - at \in 0..ProfileAge
  /\ \A at \in {bundle.path.at} \cup {e.at : e \in ToSet(bundle.workers)} :
       bundle.at - at \in 0..SnapshotAge

ActivationInv ==
  /\ ProfileFacts(profiles)
  /\ Measured /\ pc \in {"plan"} \cup Planned => BundleFacts
  /\ pc \in Planned => PlanFacts
  /\ Measured /\ pc \in {"state", "report", "send", "sent"} => FreshAt(asOf)

PlacementInv == Counters /\ LinkInv /\ FlowInv /\ ActivationInv

-----------------------------------------------------------------------------
(* Steps that leave a part of the invariant alone *)

\* The clock and the path stay; at most one trouble is spent.
LEMMA CountersFrame ==
  ASSUME Counters, UNCHANGED <<now, reroutes, route>>, stage' \in {1, 2},
         troubles' = troubles \/ Spend
  PROVE  Counters'
<1>1. MaxTroubles \in Nat
  BY PlacementAssumption
<1>2. troubles' \in 0..MaxTroubles
  BY <1>1 DEF Counters, Spend
<1> QED BY <1>2 DEF Counters

\* The link run stays.
LEMMA LinkFrame ==
  ASSUME LinkInv, link' = link
  PROVE  LinkInv'
BY DEF LinkInv, Steady

\* What a snapshot or a profile is of depends on the inputs alone.
LEMMA SnapshotsFrame ==
  ASSUME in' = in
  PROVE  /\ \A e, k : SnapshotOf(e, k)' <=> SnapshotOf(e, k)
         /\ \A ws : TwoSnapshots(ws)' <=> TwoSnapshots(ws)
         /\ evidence' = evidence => (OneSnapshot' <=> OneSnapshot)
         /\ \A ps : ProfileFacts(ps)' <=> ProfileFacts(ps)
         /\ Stages' = Stages
<1>1. \A e, k : SnapshotOf(e, k)' <=> SnapshotOf(e, k)
  BY DEF SnapshotOf, Worker
<1>2. \A ws : TwoSnapshots(ws)' <=> TwoSnapshots(ws)
  BY <1>1 DEF TwoSnapshots
<1>3. evidence' = evidence => (OneSnapshot' <=> OneSnapshot)
  BY <1>1 DEF OneSnapshot
<1>4. Stages' = Stages
  BY DEF Stages, Worker
<1>5. \A ps : ProfileFacts(ps)' <=> ProfileFacts(ps)
  BY <1>4 DEF ProfileFacts
<1> QED BY <1>1, <1>2, <1>3, <1>4, <1>5

\* What is known of the bundle and the plan holds as long as they stay.
LEMMA FactsFrame ==
  ASSUME UNCHANGED <<in, bundle, plan>>
  PROVE  /\ BundleFacts' <=> BundleFacts
         /\ PlanFacts' <=> PlanFacts
         /\ \A t : FreshAt(t)' <=> FreshAt(t)
<1>1. BundleFacts' <=> BundleFacts
  <2>1. (ProfileFacts(bundle.profiles))' <=> ProfileFacts(bundle.profiles)
    BY DEF ProfileFacts, Stages, Worker
  <2>2. TwoSnapshots(bundle.workers)' <=> TwoSnapshots(bundle.workers)
    BY DEF TwoSnapshots, SnapshotOf, Worker
  <2> QED BY <2>1, <2>2 DEF BundleFacts
<1>2. PlanFacts' <=> PlanFacts
  BY DEF PlanFacts, Worker
<1>3. \A t : FreshAt(t)' <=> FreshAt(t)
  BY DEF FreshAt
<1> QED BY <1>1, <1>2, <1>3

\* The operator does not come closer to loading the plan.
LEMMA ActivationFrame ==
  ASSUME ActivationInv, UNCHANGED <<in, bundle, plan, asOf>>, ProfileFacts(profiles'),
         pc' \in {"plan"} \cup Planned => pc \in {"plan"} \cup Planned,
         pc' \in Planned => pc \in Planned,
         pc' \in {"state", "report", "send", "sent"} => pc \in {"state", "report", "send", "sent"}
  PROVE  ActivationInv'
<1>1. Measured' <=> Measured
  BY DEF Measured
<1>2. ProfileFacts(profiles)'
  BY DEF ProfileFacts, Stages, Worker
<1>3. FreshAt(asOf)' <=> FreshAt(asOf)
  BY DEF FreshAt
<1> QED BY <1>1, <1>2, <1>3, FactsFrame DEF ActivationInv, Planned

-----------------------------------------------------------------------------
(* The link run *)

\* An observation of the path is well formed, whatever the path is.
LEMMA Observed ==
  ASSUME Counters, NEW probe \in BOOLEAN
  PROVE  observe_path(probe) \in Observation
<1>1. now \in Nat /\ route \in KnownRoutes
  <2>1. MaxNow \in Nat
    BY PlacementAssumption
  <2> QED BY <2>1 DEF Counters
<1> QED BY <1>1 DEF observe_path, Observation

\* Observations are only appended.
LEMMA Appended ==
  ASSUME NEW s \in Seq(Observation), NEW o \in Observation
  PROVE  /\ Append(s, o) \in Seq(Observation) /\ Append(s, o) # << >>
         /\ \A r : (\E i \in DOMAIN s : s[i].route = r) =>
                     \E i \in DOMAIN Append(s, o) : Append(s, o)[i].route = r
         /\ \E i \in DOMAIN Append(s, o) : Append(s, o)[i].route = o.route
<1>1. /\ Append(s, o) \in Seq(Observation) /\ Len(Append(s, o)) = Len(s) + 1
      /\ \A i \in 1..Len(s) : Append(s, o)[i] = s[i]
      /\ Append(s, o)[Len(s) + 1] = o /\ Len(s) \in Nat
  BY AppendProperties, LenProperties
<1>2. DOMAIN s = 1..Len(s) /\ DOMAIN Append(s, o) = 1..(Len(s) + 1)
  BY <1>1, LenProperties
<1>3. \A i \in DOMAIN s : i \in DOMAIN Append(s, o) /\ Append(s, o)[i] = s[i]
  BY <1>1, <1>2
<1>4. Len(s) + 1 \in DOMAIN Append(s, o)
  BY <1>1, <1>2
<1> QED BY <1>1, <1>3, <1>4

\* A sequence of one element.
LEMMA Singleton ==
  ASSUME NEW S, NEW o \in S
  PROVE  <<o>> \in Seq(S) /\ DOMAIN <<o>> = {1} /\ <<o>>[1] = o
<1>1. <<o>> \in Seq(S)
  OBVIOUS
<1>2. DOMAIN <<o>> = {1} /\ <<o>>[1] = o
  OBVIOUS
<1> QED BY <1>1, <1>2

\* One known route: that of every observation.
LEMMA NotRejected ==
  ASSUME NEW s \in Seq(Observation), path_rejection(s) = None
  PROVE  \E r \in KnownRoutes : \A p \in ToSet(s) : p.route = r
<1> DEFINE routes == {p.route : p \in ToSet(s)}
<1>1. None # "missing" /\ None # "unavailable" /\ None # "mixed"
  BY PlannerAssumption
<1>2. (\A p \in ToSet(s) : p.route # "unknown") /\ Cardinality(routes) = 1
  BY <1>1 DEF path_rejection
<1>3. \A p \in ToSet(s) : p \in Observation
  <2>1. \A i \in DOMAIN s : s[i] \in Observation
    BY LenProperties, ElementOfSeq
  <2> QED BY <2>1 DEF ToSet
<1>4. routes \subseteq KnownRoutes
  BY <1>2, <1>3 DEF Observation
<1>5. IsFiniteSet(KnownRoutes)
  <2>1. /\ IsFiniteSet({"direct"}) /\ IsFiniteSet({"derp-relayed"})
        /\ IsFiniteSet({"peer-relayed"}) /\ IsFiniteSet({"inactive"})
    BY FS_Singleton
  <2>2. IsFiniteSet({"direct"} \cup {"derp-relayed"}) /\ IsFiniteSet({"peer-relayed"} \cup {"inactive"})
    BY <2>1, FS_Union
  <2>3. IsFiniteSet(({"direct"} \cup {"derp-relayed"}) \cup ({"peer-relayed"} \cup {"inactive"}))
    BY <2>2, FS_Union
  <2>4. KnownRoutes = ({"direct"} \cup {"derp-relayed"}) \cup ({"peer-relayed"} \cup {"inactive"})
    BY DEF KnownRoutes
  <2> QED BY <2>3, <2>4
<1>6. IsFiniteSet(routes)
  BY <1>4, <1>5, FS_Subset
<1>7. PICK r : routes = {r}
  BY <1>2, <1>6, FS_Singleton
<1> QED BY <1>4, <1>7

\* A step of the link run leaves the rest as it is: outside the run it cannot
\* change the phase.
LEMMA LinkFlow ==
  ASSUME FlowInv, ActivationInv, LinkUnchanged, pc' = pc,
         pc = "link" \/ (link'.phase = link.phase /\ link'.artifact = link.artifact)
  PROVE  FlowInv' /\ ActivationInv'
<1>1. UNCHANGED <<in, stage, profiles, setup, path, evidence, bundle, plan, asOf, accepted>>
  BY DEF LinkUnchanged
<1>2. ActivationInv'
  BY <1>1, ActivationFrame DEF ActivationInv
<1>3. /\ \A ws : TwoSnapshots(ws)' <=> TwoSnapshots(ws)
      /\ OneSnapshot' <=> OneSnapshot
  BY <1>1, SnapshotsFrame
<1>4. TwoSnapshots(evidence)' <=> TwoSnapshots(evidence)
  BY <1>1 DEF TwoSnapshots, SnapshotOf, Worker
<1>5. FlowInv'
  BY <1>1, <1>3, <1>4 DEF FlowInv
<1> QED BY <1>2, <1>5

\* The observation before the run is the first stored one.
LEMMA LinkBeginStep ==
  ASSUME Counters, LinkInv, LinkBegin
  PROVE  LinkInv'
<1>1. observe_path(TRUE) \in Observation
  BY Observed
<1>2. <<observe_path(TRUE)>> \in Seq(Observation) /\ 1 \in DOMAIN <<observe_path(TRUE)>>
  BY <1>1, Singleton
<1>3. now \in Nat
  <2>1. MaxNow \in Nat
    BY PlacementAssumption
  <2> QED BY <2>1 DEF Counters
<1>4. /\ DOMAIN link' = LinkFields /\ link'.phase = "running" /\ link'.at = now
      /\ link'.paths = <<observe_path(TRUE)>> /\ link'.monitor = "waiting"
      /\ link'.first = observe_path(TRUE).route /\ link'.artifact = link.artifact
      /\ link.artifact = None
  BY DEF LinkBegin, LinkInv, LinkFields
<1>5. link'.paths[1].route = link'.first /\ 1 \in DOMAIN link'.paths
  BY <1>2, <1>4
<1> QED BY <1>2, <1>3, <1>4, <1>5 DEF LinkInv, Steady, LinkPhases

\* A step that adds an observation keeps the ones at both ends.
LEMMA AppendStep ==
  ASSUME LinkInv, NEW o \in Observation,
         DOMAIN link' = LinkFields, link'.phase \in LinkPhases, link'.at = link.at,
         link'.paths = Append(link.paths, o), link'.monitor # "reading" \/ link'.read = link.read,
         link'.monitor = "reading" => link.monitor = "reading",
         link'.phase # "idle" => link.phase # "idle", link'.first = link.first,
         link'.phase \in {"deciding", "sealing", "done"} =>
           \/ link'.last = o.route
           \/ link.phase \in {"deciding", "sealing", "done"} /\ link'.last = link.last,
         link'.artifact = link.artifact,
         link'.artifact # None => link'.phase = "done" /\ link'.last = link.last
  PROVE  LinkInv'
<1>1. /\ Append(link.paths, o) \in Seq(Observation)
      /\ \A r : (\E i \in DOMAIN link.paths : link.paths[i].route = r) =>
                  \E i \in DOMAIN Append(link.paths, o) : Append(link.paths, o)[i].route = r
      /\ \E i \in DOMAIN Append(link.paths, o) : Append(link.paths, o)[i].route = o.route
  BY Appended DEF LinkInv
<1>2. link'.phase # "idle" => \E i \in DOMAIN link'.paths : link'.paths[i].route = link'.first
  BY <1>1 DEF LinkInv
<1>3. link'.phase \in {"deciding", "sealing", "done"} =>
        \E i \in DOMAIN link'.paths : link'.paths[i].route = link'.last
  BY <1>1 DEF LinkInv
<1>4. link'.paths \in Seq(Observation) /\ link'.at \in Nat
  BY <1>1 DEF LinkInv
<1>5. link'.monitor = "reading" => link'.read \in Observation
  BY DEF LinkInv
<1>6. Steady'
  BY DEF Steady, LinkInv
<1> QED BY <1>2, <1>3, <1>4, <1>5, <1>6 DEF LinkInv

\* A step that adds none.
LEMMA KeepStep ==
  ASSUME LinkInv,
         DOMAIN link' = LinkFields, link'.phase \in LinkPhases, link'.at = link.at,
         link'.paths = link.paths, link'.monitor = "reading" => link'.read \in Observation,
         link'.phase = "idle" <=> link.phase = "idle",
         link'.phase \in {"deciding", "sealing", "done"} => link.phase \in {"deciding", "sealing", "done"},
         link'.first = link.first, link'.last = link.last,
         link'.artifact # None => link'.phase = "done", Steady'
  PROVE  LinkInv'
BY DEF LinkInv

\* What is sealed as qualified was one known route throughout: VerifyLink looks at
\* the observations that go into the artifact, and both ends are among them.
LEMMA LinkSealStep ==
  ASSUME LinkInv, LinkSeal
  PROVE  /\ LinkInv' /\ link'.phase = "done"
         /\ (pc' = "setup" /\ link'.artifact.at \in Nat /\ SoundArtifact') \/ pc' = "abandoned"
<1> DEFINE a == [at |-> link.at, paths |-> link.paths, completed |-> link.completed,
                 qualified |-> link.completed /\ link.rejected = None, load |-> "idle",
                 probes |-> link.probes]
<1>1. /\ link.phase = "sealing"
      /\ link' = [link EXCEPT !.phase = "done", !.artifact = IF VerifyLink(a) THEN a ELSE None]
      /\ pc' = IF VerifyLink(a) THEN "setup" ELSE "abandoned"
  BY DEF LinkSeal
<1>2. /\ DOMAIN link' = LinkFields /\ link'.phase = "done" /\ link'.at = link.at
      /\ link'.paths = link.paths /\ link'.monitor = link.monitor /\ link'.read = link.read
      /\ link'.first = link.first /\ link'.last = link.last
      /\ link'.artifact = IF VerifyLink(a) THEN a ELSE None
  BY <1>1 DEF LinkInv, LinkFields
<1>3. a.at \in Nat /\ a.paths = link.paths
  BY DEF LinkInv
<1>4. ASSUME VerifyLink(a), a.qualified
      PROVE  /\ link.first # "unknown" /\ link.first = link.last
             /\ \A p \in ToSet(a.paths) : p.route = link.first
  <2>1. path_rejection(link.paths) = None
    BY <1>4, <1>3 DEF VerifyLink
  <2>2. PICK r \in KnownRoutes : \A p \in ToSet(link.paths) : p.route = r
    BY <2>1, NotRejected DEF LinkInv
  <2>3. \A i \in DOMAIN link.paths : link.paths[i].route = r
    BY <2>2 DEF ToSet
  <2>4. link.first = r /\ link.last = r
    BY <1>1, <2>3 DEF LinkInv
  <2>5. r # "unknown"
    BY DEF KnownRoutes
  <2> QED BY <1>3, <2>2, <2>4, <2>5
<1> HIDE DEF a
<1>5. Steady'
  BY <1>2, <1>4 DEF Steady
<1>6. LinkInv'
  BY <1>1, <1>2, <1>5, KeepStep DEF LinkInv, LinkPhases
<1>7. ASSUME VerifyLink(a)
      PROVE  SoundArtifact'
  <2>1. link.paths \in Seq(Observation) /\ link.paths # << >>
    BY <1>1 DEF LinkInv
  <2>2. link'.artifact = a
    BY <1>2, <1>7
  <2> QED BY <1>2, <1>3, <1>4, <1>7, <2>1, <2>2 DEF SoundArtifact
<1> QED BY <1>1, <1>2, <1>3, <1>6, <1>7

\* Each step of the link run and of its monitor thread.
LEMMA LinkStepPreserves ==
  ASSUME PlacementInv, LinkStep
  PROVE  PlacementInv'
<1>0. Counters /\ LinkInv /\ FlowInv /\ ActivationInv
  BY DEF PlacementInv
<1>1. CASE LinkBegin
  <2>1. LinkInv'
    BY <1>0, <1>1, LinkBeginStep
  <2>2. pc = "link" /\ UNCHANGED <<pc, troubles, now, reroutes, route, stage>> /\ LinkUnchanged
    BY <1>1 DEF LinkBegin, LinkUnchanged
  <2>3. FlowInv' /\ ActivationInv'
    BY <1>0, <2>2, LinkFlow
  <2>4. Counters'
    BY <1>0, <2>2 DEF Counters
  <2> QED BY <2>1, <2>3, <2>4 DEF PlacementInv
<1>2. CASE MonitorReads
  <2>1. observe_path(FALSE) \in Observation
    BY <1>0, Observed
  <2>2. /\ DOMAIN link' = LinkFields /\ link'.phase = link.phase /\ link'.at = link.at
        /\ link'.paths = link.paths /\ link'.read = observe_path(FALSE)
        /\ link'.first = link.first /\ link'.last = link.last /\ link'.artifact = link.artifact
    BY <1>0, <1>2 DEF MonitorReads, LinkInv, LinkFields
  <2>3. Steady'
    BY <1>0, <2>2 DEF LinkInv, Steady
  <2>4. LinkInv'
    BY <1>0, <2>1, <2>2, <2>3 DEF LinkInv
  <2>5. UNCHANGED <<pc, troubles, now, reroutes, route, stage>> /\ LinkUnchanged
    BY <1>2 DEF MonitorReads, LinkUnchanged
  <2>6. FlowInv' /\ ActivationInv'
    BY <1>0, <2>2, <2>5, LinkFlow
  <2>7. Counters'
    BY <1>0, <2>5 DEF Counters
  <2> QED BY <2>4, <2>6, <2>7 DEF PlacementInv
<1>3. CASE MonitorAppends
  <2>1. link.read \in Observation
    BY <1>0, <1>3 DEF MonitorAppends, LinkInv
  <2>2. /\ DOMAIN link' = LinkFields /\ link'.phase = link.phase /\ link'.at = link.at
        /\ link'.paths = Append(link.paths, link.read) /\ link'.monitor # "reading"
        /\ link'.first = link.first /\ link'.last = link.last /\ link'.artifact = link.artifact
    BY <1>0, <1>3 DEF MonitorAppends, LinkInv, LinkFields
  <2>3. LinkInv'
    BY <1>0, <2>1, <2>2, AppendStep DEF LinkInv
  <2>4. UNCHANGED <<pc, troubles, now, reroutes, route, stage>> /\ LinkUnchanged
    BY <1>3 DEF MonitorAppends, LinkUnchanged
  <2>5. FlowInv' /\ ActivationInv'
    BY <1>0, <2>2, <2>4, LinkFlow
  <2>6. Counters'
    BY <1>0, <2>4 DEF Counters
  <2> QED BY <2>3, <2>5, <2>6 DEF PlacementInv
<1>4. ASSUME NEW completed \in BOOLEAN, LinkReply(completed)
      PROVE  PlacementInv'
  <2>1. /\ link.phase = "running" /\ link'.phase = "joining"
        /\ DOMAIN link' = LinkFields /\ link'.at = link.at /\ link'.paths = link.paths
        /\ link'.monitor = "reading" => link.monitor = "reading"
        /\ link'.read = link.read
        /\ link'.first = link.first /\ link'.last = link.last /\ link'.artifact = link.artifact
    BY <1>0, <1>4 DEF LinkReply, LinkInv, LinkFields
  <2>2. Steady'
    BY <1>0, <2>1 DEF LinkInv, Steady
  <2>3. LinkInv'
    BY <1>0, <2>1, <2>2, KeepStep DEF LinkInv, LinkPhases
  <2>4. /\ UNCHANGED <<pc, now, reroutes, route, stage>> /\ LinkUnchanged
        /\ troubles' = troubles \/ Spend
    BY <1>4 DEF LinkReply, LinkUnchanged
  <2>5. pc = "link"
    BY <1>0, <2>1 DEF FlowInv
  <2>6. FlowInv' /\ ActivationInv'
    BY <1>0, <2>4, <2>5, LinkFlow
  <2>7. Counters'
    BY <1>0, <2>4, CountersFrame DEF Counters
  <2> QED BY <2>3, <2>6, <2>7 DEF PlacementInv
<1>5. CASE LinkObserveAfter
  <2>1. observe_path(TRUE) \in Observation
    BY <1>0, Observed
  <2>2. /\ link.phase = "joining" /\ link'.phase = "deciding"
        /\ DOMAIN link' = LinkFields /\ link'.at = link.at
        /\ link'.paths = Append(link.paths, observe_path(TRUE))
        /\ link'.monitor = link.monitor /\ link'.read = link.read
        /\ link'.first = link.first /\ link'.last = observe_path(TRUE).route
        /\ link'.artifact = link.artifact
    BY <1>0, <1>5 DEF LinkObserveAfter, LinkInv, LinkFields
  <2>3. link.artifact = None
    BY <1>0, <2>2 DEF LinkInv
  <2>4. LinkInv'
    BY <1>0, <2>1, <2>2, <2>3, AppendStep DEF LinkPhases
  <2>5. UNCHANGED <<pc, troubles, now, reroutes, route, stage>> /\ LinkUnchanged
    BY <1>5 DEF LinkObserveAfter, LinkUnchanged
  <2>6. pc = "link"
    BY <1>0, <2>2 DEF FlowInv
  <2>7. FlowInv' /\ ActivationInv'
    BY <1>0, <2>5, <2>6, LinkFlow
  <2>8. Counters'
    BY <1>0, <2>5 DEF Counters
  <2> QED BY <2>4, <2>7, <2>8 DEF PlacementInv
<1>6. CASE LinkDecide
  <2>1. /\ link.phase = "deciding" /\ link'.phase = "sealing"
        /\ DOMAIN link' = LinkFields /\ link'.at = link.at /\ link'.paths = link.paths
        /\ link'.monitor = link.monitor /\ link'.read = link.read
        /\ link'.first = link.first /\ link'.last = link.last /\ link'.artifact = link.artifact
    BY <1>0, <1>6 DEF LinkDecide, LinkInv, LinkFields
  <2>2. Steady'
    BY <1>0, <2>1 DEF LinkInv, Steady
  <2>3. LinkInv'
    BY <1>0, <2>1, <2>2, KeepStep DEF LinkInv, LinkPhases
  <2>4. UNCHANGED <<pc, troubles, now, reroutes, route, stage>> /\ LinkUnchanged
    BY <1>6 DEF LinkDecide, LinkUnchanged
  <2>5. pc = "link"
    BY <1>0, <2>1 DEF FlowInv
  <2>6. FlowInv' /\ ActivationInv'
    BY <1>0, <2>4, <2>5, LinkFlow
  <2>7. Counters'
    BY <1>0, <2>4 DEF Counters
  <2> QED BY <2>3, <2>6, <2>7 DEF PlacementInv
<1>7. CASE LinkSeal
  <2>1. LinkInv' /\ link'.phase = "done" /\ pc' \in {"setup", "abandoned"}
        /\ (pc' = "setup" => link'.artifact.at \in Nat)
    BY <1>0, <1>7, LinkSealStep
  <2>2. /\ UNCHANGED <<troubles, now, reroutes, route, stage>>
        /\ UNCHANGED <<in, profiles, setup, path, evidence, bundle, plan, asOf, accepted>>
    BY <1>7 DEF LinkSeal, LinkUnchanged
  <2>3. pc = "link" /\ evidence = << >> /\ stage = 1
    BY <1>0, <1>7 DEF LinkSeal, FlowInv
  <2>4. FlowInv'
    BY <1>0, <2>1, <2>2, <2>3 DEF FlowInv
  <2>5. ActivationInv'
    BY <1>0, <2>1, <2>2, ActivationFrame DEF ActivationInv, Planned
  <2>6. Counters'
    BY <1>0, <2>2 DEF Counters
  <2> QED BY <2>1, <2>4, <2>5, <2>6 DEF PlacementInv
<1> QED BY <1>1, <1>2, <1>3, <1>4, <1>5, <1>6, <1>7 DEF LinkStep

-----------------------------------------------------------------------------
(* The operator's other steps *)

\* Nothing but the clock, the machines and the path moves.
LEMMA EnvironmentStep ==
  ASSUME PlacementInv, Counters',
         UNCHANGED <<in, pc, stage, profiles, link, setup, path, evidence, bundle, plan, asOf, accepted>>
  PROVE  PlacementInv'
<1>1. LinkInv /\ FlowInv /\ ActivationInv
  BY DEF PlacementInv
<1>2. LinkInv'
  BY <1>1, LinkFrame
<1>3. ActivationInv'
  BY <1>1, ActivationFrame DEF ActivationInv
<1>4. OneSnapshot' <=> OneSnapshot
  BY SnapshotsFrame
<1>5. TwoSnapshots(evidence)' <=> TwoSnapshots(evidence)
  BY DEF TwoSnapshots, SnapshotOf, Worker
<1>6. FlowInv'
  BY <1>1, <1>4, <1>5 DEF FlowInv
<1> QED BY <1>2, <1>3, <1>6 DEF PlacementInv

Measuring == {"memory", "compute", "link", "setup", "path", "snapshot", "seal"}

\* Once the bundle is sealed, or given up, only the plan is worked on.
LEMMA SealedFlow ==
  ASSUME FlowInv, pc # "link", pc' \notin Measuring, UNCHANGED <<in, link, evidence>>,
         accepted' = accepted \/ Len(accepted') = 2
  PROVE  FlowInv'
<1>1. OneSnapshot' <=> OneSnapshot
  BY SnapshotsFrame
<1>2. TwoSnapshots(evidence)' <=> TwoSnapshots(evidence)
  BY DEF TwoSnapshots, SnapshotOf, Worker
<1> QED BY <1>1, <1>2 DEF FlowInv, Measuring

\* A new artifact names the stage it was measured for and the time.
LEMMA ProfileAdded ==
  ASSUME PlacementInv, NEW k \in {1, 2}, NEW kind, NEW completed, NEW load,
         run_profile(k, kind, completed, load)
  PROVE  /\ ProfileFacts(profiles')
         /\ UNCHANGED <<in, now, route, reroutes, link, setup, path, evidence, bundle, plan, asOf, accepted>>
<1>1. ProfileFacts(profiles) /\ now \in Nat
  <2>1. MaxNow \in Nat
    BY PlacementAssumption
  <2> QED BY <2>1 DEF PlacementInv, ActivationInv, Counters
<1>2. Stages[k] \in {Stages[1], Stages[2]}
  OBVIOUS
<1> DEFINE p == [kind |-> kind, assignment |-> Stages[k], env |-> Environment(k), at |-> now,
                 completed |-> completed, load |-> load, capacity |-> Worker(k).admission,
                 weight |-> in.settings.weight]
<1>3. profiles' = profiles \cup {p}
  BY DEF run_profile
<1>4. p.assignment = Stages[k] /\ p.at = now
  OBVIOUS
<1> HIDE DEF p
<1>5. ProfileFacts(profiles')
  BY <1>1, <1>2, <1>3, <1>4 DEF ProfileFacts
<1> QED BY <1>5 DEF run_profile

\* The profile actions, refused ones included.
LEMMA ProfilePreserves ==
  ASSUME PlacementInv,
         \/ \E kind \in {"memory", "compute"}, completed \in BOOLEAN : Profile(kind, completed)
         \/ ProfileAgain \/ ProfileRefused
  PROVE  PlacementInv'
<1>0. Counters /\ LinkInv /\ FlowInv /\ ActivationInv
  BY DEF PlacementInv
<1>1. ASSUME NEW kind \in {"memory", "compute"}, NEW completed \in BOOLEAN, Profile(kind, completed)
      PROVE  PlacementInv'
  <2>1. stage \in {1, 2}
    BY <1>0 DEF Counters
  <2>2. /\ ProfileFacts(profiles')
        /\ UNCHANGED <<in, now, route, reroutes, link, setup, path, evidence, bundle, plan, asOf, accepted>>
    <3>1. run_profile(stage, kind, completed, "idle")
      BY <1>1 DEF Profile
    <3> QED BY <2>1, <3>1, ProfileAdded
  <2>3. /\ pc = kind /\ pc' = IF kind = "memory" THEN "compute" ELSE IF stage = 1 THEN "memory" ELSE "link"
        /\ stage' = IF kind = "compute" THEN 3 - stage ELSE stage
        /\ troubles' = troubles \/ Spend
    BY <1>1 DEF Profile
  <2>4. stage' \in {1, 2} /\ (pc' = "link" => stage' = 1) /\ pc' \in {"compute", "memory", "link"}
    BY <2>1, <2>3
  <2>5. Counters'
    BY <1>0, <2>2, <2>3, <2>4, CountersFrame
  <2>6. LinkInv'
    BY <1>0, <2>2, LinkFrame
  <2>7. FlowInv'
    <3>1. evidence' = << >> /\ link.phase \in {"idle", "done"}
      BY <1>0, <2>2, <2>3 DEF FlowInv
    <3> QED BY <1>0, <2>2, <2>4, <3>1 DEF FlowInv
  <2>8. ActivationInv'
    BY <1>0, <2>2, <2>4, ActivationFrame DEF Planned
  <2> QED BY <2>5, <2>6, <2>7, <2>8 DEF PlacementInv
<1>2. CASE ProfileAgain
  <2>1. run_profile(1, "memory", TRUE, "busy") /\ Spend /\ UNCHANGED <<pc, stage>> /\ pc = "memory"
    BY <1>2 DEF ProfileAgain
  <2>2. /\ ProfileFacts(profiles')
        /\ UNCHANGED <<in, now, route, reroutes, link, setup, path, evidence, bundle, plan, asOf, accepted>>
    BY <2>1, ProfileAdded
  <2>3. Counters'
    BY <1>0, <2>1, <2>2, CountersFrame DEF Counters
  <2>4. LinkInv'
    BY <1>0, <2>2, LinkFrame
  <2>5. FlowInv'
    BY <1>0, <2>1, <2>2 DEF FlowInv
  <2>6. ActivationInv'
    BY <1>0, <2>1, <2>2, ActivationFrame
  <2> QED BY <2>3, <2>4, <2>5, <2>6 DEF PlacementInv
<1>3. CASE ProfileRefused
  <2>1. /\ pc' = "abandoned" /\ pc # "link"
        /\ UNCHANGED <<in, stage, now, route, troubles, reroutes, profiles, link, setup, path,
                       evidence, bundle, plan, asOf, accepted>>
    BY <1>3 DEF ProfileRefused
  <2>2. FlowInv'
    BY <1>0, <2>1, SealedFlow DEF Measuring
  <2>3. ActivationInv'
    BY <1>0, <2>1, ActivationFrame DEF ActivationInv, Planned
  <2>4. Counters' /\ LinkInv'
    BY <1>0, <2>1, LinkFrame DEF Counters
  <2> QED BY <2>2, <2>3, <2>4 DEF PlacementInv
<1> QED BY <1>1, <1>2, <1>3

-----------------------------------------------------------------------------
(* The bundle *)

\* The second snapshot after the first.
LEMMA AppendSecond ==
  ASSUME NEW x, NEW y
  PROVE  Append(<<x>>, y) = <<x, y>>
<1>1. <<x>> \in Seq({x, y}) /\ Len(<<x>>) = 1
  OBVIOUS
<1>2. /\ Append(<<x>>, y) \in Seq({x, y}) /\ Len(Append(<<x>>, y)) = 2
      /\ Append(<<x>>, y)[1] = x /\ Append(<<x>>, y)[2] = y
  BY <1>1, AppendProperties
<1>3. <<x, y>> \in Seq({x, y}) /\ Len(<<x, y>>) = 2
  OBVIOUS
<1>4. \A i \in 1..2 : Append(<<x>>, y)[i] = <<x, y>>[i]
  BY <1>2
<1> DEFINE s == Append(<<x>>, y)  t == <<x, y>>
<1>5. s \in Seq({x, y}) /\ t \in Seq({x, y}) /\ Len(s) = Len(t) /\ \A i \in 1..Len(s) : s[i] = t[i]
  BY <1>2, <1>3, <1>4
<1> HIDE DEF s, t
<1>6. s = t
  BY <1>5, SeqEqual
<1> QED BY <1>6 DEF s, t

\* The clock is a number.
LEMMA ClockIsNat ==
  ASSUME Counters
  PROVE  now \in Nat
<1>1. MaxNow \in Nat
  BY PlacementAssumption
<1> QED BY <1>1 DEF Counters

\* The snapshot taken next is that of the next worker.
LEMMA SnapshotAdded ==
  ASSUME PlacementInv, SnapshotWorker
  PROVE  PlacementInv'
<1>0. Counters /\ LinkInv /\ FlowInv /\ ActivationInv
  BY DEF PlacementInv
<1>1. /\ pc = "snapshot" /\ evidence' = Append(evidence, WorkerEvidence(stage))
      /\ pc' = (IF stage = 1 THEN "snapshot" ELSE "seal") /\ stage' = 3 - stage
      /\ UNCHANGED <<in, now, route, troubles, reroutes, profiles, link, setup, path,
                     bundle, plan, asOf, accepted>>
  BY DEF SnapshotWorker
<1>2. stage \in {1, 2}
  BY <1>0 DEF Counters
<1> DEFINE e == WorkerEvidence(stage)
<1>3. SnapshotOf(e, stage)
  BY <1>0, ClockIsNat DEF SnapshotOf, WorkerEvidence
<1> HIDE DEF e
<1>4. Worker(1)' = Worker(1) /\ Worker(2)' = Worker(2)
  BY <1>1 DEF Worker
<1>5. /\ stage = 1 => OneSnapshot' /\ pc' = "snapshot" /\ stage' = 2
      /\ stage = 2 => TwoSnapshots(evidence)' /\ pc' = "seal"
  <2>1. ASSUME stage = 1
        PROVE  OneSnapshot' /\ pc' = "snapshot" /\ stage' = 2
    <3>1. evidence = << >>
      BY <1>0, <1>1, <2>1 DEF FlowInv
    <3>2. evidence' = <<e>>
      BY <1>1, <3>1 DEF e
    <3>3. Len(evidence') = 1 /\ evidence'[1] = e /\ evidence' = <<evidence'[1]>>
      BY <3>2
    <3>4. SnapshotOf(evidence[1], 1)'
      BY <1>3, <1>4, <2>1, <3>3 DEF SnapshotOf
    <3> QED BY <1>1, <2>1, <3>3, <3>4 DEF OneSnapshot
  <2>2. ASSUME stage = 2
        PROVE  TwoSnapshots(evidence)' /\ pc' = "seal"
    <3>1. OneSnapshot
      BY <1>0, <1>1, <2>2 DEF FlowInv
    <3>2. PICK f : evidence = <<f>> /\ SnapshotOf(f, 1)
      BY <3>1 DEF OneSnapshot
    <3>3. evidence' = <<f, e>>
      BY <1>1, <3>2, AppendSecond DEF e
    <3>4. Len(evidence') = 2 /\ evidence'[1] = f /\ evidence'[2] = e
          /\ evidence' = <<evidence'[1], evidence'[2]>>
      BY <3>3
    <3>5. SnapshotOf(evidence[1], 1)' /\ SnapshotOf(evidence[2], 2)'
      BY <1>3, <1>4, <2>2, <3>2, <3>4 DEF SnapshotOf
    <3> QED BY <1>1, <2>2, <3>4, <3>5 DEF TwoSnapshots
  <2> QED BY <2>1, <2>2
<1>6. FlowInv'
  BY <1>0, <1>1, <1>2, <1>5 DEF FlowInv
<1>7. ActivationInv'
  BY <1>0, <1>1, <1>2, ActivationFrame DEF ActivationInv, Planned
<1>8. Counters'
  BY <1>0, <1>1, <1>2 DEF Counters
<1>9. LinkInv'
  BY <1>0, <1>1, LinkFrame
<1> QED BY <1>6, <1>7, <1>8, <1>9 DEF PlacementInv

\* What goes into the bundle has been measured.
LEMMA SealPreserves ==
  ASSUME PlacementInv, Seal
  PROVE  PlacementInv'
<1>0. Counters /\ LinkInv /\ FlowInv /\ ActivationInv
  BY DEF PlacementInv
<1>1. /\ pc = "seal" /\ pc' \in {"plan", "abandoned"}
      /\ UNCHANGED <<in, stage, now, route, troubles, reroutes, profiles, link, setup,
                     path, evidence, plan, asOf, accepted>>
  BY DEF Seal
<1>2. pc' = "plan" =>
        bundle' = [manifest |-> in.manifest.digest, workload |-> in.workload,
                   workers |-> evidence, profiles |-> profiles, link |-> link.artifact,
                   setup |-> setup, path |-> path, at |-> now, load |-> "idle"]
  BY DEF Seal
<1>3. pc' = "plan" =>
        /\ bundle'.profiles = profiles /\ bundle'.at = now /\ bundle'.setup = setup
        /\ bundle'.link = link.artifact /\ bundle'.path = path /\ bundle'.workers = evidence
  BY <1>2
<1>4. /\ link.artifact.at \in Nat /\ setup \in Nat /\ path.at \in Nat /\ now \in Nat
      /\ TwoSnapshots(evidence) /\ ProfileFacts(profiles)
  BY <1>0, <1>1, ClockIsNat DEF FlowInv, ActivationInv
<1>5. (\A ws : TwoSnapshots(ws)' <=> TwoSnapshots(ws)) /\ (\A ps : ProfileFacts(ps)' <=> ProfileFacts(ps))
  BY <1>1, SnapshotsFrame
<1>6. pc' = "plan" => BundleFacts'
  <2> SUFFICES ASSUME pc' = "plan" PROVE BundleFacts'
    OBVIOUS
  <2>1. ProfileFacts(bundle.profiles)'
    BY <1>1, <1>3, <1>4 DEF ProfileFacts, Stages, Worker
  <2>2. TwoSnapshots(bundle.workers)'
    BY <1>1, <1>3, <1>4 DEF TwoSnapshots, SnapshotOf, Worker
  <2> QED BY <1>3, <1>4, <2>1, <2>2 DEF BundleFacts
<1>7. ProfileFacts(profiles)'
  BY <1>1, <1>4 DEF ProfileFacts, Stages, Worker
<1>8. ActivationInv'
  BY <1>1, <1>6, <1>7 DEF ActivationInv, Planned
<1>9. FlowInv'
  BY <1>0, <1>1, SealedFlow DEF Measuring
<1>10. Counters' /\ LinkInv'
  BY <1>0, <1>1, LinkFrame DEF Counters
<1> QED BY <1>8, <1>9, <1>10 DEF PlacementInv

\* The actions that make the bundle.
LEMMA BundlePreserves ==
  ASSUME PlacementInv, MeasureSetup \/ SnapshotPath \/ SnapshotWorker \/ Seal
  PROVE  PlacementInv'
<1>0. Counters /\ LinkInv /\ FlowInv /\ ActivationInv /\ now \in Nat
  BY ClockIsNat DEF PlacementInv
<1>1. CASE MeasureSetup
  <2>1. /\ pc = "setup" /\ pc' = "path" /\ setup' = now
        /\ UNCHANGED <<in, stage, now, route, troubles, reroutes, profiles, link, path, evidence,
                       bundle, plan, asOf, accepted>>
    BY <1>1 DEF MeasureSetup
  <2>2. FlowInv'
    BY <1>0, <2>1 DEF FlowInv
  <2>3. ActivationInv'
    BY <1>0, <2>1, ActivationFrame DEF ActivationInv, Planned
  <2>4. Counters' /\ LinkInv'
    BY <1>0, <2>1, LinkFrame DEF Counters
  <2> QED BY <2>2, <2>3, <2>4 DEF PlacementInv
<1>2. CASE SnapshotPath
  <2>1. /\ pc = "path" /\ pc' = "snapshot" /\ path'.at = now
        /\ UNCHANGED <<in, stage, now, route, troubles, reroutes, profiles, link, setup, evidence,
                       bundle, plan, asOf, accepted>>
    BY <1>2 DEF SnapshotPath
  <2>2. FlowInv'
    BY <1>0, <2>1 DEF FlowInv
  <2>3. ActivationInv'
    BY <1>0, <2>1, ActivationFrame DEF ActivationInv, Planned
  <2>4. Counters' /\ LinkInv'
    BY <1>0, <2>1, LinkFrame DEF Counters
  <2> QED BY <2>2, <2>3, <2>4 DEF PlacementInv
<1> QED BY <1>1, <1>2, SnapshotAdded, SealPreserves

-----------------------------------------------------------------------------
(* The plan *)

\* The joined record has the fields of the first one.
LEMMA LeftFields ==
  ASSUME NEW f, NEW g, NEW x \in DOMAIN f
  PROVE  x \in DOMAIN Joined(f, g) /\ Joined(f, g)[x] = f[x]
BY DEF Joined

\* The other way round where f has no such field.
LEMMA RightFields ==
  ASSUME NEW f, NEW g, NEW x \in DOMAIN g, x \notin DOMAIN f
  PROVE  x \in DOMAIN Joined(f, g) /\ Joined(f, g)[x] = g[x]
BY DEF Joined

\* The stages of a signed plan are the selected placement's.
LEMMA PlanStages ==
  ASSUME NEW selected, NEW b
  PROVE  DeploymentPlan(unsigned_plan(in, selected, b)).stages =
           assignments_for(selected.first, selected.final, selected.split, in.manifest.layers)
<1> DEFINE u == unsigned_plan(in, selected, b)
           stages == assignments_for(selected.first, selected.final, selected.split, in.manifest.layers)
<1> HIDE DEF stages
<1>1. "stages" \in DOMAIN u /\ u.stages = stages
  <2>1. PICK base, x, y : u = Joined(Joined(base, x), y) /\ "stages" \in DOMAIN base /\ base.stages = stages
    BY DEF unsigned_plan, stages
  <2>2. "stages" \in DOMAIN Joined(base, x) /\ Joined(base, x)["stages"] = stages
    BY <2>1, LeftFields
  <2>3. "stages" \in DOMAIN Joined(Joined(base, x), y) /\ Joined(Joined(base, x), y)["stages"] = stages
    BY <2>2, LeftFields
  <2> QED BY <2>1, <2>3
<1> HIDE DEF u
<1>2. DeploymentPlan(u).stages = u.stages
  <2> DEFINE d == [plan_digest |-> u]
             r == [schema |-> "1.0", weight |-> None, workload_digest |-> None, bundle_digest |-> None]
  <2>1. DeploymentPlan(u) = Joined(Joined(d, u), r)
    BY DEF DeploymentPlan
  <2>2. "stages" \notin DOMAIN d
    OBVIOUS
  <2> HIDE DEF d, r
  <2>3. "stages" \in DOMAIN Joined(d, u) /\ Joined(d, u)["stages"] = u["stages"]
    BY <1>1, <2>2, RightFields
  <2>4. Joined(Joined(d, u), r)["stages"] = u["stages"]
    BY <2>3, LeftFields
  <2> QED BY <2>1, <2>4
<1> QED BY <1>1, <1>2 DEF u, stages

\* What the two stages of a split look like.
LEMMA Assignments ==
  ASSUME NEW first, NEW final, NEW split, NEW layers, NEW s,
         s = assignments_for(first, final, split, layers)
  PROVE  /\ Len(s) = 2 /\ s = <<s[1], s[2]>> /\ ToSet(s) = {s[1], s[2]}
         /\ s[1].index = 0 /\ s[1].worker = first /\ s[1].end = split
         /\ s[2].index = 1 /\ s[2].worker = final
<1>1. DOMAIN s = {1, 2}
  BY DEF assignments_for
<1>2. ToSet(s) = {s[1], s[2]}
  BY <1>1 DEF ToSet
<1> QED BY <1>2 DEF assignments_for

\* Two workers of one name are refused.
LEMMA RefusesEqualNames ==
  ASSUME Refusal(in, bundle) = None
  PROVE  Worker(1).id # Worker(2).id
<1>1. /\ None # "workers" /\ None # "unsupported" /\ None # "dtypes" /\ None # "bundle"
  BY PlannerAssumption
<1>2. validate_workers(in.manifest, in.workers, in.settings) = None
  BY <1>1 DEF Refusal
<1> QED BY <1>1, <1>2 DEF validate_workers, Worker

\* The stages of a plan are those of a placement of two different workers.
LEMMA PlanPreserves ==
  ASSUME PlacementInv, Plan
  PROVE  PlacementInv'
<1>0. Counters /\ LinkInv /\ FlowInv /\ ActivationInv
  BY DEF PlacementInv
<1>1. /\ pc = "plan" /\ plan' = create_plan(in, bundle, Evaluations(bundle)).plan
      /\ pc' = (IF plan' = None THEN "unplanned" ELSE IF Measured THEN "activate" ELSE "send")
      /\ UNCHANGED <<in, stage, now, route, troubles, reroutes, profiles, link, setup, path,
                     evidence, bundle, asOf, accepted>>
  BY DEF Plan
<1>2. pc' \in {"unplanned", "activate", "send"} /\ (Measured => pc' # "send")
  BY <1>1
<1>3. pc' # "unplanned" => PlanFacts'
  <2> SUFFICES ASSUME pc' # "unplanned" PROVE PlanFacts'
    OBVIOUS
  <2>1. plan' # None
    BY <1>1
  <2>2. Refusal(in, bundle) = None /\ \E selected : plan' = DeploymentPlan(unsigned_plan(in, selected, bundle))
    BY <1>1, <2>1 DEF create_plan
  <2>3. PICK selected : plan' = DeploymentPlan(unsigned_plan(in, selected, bundle))
    BY <2>2
  <2>4. plan'.stages = assignments_for(selected.first, selected.final, selected.split, in.manifest.layers)
    BY <2>3, PlanStages
  <2>5. /\ plan'.stages[1].worker = selected.first /\ plan'.stages[2].worker = selected.final
        /\ plan'.stages[1].end = selected.split
    BY <2>4, Assignments
  <2>6. Worker(1).id # Worker(2).id
    BY <2>2, RefusesEqualNames
  <2>7. Worker(1)' = Worker(1) /\ Worker(2)' = Worker(2)
    BY <1>1 DEF Worker
  <2> QED BY <1>1, <2>4, <2>5, <2>6, <2>7 DEF PlanFacts
<1>4. Measured' <=> Measured
  BY <1>1 DEF Measured
<1>5. Measured => BundleFacts'
  <2>1. ProfileFacts(bundle.profiles)' <=> ProfileFacts(bundle.profiles)
    BY <1>1 DEF ProfileFacts, Stages, Worker
  <2>2. TwoSnapshots(bundle.workers)' <=> TwoSnapshots(bundle.workers)
    BY <1>1 DEF TwoSnapshots, SnapshotOf, Worker
  <2>3. Measured => BundleFacts
    BY <1>0, <1>1 DEF ActivationInv
  <2> QED BY <1>1, <2>1, <2>2, <2>3 DEF BundleFacts
<1>6. ProfileFacts(profiles)'
  BY <1>0, <1>1 DEF ActivationInv, ProfileFacts, Stages, Worker
<1>7. ActivationInv'
  BY <1>2, <1>3, <1>4, <1>5, <1>6 DEF ActivationInv, Planned
<1>8. FlowInv'
  BY <1>0, <1>1, <1>2, SealedFlow DEF Measuring
<1>9. Counters' /\ LinkInv'
  BY <1>0, <1>1, LinkFrame DEF Counters
<1> QED BY <1>7, <1>8, <1>9 DEF PlacementInv

-----------------------------------------------------------------------------
(* Activation *)

\* Fresh as an interval.
LEMMA FreshRange ==
  ASSUME NEW at \in Nat, NEW when \in Nat, NEW limit \in Nat, Fresh(at, when, limit)
  PROVE  when - at \in 0..limit
BY DEF Fresh

\* An evaluation without a reason against any part of the evidence.
LEMMA MeasuredMeansNoReason ==
  ASSUME NEW reasons, Evaluation(reasons).status = "measured"
  PROVE  reasons = {}
BY DEF Evaluation

\* Nothing against a worker: its snapshot was fresh, and its two profiles are unique,
\* complete and fit.
LEMMA NoWorkerReason ==
  ASSUME NEW b, NEW e, NEW a, WorkerReasons(b, e, a) = {}
  PROVE  /\ Fresh(e.at, b.at, SnapshotAge)
         /\ Cardinality(Matches(b, e, a, "memory")) = 1
         /\ Cardinality(Matches(b, e, a, "compute")) = 1
         /\ \A p \in Matches(b, e, a, "memory") :
              assess_fit(Artifact(p), e.capacity, e.host, e.device, "footprint-v1") = "safe"
         /\ \A p \in Matches(b, e, a, "compute") : p.completed
<1> DEFINE memory == Matches(b, e, a, "memory")
           compute == Matches(b, e, a, "compute")
           fresh == Fresh(e.at, b.at, SnapshotAge)
           fits == {assess_fit(Artifact(p), e.capacity, e.host, e.device, "footprint-v1") : p \in memory}
           reasons == MatchReasons(memory, compute, fresh, fits, e.capacity)
<1>1. reasons = {}
  BY DEF WorkerReasons
<1>2. \A p \in memory : assess_fit(Artifact(p), e.capacity, e.host, e.device, "footprint-v1") \in fits
  OBVIOUS
<1> HIDE DEF memory, compute, fresh, fits
<1>3. ~fresh => <<"unknown", "STALE_PHYSICAL_SNAPSHOT">> \in reasons
  BY DEF MatchReasons
<1>4. Cardinality(memory) # 1 => <<"unknown", "MISSING_OR_AMBIGUOUS_MEMORY">> \in reasons
  BY DEF MatchReasons
<1>5. Cardinality(compute) # 1 => <<"unknown", "MISSING_OR_AMBIGUOUS_COMPUTE">> \in reasons
  BY DEF MatchReasons
<1>6. fresh /\ Cardinality(memory) = 1 /\ Cardinality(compute) = 1
  BY <1>1, <1>3, <1>4, <1>5
<1>7. \A p \in compute : ~p.completed => <<"unknown", "INCOMPLETE_COMPUTE">> \in reasons
  BY <1>6 DEF MatchReasons
<1>8. \A f \in fits : f # "safe" => <<f, "FIT">> \in reasons
  BY <1>6 DEF MatchReasons
<1>9. (\A p \in compute : p.completed) /\ \A f \in fits : f = "safe"
  BY <1>1, <1>7, <1>8
<1> QED BY <1>2, <1>6, <1>9 DEF fresh, memory, compute

\* Nothing against the link: it runs in the order of the plan and was qualified.
LEMMA NoLinkReason ==
  ASSUME NEW b, NEW a, LinkReasons(b, a) = {}
  PROVE  /\ a[1].worker = Worker(1).id /\ a[2].worker = Worker(2).id
         /\ Fresh(b.path.at, b.at, SnapshotAge)
         /\ check_link_compatibility(b) = {}
<1>1. <<a[1].worker, a[2].worker>> = <<Worker(1).id, Worker(2).id>>
  BY DEF LinkReasons
<1>2. ~Fresh(b.path.at, b.at, SnapshotAge) => <<"unknown", "STALE_PATH_SNAPSHOT">> \in LinkReasons(b, a)
  BY <1>1 DEF LinkReasons
<1>3. \A r \in check_link_compatibility(b) : <<"unknown", r>> \in LinkReasons(b, a)
  BY <1>1 DEF LinkReasons
<1> QED BY <1>1, <1>2, <1>3

\* The snapshot the bundle holds of a worker.
LEMMA EvidenceOfWorker ==
  ASSUME BundleFacts, PlanFacts, NEW k \in {1, 2}
  PROVE  EvidenceOf(bundle, Worker(k).id) = bundle.workers[k]
<1>1. TwoSnapshots(bundle.workers) /\ Worker(1).id # Worker(2).id
  BY DEF BundleFacts, PlanFacts
<1>2. DOMAIN bundle.workers = {1, 2}
  BY <1>1 DEF TwoSnapshots
<1>3. ToSet(bundle.workers) = {bundle.workers[1], bundle.workers[2]}
  BY <1>2 DEF ToSet
<1>4. bundle.workers[1].worker.id = Worker(1).id /\ bundle.workers[2].worker.id = Worker(2).id
  BY <1>1 DEF TwoSnapshots, SnapshotOf
<1> QED BY <1>1, <1>3, <1>4 DEF EvidenceOf

\* Every profile of the bundle is of one of the stages of the plan: a placement with
\* another split or the other order has no profile of its own, and is not measured.
LEMMA ProfilesAreOfThePlan ==
  ASSUME BundleFacts, PlanFacts, NEW e, NEW k \in {1, 2},
         Cardinality(Matches(bundle, e, plan.stages[k], "memory")) = 1
  PROVE  plan.stages[k] = Stages[k]
<1>1. Matches(bundle, e, plan.stages[k], "memory") # {}
  BY FS_EmptySet
<1>2. PICK p \in bundle.profiles : p.assignment = plan.stages[k]
  BY <1>1 DEF Matches
<1>3. plan.stages[k] \in {Stages[1], Stages[2]}
  BY <1>2 DEF BundleFacts, ProfileFacts
<1>4. Stages[1].index = 0 /\ Stages[2].index = 1
  BY Assignments DEF Stages
<1>5. plan.stages[1].index = 0 /\ plan.stages[2].index = 1
  BY Assignments DEF PlanFacts
<1> QED BY <1>3, <1>4, <1>5

\* A measured plan has no reason against it.
LEMMA MeasuredPlan ==
  ASSUME BundleFacts, PlanFacts, evaluate(bundle, plan.stages).status = "measured"
  PROVE  /\ LinkReasons(bundle, plan.stages) = {}
         /\ \A k \in {1, 2} : /\ plan.stages[k].worker = Worker(k).id
                               /\ plan.stages[k] = Stages[k]
                               /\ WorkerReasons(bundle, bundle.workers[k], Stages[k]) = {}
<1>2. ToSet(plan.stages) = {plan.stages[1], plan.stages[2]}
  BY Assignments DEF PlanFacts
<1>3. /\ \A a \in ToSet(plan.stages) : WorkerReasons(bundle, EvidenceOf(bundle, a.worker), a) = {}
      /\ LinkReasons(bundle, plan.stages) = {}
  <2> DEFINE worker == UNION {WorkerReasons(bundle, EvidenceOf(bundle, a.worker), a) :
                                a \in ToSet(plan.stages)}
  <2>1. evaluate(bundle, plan.stages) = Evaluation(worker \cup LinkReasons(bundle, plan.stages))
    BY DEF evaluate
  <2>2. (\A a \in ToSet(plan.stages) : WorkerReasons(bundle, EvidenceOf(bundle, a.worker), a) \subseteq worker)
    OBVIOUS
  <2> HIDE DEF worker
  <2>3. worker \cup LinkReasons(bundle, plan.stages) = {}
    BY <2>1, MeasuredMeansNoReason
  <2>4. worker = {} /\ LinkReasons(bundle, plan.stages) = {}
    BY <2>3
  <2> QED BY <2>2, <2>4
<1>4. plan.stages[1].worker = Worker(1).id /\ plan.stages[2].worker = Worker(2).id
  BY <1>3, NoLinkReason
<1>5. \A k \in {1, 2} : plan.stages[k] = Stages[k] /\ WorkerReasons(bundle, bundle.workers[k], Stages[k]) = {}
  <2> TAKE k \in {1, 2}
  <2>1. EvidenceOf(bundle, plan.stages[k].worker) = bundle.workers[k]
    BY <1>4, EvidenceOfWorker
  <2>2. WorkerReasons(bundle, bundle.workers[k], plan.stages[k]) = {}
    BY <1>2, <1>3, <2>1
  <2>3. plan.stages[k] = Stages[k]
    BY <2>2, NoWorkerReason, ProfilesAreOfThePlan
  <2> QED BY <2>2, <2>3
<1> QED BY <1>3, <1>4, <1>5

\* Nor has a plan that validate_activation lets through.
LEMMA ChecksMeanNoReason ==
  ASSUME BundleFacts, PlanFacts, StaticChecks(plan, bundle, now)
  PROVE  /\ LinkReasons(bundle, plan.stages) = {}
         /\ \A k \in {1, 2} : /\ plan.stages[k].worker = Worker(k).id
                               /\ plan.stages[k] = Stages[k]
                               /\ WorkerReasons(bundle, bundle.workers[k], Stages[k]) = {}
<1>1. evaluate(bundle, plan.stages).status = "measured"
  BY DEF StaticChecks
<1> QED BY <1>1, MeasuredPlan

\* What it decides from the plan, the bundle and the clock.
LEMMA ChecksMeanFresh ==
  ASSUME BundleFacts, PlanFacts, now \in Nat, StaticChecks(plan, bundle, now)
  PROVE  FreshAt(now)
<1>0. ProfileAge \in Nat /\ SnapshotAge \in Nat
  BY PlacementAssumption
<1>1. /\ \A q \in bundle.profiles : q.assignment \in ToSet(plan.stages) => Fresh(q.at, now, ProfileAge)
      /\ Fresh(bundle.at, now, ProfileAge) /\ Fresh(bundle.link.at, now, ProfileAge)
      /\ Fresh(bundle.setup, now, ProfileAge)
  BY DEF StaticChecks
<1>2. ToSet(plan.stages) = {plan.stages[1], plan.stages[2]}
  BY Assignments DEF PlanFacts
<1>4. Fresh(bundle.path.at, bundle.at, SnapshotAge)
  BY ChecksMeanNoReason, NoLinkReason
<1>5. \A k \in {1, 2} : Fresh(bundle.workers[k].at, bundle.at, SnapshotAge) /\ plan.stages[k] = Stages[k]
  BY ChecksMeanNoReason, NoWorkerReason
<1>6. /\ bundle.at \in Nat /\ bundle.setup \in Nat /\ bundle.link.at \in Nat /\ bundle.path.at \in Nat
      /\ \A p \in bundle.profiles : p.at \in Nat /\ p.assignment \in ToSet(plan.stages)
  BY <1>2, <1>5 DEF BundleFacts, ProfileFacts
<1>7. \A p \in bundle.profiles : now - p.at \in 0..ProfileAge
  BY <1>0, <1>1, <1>6, FreshRange
<1>8. /\ now - bundle.at \in 0..ProfileAge /\ now - bundle.link.at \in 0..ProfileAge
      /\ now - bundle.setup \in 0..ProfileAge /\ bundle.at - bundle.path.at \in 0..SnapshotAge
  BY <1>0, <1>1, <1>4, <1>6, FreshRange
<1>9. /\ ToSet(bundle.workers) = {bundle.workers[1], bundle.workers[2]}
      /\ bundle.workers[1].at \in Nat /\ bundle.workers[2].at \in Nat
  <2>1. TwoSnapshots(bundle.workers)
    BY DEF BundleFacts
  <2>2. DOMAIN bundle.workers = {1, 2}
    BY <2>1 DEF TwoSnapshots
  <2> QED BY <2>1, <2>2 DEF ToSet, TwoSnapshots, SnapshotOf
<1>10. \A e \in ToSet(bundle.workers) : bundle.at - e.at \in 0..SnapshotAge
  BY <1>0, <1>5, <1>6, <1>9, FreshRange
<1> QED BY <1>7, <1>8, <1>10 DEF FreshAt

\* The activation and the sending of the plan.
LEMMA ActivationPreserves ==
  ASSUME PlacementInv, ActivateBegin \/ ActivateState \/ ActivateReport \/ Send
  PROVE  PlacementInv'
<1>0. Counters /\ LinkInv /\ FlowInv /\ ActivationInv /\ stage \in {1, 2}
  BY DEF PlacementInv, Counters
<1>1. CASE ActivateBegin
  <2>1. /\ pc = "activate" /\ asOf' = now
        /\ pc' = IF StaticChecks(plan, bundle, now) THEN "state" ELSE "refused"
        /\ UNCHANGED <<in, stage, now, route, troubles, reroutes, profiles, link, setup, path,
                       evidence, bundle, plan, accepted>>
    BY <1>1 DEF ActivateBegin
  <2>2. PlanFacts /\ (Measured => BundleFacts)
    BY <1>0, <2>1 DEF ActivationInv, Planned
  <2>3. Measured /\ pc' = "state" => FreshAt(now)
    BY <1>0, <2>1, <2>2, ClockIsNat, ChecksMeanFresh
  <2>4. FreshAt(asOf)' <=> FreshAt(now)
    BY <2>1 DEF FreshAt
  <2>5. (BundleFacts' <=> BundleFacts) /\ (PlanFacts' <=> PlanFacts)
    BY <2>1, FactsFrame
  <2>6. (Measured' <=> Measured) /\ ProfileFacts(profiles)'
    BY <1>0, <2>1 DEF Measured, ActivationInv, ProfileFacts, Stages, Worker
  <2>7. ActivationInv'
    BY <2>1, <2>2, <2>3, <2>4, <2>5, <2>6 DEF ActivationInv, Planned
  <2>8. FlowInv'
    BY <1>0, <2>1, SealedFlow DEF Measuring
  <2>9. Counters' /\ LinkInv'
    BY <1>0, <2>1, LinkFrame DEF Counters
  <2> QED BY <2>7, <2>8, <2>9 DEF PlacementInv
<1>2. CASE ActivateState \/ ActivateReport
  <2>1. /\ pc \in {"state", "report"} /\ pc' \in {"state", "report", "send", "refused"}
        /\ stage' \in {1, 2}
        /\ UNCHANGED <<in, now, route, troubles, reroutes, profiles, link, setup, path,
                       evidence, bundle, plan, asOf, accepted>>
    BY <1>0, <1>2 DEF ActivateState, ActivateReport
  <2>2. ActivationInv'
    BY <1>0, <2>1, ActivationFrame DEF ActivationInv, Planned
  <2>3. FlowInv'
    BY <1>0, <2>1, SealedFlow DEF Measuring
  <2>4. Counters' /\ LinkInv'
    BY <1>0, <2>1, LinkFrame DEF Counters
  <2> QED BY <2>2, <2>3, <2>4 DEF PlacementInv
<1>3. CASE Send
  <2>1. /\ pc = "send" /\ pc' = "sent"
        /\ UNCHANGED <<in, stage, now, route, troubles, reroutes, profiles, link, setup, path,
                       evidence, bundle, plan, asOf>>
    BY <1>3 DEF Send
  <2>2. Len(plan.stages) = 2
    BY <1>0, <2>1, Assignments DEF ActivationInv, Planned, PlanFacts
  <2>3. PICK answer : accepted' = answer /\ DOMAIN answer = 1..2 /\ answer = [k \in 1..2 |-> answer[k]]
    BY <1>3, <2>2 DEF Send
  <2>4. Len(accepted') = 2
    BY <2>3
  <2>5. Measured /\ pc' = "sent" => FreshAt(asOf)
    BY <1>0, <2>1 DEF ActivationInv
  <2>6. ActivationInv'
    BY <1>0, <2>1, ActivationFrame DEF ActivationInv, Planned
  <2>7. FlowInv'
    BY <1>0, <2>1, <2>4, SealedFlow DEF Measuring
  <2>8. Counters' /\ LinkInv'
    BY <1>0, <2>1, LinkFrame DEF Counters
  <2> QED BY <2>6, <2>7, <2>8 DEF PlacementInv
<1> QED BY <1>1, <1>2, <1>3

-----------------------------------------------------------------------------
(* The theorems *)

\* The invariant holds at the start.
LEMMA InitPlacement ==
  ASSUME Init
  PROVE  PlacementInv
<1>1. {MaxNow, MaxTroubles, MaxReroutes} \subseteq Nat
  BY PlacementAssumption
<1>2. Counters
  BY <1>1 DEF Init, Counters, KnownRoutes
<1>3. LinkInv
  <2>1. << >> \in Seq(Observation)
    OBVIOUS
  <2>2. /\ link.phase = "idle" /\ link.paths = << >> /\ link.at = 0 /\ link.monitor = "none"
        /\ link.artifact = None /\ DOMAIN link = LinkFields
    BY DEF Init, LinkFields
  <2> QED BY <2>1, <2>2 DEF LinkInv, Steady, LinkPhases
<1>4. FlowInv
  BY DEF Init, FlowInv
<1>5. ActivationInv
  BY DEF Init, ActivationInv, Measured, ProfileFacts, Planned
<1> QED BY <1>2, <1>3, <1>4, <1>5 DEF PlacementInv

\* Every step keeps it.
LEMMA NextPlacement ==
  ASSUME PlacementInv, [Next]_vars
  PROVE  PlacementInv'
<1>0. Counters
  BY DEF PlacementInv
<1>1. CASE LinkStep
  BY <1>1, LinkStepPreserves
<1>2. CASE Tick
  <2>1. /\ now < MaxNow /\ now' = now + 1
        /\ UNCHANGED <<stage, route, troubles, reroutes>>
        /\ UNCHANGED <<in, pc, stage, profiles, link, setup, path, evidence, bundle, plan, asOf, accepted>>
    BY <1>2 DEF Tick
  <2>2. MaxNow \in Nat
    BY PlacementAssumption
  <2>3. Counters'
    BY <1>0, <2>1, <2>2 DEF Counters
  <2> QED BY <2>1, <2>3, EnvironmentStep
<1>3. ASSUME NEW k \in {1, 2}, MachineChanges(k)
      PROVE  PlacementInv'
  <2>1. /\ Spend /\ UNCHANGED <<now, reroutes, route>>
        /\ UNCHANGED <<in, pc, stage, profiles, link, setup, path, evidence, bundle, plan, asOf, accepted>>
    BY <1>3 DEF MachineChanges
  <2>2. Counters'
    BY <1>0, <2>1, CountersFrame DEF Counters
  <2> QED BY <2>1, <2>2, EnvironmentStep
<1>4. CASE Reroute
  <2>1. /\ reroutes < MaxReroutes /\ reroutes' = reroutes + 1 /\ route' \in KnownRoutes
        /\ (troubles' = troubles \/ Spend) /\ UNCHANGED now
        /\ UNCHANGED <<in, pc, stage, profiles, link, setup, path, evidence, bundle, plan, asOf, accepted>>
    BY <1>4 DEF Reroute, KnownRoutes
  <2>2. MaxReroutes \in Nat /\ MaxTroubles \in Nat
    BY PlacementAssumption
  <2>3. reroutes' \in 0..MaxReroutes /\ troubles' \in 0..MaxTroubles
    BY <1>0, <2>1, <2>2 DEF Counters, Spend
  <2>4. Counters'
    BY <1>0, <2>1, <2>3 DEF Counters
  <2> QED BY <2>1, <2>4, EnvironmentStep
<1>5. CASE UNCHANGED vars
  <2>1. /\ UNCHANGED <<now, troubles, reroutes, route>>
        /\ UNCHANGED <<in, pc, stage, profiles, link, setup, path, evidence, bundle, plan, asOf, accepted>>
    BY <1>5 DEF vars
  <2>2. Counters'
    BY <1>0, <2>1 DEF Counters
  <2> QED BY <2>1, <2>2, EnvironmentStep
<1> QED BY <1>1, <1>2, <1>3, <1>4, <1>5, ProfilePreserves, BundlePreserves, PlanPreserves,
           ActivationPreserves DEF Next

\* The inductive invariant of the placement work flow.
THEOREM PlacementInvariant == Spec => []PlacementInv
BY InitPlacement, NextPlacement, PTL DEF Spec

\* A qualified link run saw one known path throughout, for any number of
\* observations of the monitor thread, appended whenever it likes.
THEOREM LinkIsSteady == Spec => []QualifiedMeansSteady
<1>1. ASSUME PlacementInv
      PROVE  QualifiedMeansSteady
  <2>1. Counters /\ LinkInv /\ FlowInv
    BY <1>1 DEF PlacementInv
  <2>2. Len(evidence) \in 0..2
    BY <2>1 DEF FlowInv, OneSnapshot, TwoSnapshots
  <2>3. Len(accepted) \in {0, 2}
    BY <2>1 DEF FlowInv
  <2>4. TypeOK
    BY <2>1, <2>2, <2>3 DEF TypeOK, Counters, LinkInv, KnownRoutes, LinkPhases
  <2>5. Steady
    BY <2>1 DEF LinkInv
  <2> QED BY <2>4, <2>5 DEF QualifiedMeansSteady, Steady
<1> QED BY <1>1, PlacementInvariant, PTL

\* No evidence of an activated measured plan was too old when validate_activation
\* read the clock, and no snapshot when the bundle was sealed, whatever the age
\* limits and however the measurements were spread over time.
THEOREM EvidenceIsFresh == Spec => []EvidenceWasFresh
<1>1. ASSUME PlacementInv
      PROVE  EvidenceWasFresh
  BY <1>1 DEF PlacementInv, ActivationInv, FreshAt, EvidenceWasFresh
<1> QED BY <1>1, PlacementInvariant, PTL

-----------------------------------------------------------------------------
(* The machines behind the evidence.  What PlacementInv does not say: which       *)
(* profiles there are, on which machine they were taken, and what each worker     *)
(* answered.                                                                      *)

Machines == [device : {0, 1}, driver : {0, 1}, release : {0, 1}, binary : {0, 1}, helper : {0, 1},
             free : {150, 90, None}, room : {200, 90, None}, configured : BOOLEAN, loaded : BOOLEAN]

\* The position of a profile in the operator's work, and how far that has come.
Rank(kind, k) == 2 * (k - 1) + (IF kind = "compute" THEN 1 ELSE 0)
Progress == IF pc \in {"memory", "compute"} THEN Rank(pc, stage) ELSE 4

Idle(ps, kind, k) == {p \in ps : p.kind = kind /\ p.assignment = Stages[k] /\ p.load = "idle"}

\* One profile of each kind and stage, and maybe busy ones of the first stage, which
\* were taken later.  A machine that was replaced is not taken back.
HistoryOf(ps) ==
  /\ \A p \in ps :
       /\ p.kind \in {"memory", "compute"} /\ p.load \in {"idle", "busy"}
       /\ p.load = "busy" => p.completed /\ p.kind = "memory" /\ p.assignment = Stages[1]
       /\ \A k \in {1, 2} : p.assignment = Stages[k] =>
            p.env.device \in {0, 1} /\ p.env.device <= world[k].device
  /\ \A p, q \in ps : p.load = "idle" /\ q.load = "idle" /\ p.kind = q.kind
                        /\ p.assignment = q.assignment => p = q
  /\ \A p, q \in ps : p.load = "busy" /\ q.load = "idle" /\ q.assignment = Stages[1] =>
                        q.env.device <= p.env.device

ProgressInv ==
  /\ \A kind \in {"memory", "compute"}, k \in {1, 2} :
       /\ Idle(profiles, kind, k) # {} => Rank(kind, k) < Progress
       /\ pc \in Measuring /\ Rank(kind, k) < Progress => Idle(profiles, kind, k) # {}
  /\ Progress < 2 => \A p \in profiles : p.load = "idle"
  /\ pc \in {"seal", "plan", "activate"} => stage = 1

IsBudget(b) == b = [available |-> b.available, headroom |-> 5, overhead |-> 5, safety |-> 10]

\* A snapshot carries the environments of the two profiles of its worker.
Describes(e, ps, k) ==
  /\ \E p \in Idle(ps, "memory", k) : e.memory = p.env
  /\ \E p \in Idle(ps, "compute", k) : e.compute = p.env
  /\ IsBudget(e.host)
  /\ e.device # None => IsBudget(e.device) /\ e.worker.backend = "cuda"

BundleHistory ==
  /\ HistoryOf(bundle.profiles) /\ bundle.load = "idle"
  /\ \A k \in {1, 2} : Describes(bundle.workers[k], bundle.profiles, k)
                       /\ bundle.workers[k].memory.device = bundle.workers[k].compute.device
                       /\ bundle.workers[k].memory.backend = bundle.workers[k].worker.backend
  /\ bundle.link = link.artifact /\ SoundArtifact

\* What the planner's evaluation shows of the plan that is activated.
Evaluated ==
  /\ \A k \in {1, 2} : plan.stages[k] = Stages[k]
  /\ \A p \in bundle.profiles : p.completed
  /\ bundle.path.route = link.first /\ bundle.path.route # "unknown"

\* The device memory that the profile needs is free, where there is a device.
RoomFor(answer, e) ==
  e.device # None =>
    answer.room # None /\ Needed(Peak, e.device) + e.device.headroom <= answer.room

\* What the answer of worker k shows.
Answered(k) ==
  LET e == EvidenceFor(k) IN
  /\ seen[k] \in Machines
  /\ \A p \in bundle.profiles : p.assignment = Stages[k] => p.env.device = seen[k].device
  /\ seen[k].binary = e.runtime.binary /\ seen[k].configured
  /\ seen[k].free # None /\ Needed(Peak, e.host) + e.host.headroom <= seen[k].free
  /\ RoomFor(seen[k], e)

WorldInv == world \in [{1, 2} -> Machines] /\ DOMAIN seen = {1, 2}

SnapshotsInv ==
  /\ \A i \in DOMAIN evidence : pc \in {"snapshot", "seal"} => Describes(evidence[i], profiles, i)
  /\ pc \in {"setup", "path", "snapshot", "seal"} => SoundArtifact

AnswersInv ==
  Measured =>
    /\ pc \in {"plan"} \cup Planned => BundleHistory
    /\ pc \in {"state", "report", "send", "sent"} => Evaluated
    /\ pc \in {"state", "report"} /\ stage = 2 => Answered(1) /\ ~seen[1].loaded
    /\ pc = "report" => Answered(stage)
    /\ pc \in {"send", "sent"} => \A k \in {1, 2} : Answered(k) /\ ~seen[k].loaded

MachineInv == WorldInv /\ HistoryOf(profiles) /\ ProgressInv /\ SnapshotsInv /\ AnswersInv

-----------------------------------------------------------------------------
(* Steps that leave a part of it alone *)

\* The two stages are different assignments.
LEMMA StagesDiffer == Stages[1] # Stages[2]
<1>1. Stages[1].index = 0 /\ Stages[2].index = 1
  BY Assignments DEF Stages
<1> QED BY <1>1

\* A profile says no less of a machine that was replaced since.
LEMMA HistoryFrame ==
  ASSUME WorldInv, WorldInv', in' = in, \A k \in {1, 2} : world[k].device <= world'[k].device,
         NEW ps, HistoryOf(ps)
  PROVE  HistoryOf(ps)'
<1>1. \A k \in {1, 2} : world[k].device \in Int /\ world'[k].device \in Int
  BY DEF WorldInv, Machines
<1>2. Stages' = Stages
  BY SnapshotsFrame
<1>3. \A p \in ps : \A k \in {1, 2} : p.assignment = Stages[k] =>
        p.env.device \in {0, 1} /\ p.env.device <= world'[k].device
  <2> TAKE p \in ps
  <2> TAKE k \in {1, 2}
  <2> HAVE p.assignment = Stages[k]
  <2>1. p.env.device \in {0, 1} /\ p.env.device <= world[k].device
    BY DEF HistoryOf
  <2>2. world[k].device <= world'[k].device /\ world[k].device \in Int /\ world'[k].device \in Int
    BY <1>1
  <2> QED BY <2>1, <2>2
<1> QED BY <1>2, <1>3 DEF HistoryOf

\* The profiles are complete: the operator is past them, or gives up.
LEMMA ProgressFrame ==
  ASSUME ProgressInv, UNCHANGED <<in, profiles>>, stage \in {1, 2},
         pc' \notin {"memory", "compute"},
         pc' \in Measuring => pc \in Measuring \ {"memory", "compute"},
         pc' \in {"seal", "plan", "activate"} => stage' = 1
  PROVE  ProgressInv'
<1>1. Progress' = 4
  BY DEF Progress
<1>2. \A kind \in {"memory", "compute"}, k \in {1, 2} : Rank(kind, k) < 4
  BY DEF Rank
<1>3. \A kind, k : Idle(profiles, kind, k)' = Idle(profiles, kind, k)
  BY DEF Idle, Stages, Worker
<1>4. pc' \in Measuring => Progress = 4
  BY DEF Progress
<1>5. \A kind \in {"memory", "compute"}, k \in {1, 2} :
        pc' \in Measuring => Idle(profiles, kind, k)' # {}
  <2> TAKE kind \in {"memory", "compute"}, k \in {1, 2}
  <2> HAVE pc' \in Measuring
  <2>1. Rank(kind, k) < Progress /\ pc \in Measuring
    BY <1>2, <1>4
  <2> QED BY <1>3, <2>1 DEF ProgressInv
<1>6. \A kind, k : Rank(kind, k)' = Rank(kind, k)
  BY DEF Rank
<1>7. \A kind \in {"memory", "compute"}, k \in {1, 2} :
        Idle(profiles, kind, k)' # {} => Rank(kind, k)' < Progress'
  BY <1>1, <1>2, <1>6
<1>8. ~(Progress' < 2)
  BY <1>1
<1> QED BY <1>5, <1>7, <1>8 DEF ProgressInv

\* What the bundle says of the machines is not undone by a new one.
LEMMA BundleHistoryFrame ==
  ASSUME WorldInv, WorldInv', UNCHANGED <<in, bundle>>,
         link'.artifact = link.artifact, link'.first = link.first,
         \A k \in {1, 2} : world[k].device <= world'[k].device, BundleHistory
  PROVE  BundleHistory'
<1>1. HistoryOf(bundle.profiles)
  BY DEF BundleHistory
<1>2. PICK ps : ps = bundle.profiles
  OBVIOUS
<1>3. HistoryOf(ps)'
  BY <1>1, <1>2, HistoryFrame
<1>4. HistoryOf(bundle.profiles)'
  BY <1>2, <1>3 DEF HistoryOf
<1>5. Stages' = Stages
  BY SnapshotsFrame
<1>6. \A k \in {1, 2} : Describes(bundle.workers[k], bundle.profiles, k)'
  BY <1>5 DEF BundleHistory, Describes, Idle
<1> QED BY <1>4, <1>6 DEF BundleHistory, SoundArtifact

\* What the evaluation showed stays as long as what it is about does.
LEMMA EvaluatedFrame ==
  ASSUME UNCHANGED <<in, bundle, plan>>, link'.first = link.first
  PROVE  Evaluated' <=> Evaluated
BY DEF Evaluated, Stages, Worker

\* What a worker answered stays.
LEMMA AnsweredFrame ==
  ASSUME UNCHANGED <<in, bundle, plan>>, NEW k, seen'[k] = seen[k]
  PROVE  Answered(k)' <=> Answered(k)
BY DEF Answered, RoomFor, Stages, Worker, EvidenceFor, EvidenceOf

\* The operator does nothing: time, the path, a machine or the link run move.
LEMMA MachineStep ==
  ASSUME MachineInv, WorldInv', \A k \in {1, 2} : world[k].device <= world'[k].device,
         UNCHANGED <<in, pc, stage, profiles, evidence, bundle, plan, seen>>,
         link'.artifact = link.artifact, pc = "link" \/ link'.first = link.first
  PROVE  MachineInv'
<1>0. WorldInv /\ HistoryOf(profiles) /\ ProgressInv /\ SnapshotsInv /\ AnswersInv
  BY DEF MachineInv
<1>1. HistoryOf(profiles)'
  <2>1. PICK ps : ps = profiles
    OBVIOUS
  <2>2. HistoryOf(ps)'
    BY <1>0, <2>1, HistoryFrame
  <2> QED BY <2>1, <2>2 DEF HistoryOf
<1>2. ProgressInv'
  BY <1>0 DEF ProgressInv, Progress, Rank, Idle, Stages, Worker, Measuring
<1>3. SnapshotsInv'
  <2>1. \A i : Describes(evidence[i], profiles, i)' <=> Describes(evidence[i], profiles, i)
    BY DEF Describes, Idle, Stages, Worker
  <2> QED BY <1>0, <2>1 DEF SnapshotsInv, SoundArtifact
<1>4. AnswersInv'
  <2>1. Measured' <=> Measured
    BY DEF Measured
  <2>2. pc = "link" \/ (BundleHistory => BundleHistory')
    BY <1>0, BundleHistoryFrame
  <2>3. \A k : Answered(k)' <=> Answered(k)
    BY AnsweredFrame
  <2>4. pc = "link" \/ (Evaluated' <=> Evaluated)
    BY EvaluatedFrame
  <2>5. Answered(stage)' <=> Answered(stage)
    BY DEF Answered, RoomFor, Stages, Worker, EvidenceFor, EvidenceOf
  <2> QED BY <1>0, <2>1, <2>2, <2>3, <2>4, <2>5 DEF AnswersInv, Planned
<1> QED BY <1>1, <1>2, <1>3, <1>4 DEF MachineInv

\* The operator goes on measuring, or gives up.
LEMMA OnwardStep ==
  ASSUME MachineInv, stage \in {1, 2}, UNCHANGED <<in, world, seen, profiles>>,
         pc' \in (Measuring \ {"memory", "compute"}) \cup {"abandoned"},
         pc' \in Measuring => pc \in Measuring \ {"memory", "compute"},
         pc' = "seal" => stage' = 1, SnapshotsInv'
  PROVE  MachineInv'
<1>0. WorldInv /\ HistoryOf(profiles) /\ ProgressInv /\ SnapshotsInv /\ AnswersInv
  BY DEF MachineInv
<1>1. WorldInv' /\ HistoryOf(profiles)'
  BY <1>0 DEF WorldInv, HistoryOf, Stages, Worker
<1>2. ProgressInv'
  BY <1>0, ProgressFrame DEF Measuring
<1>3. AnswersInv'
  BY DEF AnswersInv, Measuring, Planned
<1> QED BY <1>1, <1>2, <1>3 DEF MachineInv

-----------------------------------------------------------------------------
(* The profiles *)

\* A profile shows the machine as it is: one not older than any before.
LEMMA HistoryAdded ==
  ASSUME WorldInv, HistoryOf(profiles), NEW k \in {1, 2}, NEW p,
         p.kind \in {"memory", "compute"}, p.load \in {"idle", "busy"},
         p.assignment = Stages[k], p.env.device = world[k].device,
         p.load = "busy" => p.completed /\ p.kind = "memory" /\ k = 1,
         p.load = "idle" => Idle(profiles, p.kind, k) = {},
         p.load = "idle" /\ k = 1 => \A q \in profiles : q.load = "idle"
  PROVE  HistoryOf(profiles \cup {p})
<1>1. p.env.device \in {0, 1} /\ p.env.device <= world[k].device /\ world[k].device \in Int
  BY DEF WorldInv, Machines
<1>2. \A j \in {1, 2} : p.assignment = Stages[j] => j = k
  <2>1. Stages[1] # Stages[2]
    BY StagesDiffer
  <2>2. (p.assignment = Stages[1] => k = 1) /\ (p.assignment = Stages[2] => k = 2)
    BY <2>1
  <2> QED BY <2>2
<1>3. \A q \in profiles : q.load = "idle" /\ p.load = "idle" /\ q.kind = p.kind =>
        q.assignment # p.assignment
  BY DEF Idle
<1>4. \A q \in profiles : p.load = "busy" /\ q.assignment = Stages[1] => q.env.device <= p.env.device
  <2> TAKE q \in profiles
  <2> HAVE p.load = "busy" /\ q.assignment = Stages[1]
  <2>1. k = 1
    OBVIOUS
  <2>2. q.env.device <= world[1].device
    BY DEF HistoryOf
  <2> QED BY <2>1, <2>2
<1>5. p.load = "idle" /\ p.assignment = Stages[1] => \A q \in profiles : q.load # "busy"
  BY <1>2
<1> QED BY <1>1, <1>2, <1>3, <1>4, <1>5 DEF HistoryOf

\* An idle profile: the first of its kind and stage.
LEMMA ProfileMachines ==
  ASSUME PlacementInv, MachineInv,
         NEW kind \in {"memory", "compute"}, NEW completed \in BOOLEAN, Profile(kind, completed)
  PROVE  MachineInv'
<1>0. /\ WorldInv /\ HistoryOf(profiles) /\ ProgressInv /\ SnapshotsInv /\ AnswersInv
      /\ stage \in {1, 2} /\ pc = kind
  BY DEF MachineInv, PlacementInv, Counters, Profile
<1> DEFINE p == [kind |-> kind, assignment |-> Stages[stage], env |-> Environment(stage), at |-> now,
                 completed |-> completed, load |-> "idle", capacity |-> Worker(stage).admission,
                 weight |-> in.settings.weight]
<1>1. /\ profiles' = profiles \cup {p}
      /\ UNCHANGED <<in, world, link, evidence, bundle, plan, seen>>
      /\ pc' = IF kind = "memory" THEN "compute" ELSE IF stage = 1 THEN "memory" ELSE "link"
      /\ stage' = IF kind = "compute" THEN 3 - stage ELSE stage
  BY DEF Profile, run_profile
<1>2. /\ p.kind = kind /\ p.load = "idle" /\ p.assignment = Stages[stage]
      /\ p.env.device = world[stage].device
  BY DEF Environment
<1> HIDE DEF p
<1>3. Progress = Rank(kind, stage)
  BY <1>0 DEF Progress
<1>4. Idle(profiles, kind, stage) = {}
  <2>1. ~(Rank(kind, stage) < Progress)
    BY <1>0, <1>3 DEF Rank
  <2> QED BY <1>0, <2>1 DEF ProgressInv
<1>5. stage = 1 => \A q \in profiles : q.load = "idle"
  <2>1. stage = 1 => Progress < 2
    BY <1>3 DEF Rank
  <2> QED BY <1>0, <2>1 DEF ProgressInv
<1>6. HistoryOf(profiles \cup {p})
  BY <1>0, <1>2, <1>4, <1>5, HistoryAdded
<1>7. HistoryOf(profiles)'
  BY <1>1, <1>6 DEF HistoryOf, Stages, Worker
<1>8. ProgressInv'
  <2>1. Progress' = Progress + 1 /\ Progress \in 0..3
    BY <1>0, <1>1, <1>3 DEF Progress, Rank
  <2>2. Stages' = Stages /\ \A x, k : Rank(x, k)' = Rank(x, k)
    BY <1>1, SnapshotsFrame DEF Rank
  <2>3. \A x \in {"memory", "compute"}, k \in {1, 2} :
          /\ Rank(x, k) \in 0..3
          /\ Rank(x, k) = Progress <=> x = kind /\ k = stage
    BY <1>0, <1>3 DEF Rank
  <2>4. \A x \in {"memory", "compute"}, k \in {1, 2} :
          Idle(profiles, x, k)' = Idle(profiles, x, k) \cup (IF x = kind /\ k = stage THEN {p} ELSE {})
    BY <1>0, <1>1, <1>2, <2>2, StagesDiffer DEF Idle
  <2>5. \A x \in {"memory", "compute"}, k \in {1, 2} :
          /\ Idle(profiles, x, k)' # {} => Rank(x, k)' < Progress'
          /\ Rank(x, k)' < Progress' => Idle(profiles, x, k)' # {}
    <3> TAKE x \in {"memory", "compute"}, k \in {1, 2}
    <3>1. (Idle(profiles, x, k) # {} => Rank(x, k) < Progress)
          /\ (Rank(x, k) < Progress => Idle(profiles, x, k) # {})
      BY <1>0 DEF ProgressInv, Measuring
    <3>2. Rank(x, k)' = Rank(x, k) /\ Rank(x, k) \in 0..3 /\ Progress' = Progress + 1 /\ Progress \in 0..3
          /\ (Rank(x, k) = Progress <=> x = kind /\ k = stage)
      BY <2>1, <2>2, <2>3
    <3>3. Rank(x, k)' < Progress' <=> Rank(x, k) < Progress \/ Rank(x, k) = Progress
      BY <3>2
    <3>4. Idle(profiles, x, k)' # {} <=> Idle(profiles, x, k) # {} \/ (x = kind /\ k = stage)
      BY <2>4
    <3> QED BY <3>1, <3>2, <3>3, <3>4
  <2>6. Progress' < 2 => \A q \in profiles' : q.load = "idle"
    <3>1. Progress' < 2 => Progress < 2
      BY <2>1
    <3> QED BY <1>0, <1>1, <1>2, <3>1 DEF ProgressInv
  <2>7. pc' \notin {"seal", "plan", "activate"}
    BY <1>1
  <2> QED BY <2>5, <2>6, <2>7 DEF ProgressInv
<1>9. SnapshotsInv' /\ AnswersInv' /\ WorldInv'
  BY <1>0, <1>1 DEF SnapshotsInv, AnswersInv, WorldInv, Planned
<1> QED BY <1>7, <1>8, <1>9 DEF MachineInv

\* A busy profile of the first stage, taken after both idle ones.
LEMMA AgainMachines ==
  ASSUME PlacementInv, MachineInv, ProfileAgain
  PROVE  MachineInv'
<1>0. WorldInv /\ HistoryOf(profiles) /\ ProgressInv /\ SnapshotsInv /\ AnswersInv
  BY DEF MachineInv
<1> DEFINE p == [kind |-> "memory", assignment |-> Stages[1], env |-> Environment(1), at |-> now,
                 completed |-> TRUE, load |-> "busy", capacity |-> Worker(1).admission,
                 weight |-> in.settings.weight]
<1>1. /\ profiles' = profiles \cup {p} /\ pc = "memory" /\ stage = 2
      /\ UNCHANGED <<in, pc, stage, world, link, evidence, bundle, plan, seen>>
  BY DEF ProfileAgain, run_profile
<1>2. /\ p.kind = "memory" /\ p.load = "busy" /\ p.assignment = Stages[1] /\ p.completed
      /\ p.env.device = world[1].device
  BY DEF Environment
<1> HIDE DEF p
<1>3. HistoryOf(profiles \cup {p})
  BY <1>0, <1>2, HistoryAdded
<1>4. HistoryOf(profiles)'
  BY <1>1, <1>3 DEF HistoryOf, Stages, Worker
<1>5. ProgressInv'
  <2>1. \A x, k : Idle(profiles, x, k)' = Idle(profiles, x, k)
    BY <1>1, <1>2 DEF Idle, Stages, Worker
  <2>2. Progress = 2 /\ Progress' = 2 /\ \A x, k : Rank(x, k)' = Rank(x, k)
    BY <1>1 DEF Progress, Rank
  <2> QED BY <1>0, <1>1, <2>1, <2>2 DEF ProgressInv
<1>6. SnapshotsInv' /\ AnswersInv' /\ WorldInv'
  BY <1>0, <1>1 DEF SnapshotsInv, AnswersInv, WorldInv, Planned
<1> QED BY <1>4, <1>5, <1>6 DEF MachineInv

-----------------------------------------------------------------------------
(* The link run and the snapshots *)

\* The machines stay.
LEMMA WorldKept ==
  ASSUME WorldInv, UNCHANGED <<world, seen>>
  PROVE  WorldInv' /\ \A k \in {1, 2} : world[k].device <= world'[k].device
<1>1. \A k \in {1, 2} : world[k].device \in Int
  BY DEF WorldInv, Machines
<1> QED BY <1>1 DEF WorldInv

\* The link run does not touch the machines; its artifact is sound when it is written.
LEMMA LinkMachines ==
  ASSUME PlacementInv, MachineInv, LinkStep
  PROVE  MachineInv'
<1>0. LinkInv /\ FlowInv /\ WorldInv /\ stage \in {1, 2}
  BY DEF MachineInv, PlacementInv, Counters
<1>1. UNCHANGED <<in, stage, world, profiles, evidence, bundle, plan, seen>>
  BY DEF LinkStep, LinkUnchanged, LinkBegin, MonitorReads, MonitorAppends, LinkReply,
         LinkObserveAfter, LinkDecide, LinkSeal
<1>2. WorldInv' /\ \A k \in {1, 2} : world[k].device <= world'[k].device
  BY <1>0, <1>1, WorldKept
<1>3. CASE LinkBegin \/ MonitorReads \/ MonitorAppends \/ LinkReply(TRUE) \/ LinkReply(FALSE)
           \/ LinkObserveAfter \/ LinkDecide
  <2>1. pc' = pc /\ link'.artifact = link.artifact /\ (pc = "link" \/ link'.first = link.first)
    <3>1. CASE LinkBegin
      BY <1>0, <3>1 DEF LinkBegin, LinkInv, LinkFields
    <3>2. CASE MonitorReads
      BY <1>0, <3>2 DEF MonitorReads, LinkInv, LinkFields
    <3>3. CASE MonitorAppends
      BY <1>0, <3>3 DEF MonitorAppends, LinkInv, LinkFields
    <3>4. CASE LinkReply(TRUE) \/ LinkReply(FALSE)
      BY <1>0, <3>4 DEF LinkReply, LinkInv, LinkFields
    <3>5. CASE LinkObserveAfter
      BY <1>0, <3>5 DEF LinkObserveAfter, LinkInv, LinkFields
    <3>6. CASE LinkDecide
      BY <1>0, <3>6 DEF LinkDecide, LinkInv, LinkFields
    <3> QED BY <1>3, <3>1, <3>2, <3>3, <3>4, <3>5, <3>6
  <2> QED BY <1>1, <1>2, <2>1, MachineStep
<1>4. CASE LinkSeal
  <2>1. pc' \in {"setup", "abandoned"} /\ (pc' = "setup" => SoundArtifact')
    BY <1>0, <1>4, LinkSealStep
  <2>2. pc = "link"
    BY <1>0, <1>4 DEF LinkSeal, FlowInv
  <2>3. SnapshotsInv'
    BY <2>1 DEF SnapshotsInv
  <2> QED BY <1>0, <1>1, <2>1, <2>2, <2>3, OnwardStep DEF Measuring
<1> QED BY <1>3, <1>4 DEF LinkStep

\* The snapshot of a worker takes the environments of its two profiles.
LEMMA EvidenceDescribes ==
  ASSUME MachineInv, pc = "snapshot", stage \in {1, 2}
  PROVE  Describes(WorkerEvidence(stage), profiles, stage)
<1>1. ProgressInv /\ Progress = 4
  BY DEF MachineInv, Progress
<1>2. \A kind \in {"memory", "compute"} : Rank(kind, stage) < Progress
  BY <1>1 DEF Rank
<1>3. \A kind \in {"memory", "compute"} : Idle(profiles, kind, stage) # {}
  BY <1>1, <1>2 DEF ProgressInv, Measuring
<1>4. \A kind \in {"memory", "compute"} : ProfileOf(stage, kind) \in Idle(profiles, kind, stage)
  <2> TAKE kind \in {"memory", "compute"}
  <2>1. \E p \in profiles : p.kind = kind /\ p.assignment = Stages[stage] /\ p.load = "idle"
    BY <1>3 DEF Idle
  <2>2. /\ ProfileOf(stage, kind) \in profiles /\ ProfileOf(stage, kind).kind = kind
        /\ ProfileOf(stage, kind).assignment = Stages[stage] /\ ProfileOf(stage, kind).load = "idle"
    BY <2>1 DEF ProfileOf
  <2> QED BY <2>2 DEF Idle
<1> DEFINE e == WorkerEvidence(stage)
<1>5. /\ e.memory = ProfileOf(stage, "memory").env /\ e.compute = ProfileOf(stage, "compute").env
      /\ e.host = HostBudget(stage) /\ e.device = DeviceBudget(stage) /\ e.worker = Worker(stage)
  BY DEF WorkerEvidence
<1> HIDE DEF e
<1>6. IsBudget(e.host) /\ (e.device # None => IsBudget(e.device) /\ e.worker.backend = "cuda")
  BY <1>5 DEF HostBudget, DeviceBudget, IsBudget
<1>7. Describes(e, profiles, stage)
  BY <1>4, <1>5, <1>6 DEF Describes
<1> QED BY <1>7 DEF e

\* The snapshot of a worker.
LEMMA SnapshotMachines ==
  ASSUME PlacementInv, MachineInv, SnapshotWorker
  PROVE  MachineInv'
<1>0. FlowInv /\ stage \in {1, 2} /\ SnapshotsInv
  BY DEF MachineInv, PlacementInv, Counters
<1>1. /\ pc = "snapshot" /\ evidence' = Append(evidence, WorkerEvidence(stage))
      /\ pc' = (IF stage = 1 THEN "snapshot" ELSE "seal") /\ stage' = 3 - stage
      /\ UNCHANGED <<in, world, seen, profiles, link>>
  BY DEF SnapshotWorker
<1> DEFINE e == WorkerEvidence(stage)
<1>2. Describes(e, profiles, stage)
  BY <1>0, <1>1, EvidenceDescribes
<1> HIDE DEF e
<1>3. \A i \in DOMAIN evidence' : Describes(evidence'[i], profiles, i)
  <2>1. CASE stage = 1
    <3>1. evidence = << >>
      BY <1>0, <1>1, <2>1 DEF FlowInv
    <3>2. evidence' = <<e>>
      BY <1>1, <3>1 DEF e
    <3>3. DOMAIN evidence' = {1} /\ evidence'[1] = e
      BY <3>2
    <3> QED BY <1>2, <2>1, <3>3
  <2>2. CASE stage = 2
    <3>1. OneSnapshot
      BY <1>0, <1>1, <2>2 DEF FlowInv
    <3>2. PICK f : evidence = <<f>>
      BY <3>1 DEF OneSnapshot
    <3>3. Describes(f, profiles, 1)
      <4>1. DOMAIN evidence = {1} /\ evidence[1] = f
        BY <3>2
      <4> QED BY <1>0, <1>1, <4>1 DEF SnapshotsInv
    <3>4. evidence' = <<f, e>>
      BY <1>1, <3>2, AppendSecond DEF e
    <3>5. DOMAIN evidence' = {1, 2} /\ evidence'[1] = f /\ evidence'[2] = e
      BY <3>4
    <3> QED BY <1>2, <2>2, <3>3, <3>5
  <2> QED BY <1>0, <2>1, <2>2
<1>4. \A x, k : Describes(x, profiles, k)' <=> Describes(x, profiles, k)
  BY <1>1 DEF Describes, Idle, Stages, Worker
<1>5. \A i \in DOMAIN evidence' : Describes(evidence[i], profiles, i)'
  BY <1>1, <1>3 DEF Describes, Idle, Stages, Worker
<1>6. SnapshotsInv'
  BY <1>0, <1>1, <1>5 DEF SnapshotsInv, SoundArtifact
<1>7. pc' = "seal" => stage' = 1
  BY <1>0, <1>1
<1> QED BY <1>0, <1>1, <1>6, <1>7, OnwardStep DEF Measuring

\* A refused profile, the request setup and the path snapshot.
LEMMA SetupMachines ==
  ASSUME PlacementInv, MachineInv, ProfileRefused \/ MeasureSetup \/ SnapshotPath
  PROVE  MachineInv'
<1>0. FlowInv /\ stage \in {1, 2} /\ SnapshotsInv
  BY DEF MachineInv, PlacementInv, Counters
<1>1. CASE ProfileRefused
  <2>1. pc' = "abandoned" /\ UNCHANGED <<in, world, seen, profiles>>
    BY <1>1 DEF ProfileRefused
  <2>2. SnapshotsInv'
    BY <2>1 DEF SnapshotsInv
  <2> QED BY <1>0, <2>1, <2>2, OnwardStep DEF Measuring
<1>2. CASE MeasureSetup
  <2>1. pc = "setup" /\ pc' = "path" /\ UNCHANGED <<in, world, seen, profiles, link>>
    BY <1>2 DEF MeasureSetup
  <2>2. SnapshotsInv'
    BY <1>0, <2>1 DEF SnapshotsInv, SoundArtifact
  <2> QED BY <1>0, <2>1, <2>2, OnwardStep DEF Measuring
<1>3. CASE SnapshotPath
  <2>1. pc = "path" /\ pc' = "snapshot" /\ UNCHANGED <<in, world, seen, profiles, link, evidence>>
    BY <1>3 DEF SnapshotPath
  <2>2. evidence' = << >>
    BY <1>0, <2>1 DEF FlowInv
  <2>3. DOMAIN evidence' = {}
    BY <2>2
  <2>4. SnapshotsInv'
    BY <1>0, <2>1, <2>3 DEF SnapshotsInv, SoundArtifact
  <2> QED BY <1>0, <2>1, <2>4, OnwardStep DEF Measuring
<1> QED BY <1>1, <1>2, <1>3

\* A sealed bundle holds the profiles as they are and the verified artifact, and
\* both profiles of a worker name one device.
LEMMA SealMachines ==
  ASSUME PlacementInv, MachineInv, Seal
  PROVE  MachineInv'
<1>0. /\ FlowInv /\ stage \in {1, 2} /\ SnapshotsInv /\ WorldInv /\ HistoryOf(profiles) /\ ProgressInv
      /\ pc = "seal"
  BY DEF MachineInv, PlacementInv, Counters, Seal
<1>1. /\ UNCHANGED <<in, stage, world, profiles, link, evidence, plan, seen>>
      /\ pc' \in {"plan", "abandoned"}
  BY DEF Seal
<1>2. TwoSnapshots(evidence) /\ SoundArtifact /\ \A i \in DOMAIN evidence : Describes(evidence[i], profiles, i)
  BY <1>0 DEF FlowInv, SnapshotsInv
<1>3. CASE pc' = "abandoned"
  <2>1. SnapshotsInv'
    BY <1>3 DEF SnapshotsInv
  <2> QED BY <1>0, <1>1, <1>3, <2>1, OnwardStep DEF Measuring
<1>4. CASE pc' = "plan"
  <2>1. /\ bundle'.profiles = profiles /\ bundle'.workers = evidence /\ bundle'.load = "idle"
        /\ bundle'.link = link.artifact
        /\ \A k \in {1, 2} : environment_match(evidence[k])
    BY <1>4 DEF Seal
  <2>2. \A k \in {1, 2} : /\ evidence[k].memory.device = evidence[k].compute.device
                         /\ evidence[k].memory.backend = evidence[k].worker.backend
    BY <2>1 DEF environment_match
  <2>3. DOMAIN evidence = {1, 2}
    BY <1>2 DEF TwoSnapshots
  <2>4. \A k \in {1, 2} : Describes(bundle'.workers[k], bundle'.profiles, k)
    BY <1>2, <2>1, <2>3
  <2>5. \A k \in {1, 2} : Describes(bundle.workers[k], bundle.profiles, k)'
    BY <1>1, <2>4 DEF Describes, Idle, Stages, Worker
  <2>6. HistoryOf(bundle.profiles)'
    BY <1>0, <1>1, <2>1 DEF HistoryOf, Stages, Worker
  <2>7. SoundArtifact'
    BY <1>1, <1>2 DEF SoundArtifact
  <2>8. BundleHistory'
    BY <1>1, <2>1, <2>2, <2>5, <2>6, <2>7 DEF BundleHistory
  <2>9. AnswersInv'
    BY <1>4, <2>8 DEF AnswersInv, Planned
  <2>10. WorldInv' /\ HistoryOf(profiles)'
    BY <1>0, <1>1 DEF WorldInv, HistoryOf, Stages, Worker
  <2>11. ProgressInv'
    <3>1. stage' = 1
      BY <1>0, <1>1 DEF ProgressInv
    <3> QED BY <1>0, <1>1, <1>4, <3>1, ProgressFrame DEF Measuring
  <2>12. SnapshotsInv'
    BY <1>4 DEF SnapshotsInv
  <2> QED BY <2>9, <2>10, <2>11, <2>12 DEF MachineInv
<1> QED BY <1>1, <1>3, <1>4

-----------------------------------------------------------------------------
(* What a safe fit shows *)

\* What the samples of a profile measured.
LEMMA ArtifactSamples ==
  ASSUME NEW p
  PROVE  LET m == Artifact(p).m
             n == IF p.completed THEN 7 ELSE 3 IN
         /\ m.completed <=> p.completed
         /\ m.samples \in [1..n -> {m.samples[i] : i \in 1..n}]
         /\ \A i \in 1..n :
              /\ m.samples[i].rss = 100 /\ m.samples[i].rssPeak = 100
              /\ m.samples[i].allocator = [peak |-> 50, active |-> 40, cached |-> 10, phasePeak |-> TRUE]
              /\ m.samples[i].process.footprintPeak = 100
         /\ DOMAIN m.physical = {1} /\ m.physical[1].rss = 100
         /\ Artifact(p).key.backend = p.env.backend
         /\ p.env.backend = "cuda" => m.physical[1].device = 100
<1> DEFINE n == IF p.completed THEN 7 ELSE 3
           m == Artifact(p).m
           output == in.workload.output
<1>1. Len(MEMORY_PHASES) = 7
  BY DEF MEMORY_PHASES
<1>2. /\ m.samples = [i \in 1..n |-> MemorySample(MEMORY_PHASES[i], 100, output)]
      /\ m.completed = ((IF p.completed THEN None ELSE "ended early") = None)
      /\ m.physical = <<observe_process(100, p.env.backend)>>
      /\ Artifact(p).key.backend = p.env.backend
  BY <1>1 DEF Artifact, make_artifact, Peak
<1>3. None # "ended early"
  BY PlannerAssumption
<1>4. m.completed <=> p.completed
  BY <1>2, <1>3
<1>5. \A phase : LET s == MemorySample(phase, 100, output) IN
        /\ s.rss = 100 /\ s.rssPeak = 100
        /\ s.allocator = [peak |-> 50, active |-> 40, cached |-> 10, phasePeak |-> TRUE]
        /\ s.process.footprintPeak = 100
  BY DEF MemorySample
<1>6. /\ DOMAIN m.physical = {1} /\ m.physical[1].rss = 100
      /\ p.env.backend = "cuda" => m.physical[1].device = 100
  <2>1. /\ observe_process(100, p.env.backend).rss = 100
        /\ p.env.backend = "cuda" => observe_process(100, p.env.backend).device = 100
    BY DEF observe_process
  <2>2. PICK o : o = observe_process(100, p.env.backend)
    OBVIOUS
  <2>3. m.physical = <<o>> /\ o.rss = 100 /\ (p.env.backend = "cuda" => o.device = 100)
    BY <1>2, <2>1, <2>2
  <2> HIDE DEF m
  <2>4. DOMAIN m.physical = {1} /\ m.physical[1] = o
    BY <2>3
  <2> QED BY <2>3, <2>4
<1> HIDE DEF m, n, output
<1>7. m.samples \in [1..n -> {m.samples[i] : i \in 1..n}]
  BY <1>2
<1>8. \A i \in 1..n : m.samples[i] = MemorySample(MEMORY_PHASES[i], 100, output)
  BY <1>2
<1>9. \A i \in 1..n :
        /\ m.samples[i].rss = 100 /\ m.samples[i].rssPeak = 100
        /\ m.samples[i].allocator = [peak |-> 50, active |-> 40, cached |-> 10, phasePeak |-> TRUE]
        /\ m.samples[i].process.footprintPeak = 100
  <2> TAKE i \in 1..n
  <2>1. m.samples[i] = MemorySample(MEMORY_PHASES[i], 100, output)
    BY <1>8, Zenon
  <2>2. PICK phase : phase = MEMORY_PHASES[i]
    OBVIOUS
  <2>3. LET s == MemorySample(phase, 100, output) IN
        /\ s.rss = 100 /\ s.rssPeak = 100
        /\ s.allocator = [peak |-> 50, active |-> 40, cached |-> 10, phasePeak |-> TRUE]
        /\ s.process.footprintPeak = 100
    BY <1>5, Zenon
  <2>4. m.samples[i] = MemorySample(phase, 100, output)
    BY <2>1, <2>2, Zenon
  <2> QED BY <2>3, <2>4, Zenon
<1> QED BY <1>2, <1>4, <1>6, <1>7, <1>9, Zenon DEF m, n

\* The peak of a complete profile on a device.
LEMMA DevicePeakIsThat ==
  ASSUME NEW p, p.completed, p.env.backend = "cuda"
  PROVE  device_peak(Artifact(p)) = 100
<1> DEFINE m == Artifact(p).m
           s == m.samples
<1>1. /\ s \in [1..7 -> {s[i] : i \in 1..7}]
      /\ \A i \in 1..7 : s[i].allocator = [peak |-> 50, active |-> 40, cached |-> 10, phasePeak |-> TRUE]
      /\ DOMAIN m.physical = {1} /\ m.physical[1].device = 100
  BY ArtifactSamples
<1>2. device_peak(Artifact(p)) =
        LET values == Values(m.physical, "device") \cup allocator_values(m)
        IN  IF values = {} THEN None ELSE Max(values)
  BY DEF device_peak
<1> HIDE DEF m
<1>3. None # 100
  <2>1. None \notin Int
    BY PlannerAssumption, Zenon
  <2> QED BY <2>1
<1>4. Values(m.physical, "device") = {100}
  BY <1>1, <1>3 DEF Values
<1>5. allocator_values(m) \subseteq {50}
  <2>1. \A x \in ToSet(s) : x.allocator = [peak |-> 50, active |-> 40, cached |-> 10, phasePeak |-> TRUE]
    BY <1>1 DEF ToSet
  <2>2. Max({50}) = 50
    BY DEF Max
  <2>3. \A x \in ToSet(s) : Max({x.allocator.peak, x.allocator.active + x.allocator.cached}) = 50
    <3> TAKE x \in ToSet(s)
    <3>1. x.allocator.peak = 50 /\ x.allocator.active + x.allocator.cached = 50
      BY <2>1
    <3>2. {x.allocator.peak, x.allocator.active + x.allocator.cached} = {50}
      BY <3>1
    <3> QED BY <2>2, <3>2
  <2> QED BY <2>3 DEF allocator_values
<1>6. Values(m.physical, "device") \cup allocator_values(m) \in {{100}, {100, 50}}
  BY <1>4, <1>5
<1>7. Max({100}) = 100 /\ Max({100, 50}) = 100
  BY DEF Max
<1> QED BY <1>2, <1>6, <1>7

\* Where a peak is known it is no less than that of the resident set.
LEMMA HostPeakCovers ==
  ASSUME NEW p, p.completed, host_peak(Artifact(p), "footprint-v1") # None
  PROVE  host_peak(Artifact(p), "footprint-v1") \in {100, 150}
<1> DEFINE a == Artifact(p)
           m == a.m
           s == m.samples
           lifetime == Values(m.samples, "rssPeak") \cup Values(m.physical, "rss")
           mlx == a.key.backend = "mlx"
           unified == IF mlx THEN Max(allocator_values(m) \cup {0}) ELSE 0
           footprint == IF mlx /\ "footprint-v1" = "footprint-v1" THEN footprint_peak(a) ELSE None
<1>1. /\ s \in [1..7 -> {s[i] : i \in 1..7}]
      /\ \A i \in 1..7 : /\ s[i].rss = 100 /\ s[i].rssPeak = 100
                         /\ s[i].allocator = [peak |-> 50, active |-> 40, cached |-> 10, phasePeak |-> TRUE]
                         /\ s[i].process.footprintPeak = 100
      /\ DOMAIN m.physical = {1} /\ m.physical[1].rss = 100
  BY ArtifactSamples
<1>2. host_peak(a, "footprint-v1") = HostPeak(m, lifetime, unified, footprint)
  BY DEF host_peak
<1> HIDE DEF a
<1>3. None # 100
  <2>1. None \notin Int
    BY PlannerAssumption, Zenon
  <2> QED BY <2>1
<1>4. DOMAIN s = 1..7 /\ 1 \in 1..7
  BY <1>1
<1>5. Values(s, "rss") = {100} /\ lifetime = {100}
  BY <1>1, <1>3, <1>4 DEF Values
<1>6. unified \in {0, 50}
  <2>1. \A x \in ToSet(s) : x.allocator = [peak |-> 50, active |-> 40, cached |-> 10, phasePeak |-> TRUE]
    BY <1>1, <1>4 DEF ToSet
  <2>2. Max({50}) = 50 /\ Max({50, 0}) = 50 /\ Max({0}) = 0
    BY DEF Max
  <2>3. \A x \in ToSet(s) : Max({x.allocator.peak, x.allocator.active + x.allocator.cached}) = 50
    <3> TAKE x \in ToSet(s)
    <3>1. x.allocator.peak = 50 /\ x.allocator.active + x.allocator.cached = 50
      BY <2>1
    <3>2. {x.allocator.peak, x.allocator.active + x.allocator.cached} = {50}
      BY <3>1
    <3> QED BY <2>2, <3>2
  <2>4. allocator_values(m) \subseteq {50}
    BY <2>3 DEF allocator_values
  <2>5. allocator_values(m) \cup {0} \in {{0}, {50, 0}}
    BY <2>4
  <2> QED BY <2>2, <2>5
<1>7. footprint \in {None, 100}
  <2>1. footprint_peak(a) \in {None, Last(s).process.footprintPeak}
    BY DEF footprint_peak
  <2>2. Len(s) = 7
    BY <1>1
  <2>3. Last(s).process.footprintPeak = 100
    BY <1>1, <2>2 DEF Last
  <2> QED BY <2>1, <2>3
<1> HIDE DEF unified, footprint, lifetime, m
<1>8. HostPeak(m, lifetime, unified, footprint) # None
  BY <1>2 DEF a
<1>9. CASE footprint = None
  <2>1. unified = 0 \/ unified = 50
    BY <1>6
  <2>2. HostPeak(m, lifetime, unified, footprint) = Max({100}) + unified
    BY <1>3, <1>5, <1>9 DEF HostPeak
  <2>3. Max({100}) = 100
    BY DEF Max
  <2> QED BY <1>2, <2>1, <2>2, <2>3 DEF a
<1>10. CASE footprint = 100
  <2>1. {footprint, unified} \cup lifetime \cup Values(s, "rss") = {100, unified}
    BY <1>5, <1>10
  <2>2. Max({100, unified}) = 100
    BY <1>6 DEF Max
  <2>3. HostPeak(m, lifetime, unified, footprint) = Max({footprint, unified} \cup lifetime \cup Values(s, "rss"))
    BY <1>3, <1>10 DEF HostPeak
  <2> QED BY <1>2, <2>1, <2>2, <2>3 DEF a
<1> QED BY <1>7, <1>9, <1>10

\* A safe fit is that of a complete profile, and its peak fits what is free.
LEMMA SafeFit ==
  ASSUME NEW p, NEW capacity, NEW host, NEW device,
         assess_fit(Artifact(p), capacity, host, device, "footprint-v1") = "safe"
  PROVE  /\ p.completed
         /\ host.available # None
         /\ \E peak \in {100, 150} : ~(Needed(peak, host) + host.headroom > host.available)
         /\ p.env.backend = "cuda" => /\ device # None /\ device.available # None
                                      /\ ~(Needed(100, device) + device.headroom > device.available)
<1> DEFINE a == Artifact(p)
           peak == host_peak(a, "footprint-v1")
           hostFit == envelope(peak, host)
           deviceFit == IF a.key.backend = "cuda" THEN envelope(device_peak(a), device) ELSE "ok"
<1>1. FitStatus(a, capacity, hostFit, deviceFit) = "safe"
  BY DEF assess_fit
<1> HIDE DEF a, peak, hostFit, deviceFit
<1>2. ~Unsafe(a, capacity, hostFit, deviceFit) /\ ~Unknown(a, capacity, hostFit, deviceFit)
  BY <1>1 DEF FitStatus
<1>3. /\ a.m.completed /\ hostFit # "unknown" /\ hostFit # "unsafe"
      /\ deviceFit # "unknown" /\ deviceFit # "unsafe"
  BY <1>2 DEF Unsafe, Unknown
<1>4. p.completed
  BY <1>3, ArtifactSamples DEF a
<1>5. /\ peak # None /\ host.available # None
      /\ ~(Needed(peak, host) + host.headroom > host.available)
  BY <1>3 DEF hostFit, envelope
<1>6. peak \in {100, 150}
  BY <1>4, <1>5, HostPeakCovers DEF peak, a
<1>7. ASSUME p.env.backend = "cuda"
      PROVE  /\ device # None /\ device.available # None
             /\ ~(Needed(100, device) + device.headroom > device.available)
  <2>1. deviceFit = envelope(100, device)
    BY <1>4, <1>7, ArtifactSamples, DevicePeakIsThat DEF deviceFit, a
  <2> QED BY <1>3, <2>1 DEF envelope
<1> QED BY <1>4, <1>5, <1>6, <1>7

\* A budget that fits some peak of a profile when so much is free, and one that fits
\* its resident set.
FitsNow(peak, h, host, free) ==
  /\ IsBudget(host) /\ free \in {200, 150, 90} /\ peak \in {100, 150}
  /\ h = [host EXCEPT !.available = free] /\ ~(Needed(peak, h) + h.headroom > free)
FitsPeak(host, free) == Needed(Peak, host) + host.headroom <= free

\* More free memory than the fit needs is more than the resident set needs.
LEMMA PeakFits ==
  ASSUME NEW host, NEW h, NEW free, NEW peak, FitsNow(peak, h, host, free)
  PROVE  FitsPeak(host, free)
<1>1. host.headroom = 5 /\ host.overhead = 5 /\ host.safety = 10
  BY DEF FitsNow, IsBudget
<1>2. h.headroom = 5 /\ h.overhead = 5 /\ h.safety = 10
  BY DEF FitsNow, IsBudget
<1>3. Needed(100, host) = 115 /\ Needed(100, h) = 115 /\ Needed(150, h) = 170
  BY <1>1, <1>2 DEF Needed
<1> QED BY <1>1, <1>2, <1>3 DEF FitsNow, FitsPeak, Peak

\* The only element.
LEMMA OnlyElement ==
  ASSUME NEW S, Cardinality(S) = 1
  PROVE  S # {}
BY FS_EmptySet

-----------------------------------------------------------------------------
(* Activation *)

\* What validate_activation shows without asking a worker.
LEMMA ChecksMeanEvaluated ==
  ASSUME BundleFacts, PlanFacts, BundleHistory, StaticChecks(plan, bundle, now)
  PROVE  Evaluated
<1>1. /\ LinkReasons(bundle, plan.stages) = {}
      /\ \A k \in {1, 2} : /\ plan.stages[k] = Stages[k]
                            /\ WorkerReasons(bundle, bundle.workers[k], Stages[k]) = {}
  BY ChecksMeanNoReason
<1>2. ASSUME NEW p \in bundle.profiles
      PROVE  p.completed
  <2>1. /\ p.kind \in {"memory", "compute"} /\ p.load \in {"idle", "busy"}
        /\ p.load = "busy" => p.completed
    BY <1>2 DEF BundleHistory, HistoryOf
  <2>2. PICK k \in {1, 2} : p.assignment = Stages[k]
    BY <1>2 DEF BundleFacts, ProfileFacts
  <2> DEFINE e == bundle.workers[k]
             memory == Matches(bundle, e, Stages[k], "memory")
             compute == Matches(bundle, e, Stages[k], "compute")
  <2>3. WorkerReasons(bundle, e, Stages[k]) = {}
    BY <1>1
  <2>4. /\ Cardinality(memory) = 1 /\ Cardinality(compute) = 1
        /\ \A q \in memory : assess_fit(Artifact(q), e.capacity, e.host, e.device, "footprint-v1") = "safe"
        /\ \A q \in compute : q.completed
    BY <2>3, NoWorkerReason
  <2>5. PICK m \in memory, c \in compute : TRUE
    BY <2>4, OnlyElement
  <2>6. m.completed /\ c.completed
    BY <2>4, <2>5, SafeFit
  <2>7. /\ m \in bundle.profiles /\ m.kind = "memory" /\ m.assignment = Stages[k] /\ m.load = "idle"
        /\ c \in bundle.profiles /\ c.kind = "compute" /\ c.assignment = Stages[k] /\ c.load = "idle"
    BY <2>5 DEF Matches, BundleHistory
  <2>8. p.load = "idle" => p = m \/ p = c
    BY <1>2, <2>1, <2>2, <2>7 DEF BundleHistory, HistoryOf
  <2> QED BY <2>1, <2>6, <2>8
<1>3. check_link_compatibility(bundle) = {}
  BY <1>1, NoLinkReason
<1>4. bundle.link.qualified /\ Last(bundle.link.paths).route = bundle.path.route
  BY <1>3 DEF check_link_compatibility
<1>5. /\ bundle.link.paths \in Seq(Observation) /\ bundle.link.paths # << >>
      /\ link.first # "unknown" /\ \A p \in ToSet(bundle.link.paths) : p.route = link.first
  BY <1>4 DEF BundleHistory, SoundArtifact
<1>6. Last(bundle.link.paths) \in ToSet(bundle.link.paths)
  <2>1. PICK ps : ps = bundle.link.paths
    OBVIOUS
  <2>2. Len(ps) \in Nat /\ Len(ps) # 0 /\ DOMAIN ps = 1..Len(ps)
    BY <1>5, <2>1, LenProperties, EmptySeq
  <2>3. Len(ps) \in DOMAIN ps
    BY <2>2
  <2> QED BY <2>1, <2>3 DEF Last, ToSet
<1> QED BY <1>1, <1>2, <1>4, <1>5, <1>6 DEF Evaluated

\* The worker that is asked is the one the stage was measured on.
LEMMA AskedWorker ==
  ASSUME BundleFacts, PlanFacts, Evaluated, NEW k \in {1, 2}
  PROVE  At(k) = k /\ EvidenceFor(k) = bundle.workers[k]
<1>1. Stages[1].worker = Worker(1).id /\ Stages[2].worker = Worker(2).id
  BY Assignments DEF Stages
<1>2. plan.stages[k].worker = Worker(k).id
  BY <1>1 DEF Evaluated
<1>3. Worker(1).id # Worker(2).id
  BY DEF PlanFacts
<1>4. At(k) = k
  BY <1>2, <1>3 DEF At
<1> QED BY <1>2, <1>4, EvidenceOfWorker DEF EvidenceFor

\* A worker that answers as the machine of its compute profile answers as that of all
\* its profiles: a busy one was taken on no older machine than the idle ones.
LEMMA OneDevice ==
  ASSUME WorldInv, BundleHistory, NEW k \in {1, 2},
         world[k].device = bundle.workers[k].compute.device
  PROVE  \A p \in bundle.profiles : p.assignment = Stages[k] => p.env.device = world[k].device
<1>1. PICK m \in Idle(bundle.profiles, "memory", k), c \in Idle(bundle.profiles, "compute", k) :
        bundle.workers[k].memory = m.env /\ bundle.workers[k].compute = c.env
  BY DEF BundleHistory, Describes
<1>2. m.env.device = world[k].device /\ c.env.device = world[k].device
  BY <1>1 DEF BundleHistory
<1>3. world[k].device \in Int
  BY DEF WorldInv, Machines
<1>4. SUFFICES ASSUME NEW p \in bundle.profiles, p.assignment = Stages[k]
               PROVE  p.env.device = world[k].device
  OBVIOUS
<1>5. /\ p.kind \in {"memory", "compute"} /\ p.load \in {"idle", "busy"}
      /\ p.env.device \in {0, 1} /\ p.env.device <= world[k].device
  BY <1>4 DEF BundleHistory, HistoryOf
<1>6. CASE p.load = "idle"
  <2>1. p = m \/ p = c
    BY <1>1, <1>4, <1>5, <1>6 DEF BundleHistory, HistoryOf, Idle
  <2> QED BY <1>2, <2>1
<1>7. CASE p.load = "busy"
  <2>1. p.assignment = Stages[1]
    BY <1>4, <1>7 DEF BundleHistory, HistoryOf
  <2>2. c \in bundle.profiles /\ c.load = "idle" /\ c.assignment = Stages[1]
    BY <1>1, <1>4, <2>1 DEF Idle
  <2>3. c.env.device <= p.env.device
    BY <1>4, <1>7, <2>2 DEF BundleHistory, HistoryOf
  <2> QED BY <1>2, <1>3, <1>5, <2>3
<1> QED BY <1>5, <1>6, <1>7

\* What is decided from the answer of one worker.
LEMMA QualificationMeansAnswered ==
  ASSUME BundleFacts, PlanFacts, BundleHistory, Evaluated, WorldInv, NEW k \in {1, 2},
         QualificationHolds(k, world[k])
  PROVE  LET e == EvidenceFor(k) IN
         /\ world[k] \in Machines
         /\ \A p \in bundle.profiles : p.assignment = Stages[k] => p.env.device = world[k].device
         /\ world[k].binary = e.runtime.binary /\ world[k].configured
         /\ world[k].free # None /\ Needed(Peak, e.host) + e.host.headroom <= world[k].free
         /\ RoomFor(world[k], e)
<1> DEFINE e == bundle.workers[k]
           w == world[k]
           memory == ActivationProfiles(bundle, e, plan.stages[k])
           h == [e.host EXCEPT !.available = w.free]
           d == IF e.device = None THEN None ELSE [e.device EXCEPT !.available = w.room]
<1>1. EvidenceFor(k) = e
  BY AskedWorker
<1>2. w \in Machines
  BY DEF WorldInv
<1>3. /\ [device |-> w.device, driver |-> w.driver, binary |-> w.binary] = e.runtime
      /\ w.device = e.compute.device /\ Cardinality(memory) = 1
      /\ \A p \in memory : assess_fit(Artifact(p), e.capacity, h, d, "footprint-v1") = "safe"
      /\ w.configured
  BY <1>1 DEF QualificationHolds
<1>4. /\ IsBudget(e.host) /\ (e.device # None => IsBudget(e.device) /\ e.worker.backend = "cuda")
      /\ e.memory.backend = e.worker.backend
  BY DEF BundleHistory, Describes
<1>5. \A p \in bundle.profiles : p.assignment = Stages[k] => p.env.device = w.device
  BY <1>3, OneDevice
<1>6. PICK p \in memory : TRUE
  BY <1>3, OnlyElement
<1>7. h.available = w.free
  BY <1>4 DEF IsBudget
<1>8. /\ assess_fit(Artifact(p), e.capacity, h, d, "footprint-v1") = "safe"
      /\ p.env = e.memory
  BY <1>3, <1>6 DEF ActivationProfiles
<1> HIDE DEF h, d, memory
<1>9. /\ h.available # None
      /\ \E peak \in {100, 150} : ~(Needed(peak, h) + h.headroom > h.available)
      /\ p.env.backend = "cuda" => /\ d # None /\ d.available # None
                                   /\ ~(Needed(100, d) + d.headroom > d.available)
  BY <1>8, SafeFit
<1>10. w.free \in {150, 90}
  BY <1>2, <1>7, <1>9 DEF Machines
<1>11. PICK peak \in {100, 150} : ~(Needed(peak, h) + h.headroom > w.free)
  BY <1>7, <1>9
<1>12. Needed(Peak, e.host) + e.host.headroom <= w.free
  <2>1. h = [e.host EXCEPT !.available = w.free]
    BY DEF h
  <2>2. PICK b, free : b = e.host /\ free = w.free
    OBVIOUS
  <2>3. FitsNow(peak, h, b, free)
    BY <1>4, <1>10, <1>11, <2>1, <2>2 DEF FitsNow
  <2>4. FitsPeak(b, free)
    BY <2>3, PeakFits
  <2> QED BY <2>2, <2>4 DEF FitsPeak
<1>13. w.binary = e.runtime.binary /\ w.configured
  BY <1>3
<1>14. RoomFor(w, e)
  <2>1. SUFFICES ASSUME e.device # None
                 PROVE  w.room # None /\ Needed(Peak, e.device) + e.device.headroom <= w.room
    BY DEF RoomFor
  <2>2. IsBudget(e.device) /\ d = [e.device EXCEPT !.available = w.room]
    BY <1>4, <2>1 DEF d
  <2>3. d.available = w.room
    BY <2>2 DEF IsBudget
  <2>4. w.room # None /\ ~(Needed(100, d) + d.headroom > w.room)
    BY <1>4, <1>8, <1>9, <2>1, <2>3
  <2>5. w.room \in {200, 90}
    BY <1>2, <2>4 DEF Machines
  <2>6. PICK b, free, needs : b = e.device /\ free = w.room /\ needs = 100
    OBVIOUS
  <2>7. FitsNow(needs, d, b, free)
    BY <2>2, <2>4, <2>5, <2>6 DEF FitsNow
  <2>8. FitsPeak(b, free)
    BY <2>7, PeakFits
  <2> QED BY <2>4, <2>6, <2>8 DEF FitsPeak
<1> QED BY <1>1, <1>2, <1>5, <1>7, <1>9, <1>12, <1>13, <1>14

\* Once the bundle is sealed only the answers change.
LEMMA SealedMachines ==
  ASSUME MachineInv, stage \in {1, 2}, UNCHANGED <<in, world, profiles>>, DOMAIN seen' = {1, 2},
         pc' \notin Measuring, pc' \in {"plan", "activate"} => stage' = 1, AnswersInv'
  PROVE  MachineInv'
<1>0. WorldInv /\ HistoryOf(profiles) /\ ProgressInv
  BY DEF MachineInv
<1>1. WorldInv' /\ HistoryOf(profiles)'
  BY <1>0 DEF WorldInv, HistoryOf, Stages, Worker
<1>2. ProgressInv'
  BY <1>0, ProgressFrame DEF Measuring
<1>3. SnapshotsInv'
  BY DEF SnapshotsInv, Measuring
<1> QED BY <1>1, <1>2, <1>3 DEF MachineInv

\* Nothing the bundle is compared with moves.
LEMMA BundleHistoryKept ==
  ASSUME UNCHANGED <<in, world, bundle, link>>
  PROVE  BundleHistory' <=> BundleHistory
BY DEF BundleHistory, HistoryOf, Describes, Idle, Stages, Worker, SoundArtifact

\* The plan, and the checks that ask no worker.
LEMMA PlanMachines ==
  ASSUME PlacementInv, MachineInv, Plan \/ ActivateBegin
  PROVE  MachineInv'
<1>0. /\ stage \in {1, 2} /\ ActivationInv /\ WorldInv /\ ProgressInv /\ AnswersInv
  BY DEF PlacementInv, MachineInv, Counters
<1>1. CASE Plan
  <2>1. /\ pc = "plan" /\ pc' \in {"unplanned", "activate", "send"} /\ (Measured => pc' # "send")
        /\ UNCHANGED <<in, stage, world, profiles, link, bundle, seen>>
    BY <1>1 DEF Plan
  <2>2. BundleHistory' <=> BundleHistory
    BY <2>1, BundleHistoryKept
  <2>3. Measured' <=> Measured
    BY <2>1 DEF Measured
  <2>4. AnswersInv'
    BY <1>0, <2>1, <2>2, <2>3 DEF AnswersInv, Planned
  <2>5. stage' = 1 /\ DOMAIN seen' = {1, 2}
    BY <1>0, <2>1 DEF ProgressInv, WorldInv
  <2> QED BY <1>0, <2>1, <2>4, <2>5, SealedMachines DEF Measuring
<1>2. CASE ActivateBegin
  <2>1. /\ pc = "activate" /\ pc' = IF StaticChecks(plan, bundle, now) THEN "state" ELSE "refused"
        /\ UNCHANGED <<in, stage, world, profiles, link, bundle, plan, seen>>
    BY <1>2 DEF ActivateBegin
  <2>2. BundleHistory' <=> BundleHistory
    BY <2>1, BundleHistoryKept
  <2>3. Measured' <=> Measured
    BY <2>1 DEF Measured
  <2>4. stage' = 1 /\ DOMAIN seen' = {1, 2}
    BY <1>0, <2>1 DEF ProgressInv, WorldInv
  <2>5. Measured => BundleFacts /\ PlanFacts /\ BundleHistory
    BY <1>0, <2>1 DEF ActivationInv, AnswersInv, Planned
  <2>6. Measured /\ pc' = "state" => Evaluated
    BY <2>1, <2>5, ChecksMeanEvaluated
  <2>7. Evaluated' <=> Evaluated
    BY <2>1, EvaluatedFrame
  <2>8. AnswersInv'
    BY <2>1, <2>2, <2>3, <2>4, <2>5, <2>6, <2>7 DEF AnswersInv, Planned
  <2> QED BY <1>0, <2>1, <2>4, <2>8, SealedMachines DEF Measuring
<1> QED BY <1>1, <1>2

\* A worker is asked for its state.
LEMMA StateMachines ==
  ASSUME PlacementInv, MachineInv, ActivateState
  PROVE  MachineInv'
<1>0. /\ stage \in {1, 2} /\ ActivationInv /\ WorldInv /\ AnswersInv
  BY DEF PlacementInv, MachineInv, Counters
<1>1. /\ pc = "state" /\ seen' = [seen EXCEPT ![stage] = world[At(stage)]]
      /\ pc' = IF QualificationHolds(stage, world[At(stage)]) THEN "report" ELSE "refused"
      /\ UNCHANGED <<in, stage, world, profiles, link, bundle, plan>>
  BY DEF ActivateState
<1>2. DOMAIN seen' = {1, 2}
  BY <1>0, <1>1 DEF WorldInv
<1>3. AnswersInv'
  <2>1. SUFFICES ASSUME Measured
                 PROVE  AnswersInv'
    BY <1>1 DEF AnswersInv, Measured
  <2>2. BundleFacts /\ PlanFacts /\ BundleHistory /\ Evaluated
    BY <1>0, <1>1, <2>1 DEF ActivationInv, AnswersInv, Planned
  <2>3. BundleHistory' /\ Evaluated'
    BY <1>1, <2>2, BundleHistoryKept, EvaluatedFrame
  <2>4. At(stage) = stage
    BY <1>0, <2>2, AskedWorker
  <2>5. seen'[stage] = world[stage] /\ (stage = 2 => seen'[1] = seen[1])
    BY <1>0, <1>1, <2>4 DEF WorldInv
  <2>6. PICK k \in {1, 2} : k = stage
    BY <1>0
  <2>7. pc' = "report" => Answered(k)'
    <3>1. SUFFICES ASSUME pc' = "report"
                   PROVE  Answered(k)'
      OBVIOUS
    <3>2. QualificationHolds(k, world[k])
      BY <1>1, <2>4, <2>6, <3>1
    <3>3. EvidenceFor(k)' = EvidenceFor(k) /\ Stages' = Stages
      BY <1>1 DEF EvidenceFor, EvidenceOf, Stages, Worker
    <3>4. LET e == EvidenceFor(k) IN
          /\ world[k] \in Machines
          /\ \A p \in bundle.profiles : p.assignment = Stages[k] => p.env.device = world[k].device
          /\ world[k].binary = e.runtime.binary /\ world[k].configured
          /\ world[k].free # None /\ Needed(Peak, e.host) + e.host.headroom <= world[k].free
          /\ RoomFor(world[k], e)
      BY <1>0, <2>2, <3>2, QualificationMeansAnswered
    <3>5. seen'[k] = world[k] /\ bundle' = bundle
      BY <1>1, <2>5, <2>6
    <3> QED BY <3>3, <3>4, <3>5 DEF Answered, RoomFor
  <2>8. Answered(k)' <=> Answered(stage)'
    BY <1>1, <2>6 DEF Answered, RoomFor, EvidenceFor
  <2>9. stage = 2 => Answered(1)' /\ ~seen'[1].loaded
    BY <1>0, <1>1, <2>1, <2>5, AnsweredFrame DEF AnswersInv
  <2> QED BY <1>1, <2>3, <2>7, <2>8, <2>9 DEF AnswersInv, Planned
<1> QED BY <1>0, <1>1, <1>2, <1>3, SealedMachines DEF Measuring

\* A worker is asked whether a stage is loaded.
LEMMA ReportMachines ==
  ASSUME PlacementInv, MachineInv, ActivateReport
  PROVE  MachineInv'
<1>0. /\ stage \in {1, 2} /\ ActivationInv /\ WorldInv /\ AnswersInv
  BY DEF PlacementInv, MachineInv, Counters
<1>1. /\ pc = "report" /\ seen' = [seen EXCEPT ![stage].loaded = world[At(stage)].loaded]
      /\ pc' = (IF world[At(stage)].loaded THEN "refused" ELSE IF stage = 1 THEN "state" ELSE "send")
      /\ stage' = 3 - stage
      /\ UNCHANGED <<in, world, profiles, link, bundle, plan>>
  BY DEF ActivateReport
<1>2. DOMAIN seen' = {1, 2}
  BY <1>0, <1>1 DEF WorldInv
<1>3. AnswersInv'
  <2>1. SUFFICES ASSUME Measured
                 PROVE  AnswersInv'
    BY <1>1 DEF AnswersInv, Measured
  <2>2. BundleFacts /\ PlanFacts /\ BundleHistory /\ Evaluated
    BY <1>0, <1>1, <2>1 DEF ActivationInv, AnswersInv, Planned
  <2>3. BundleHistory' /\ Evaluated'
    BY <1>1, <2>2, BundleHistoryKept, EvaluatedFrame
  <2>4. PICK k \in {1, 2} : k = stage
    BY <1>0
  <2>5. At(k) = k
    BY <2>2, AskedWorker
  <2>6. Answered(k)
    BY <1>0, <1>1, <2>1, <2>4 DEF AnswersInv
  <2>7. seen[k] \in Machines /\ world[k].loaded \in BOOLEAN
    BY <1>0, <2>6 DEF Answered, WorldInv, Machines
  <2>8. seen' = [seen EXCEPT ![k] = [seen[k] EXCEPT !.loaded = world[k].loaded]]
    BY <1>1, <2>4, <2>5
  <2>9. seen'[k] = [seen[k] EXCEPT !.loaded = world[k].loaded] /\ \A j \in {1, 2} \ {k} : seen'[j] = seen[j]
    BY <1>0, <2>8 DEF WorldInv
  <2>10. /\ seen'[k] \in Machines /\ seen'[k].device = seen[k].device /\ seen'[k].binary = seen[k].binary
         /\ seen'[k].free = seen[k].free /\ seen'[k].loaded = world[k].loaded
         /\ seen'[k].room = seen[k].room /\ seen'[k].configured = seen[k].configured
    BY <2>7, <2>9 DEF Machines
  <2>11. EvidenceFor(k)' = EvidenceFor(k) /\ Stages' = Stages
    BY <1>1 DEF EvidenceFor, EvidenceOf, Stages, Worker
  <2>12. Answered(k)'
    BY <1>1, <2>6, <2>10, <2>11 DEF Answered, RoomFor
  <2>13. pc' # "refused" => ~seen'[k].loaded
    BY <1>1, <2>4, <2>5, <2>10
  <2>14. k = 2 => Answered(1)' /\ ~seen'[1].loaded
    <3>1. k = 2 => Answered(1) /\ ~seen[1].loaded /\ seen'[1] = seen[1]
      BY <1>0, <1>1, <2>1, <2>4, <2>9 DEF AnswersInv
    <3> QED BY <1>1, <3>1, AnsweredFrame
  <2>15. CASE k = 1
    BY <1>1, <2>3, <2>4, <2>12, <2>13, <2>15 DEF AnswersInv, Planned
  <2>16. CASE k = 2
    <3>1. pc' \in {"refused", "send"}
      BY <1>1, <2>4, <2>16
    <3>2. pc' = "send" => \A j \in {1, 2} : Answered(j)' /\ ~seen'[j].loaded
      BY <2>12, <2>13, <2>14, <2>16
    <3> QED BY <2>3, <3>1, <3>2 DEF AnswersInv, Planned
  <2> QED BY <2>15, <2>16
<1> QED BY <1>0, <1>1, <1>2, <1>3, SealedMachines DEF Measuring

\* The plan is sent.
LEMMA SendMachines ==
  ASSUME PlacementInv, MachineInv, Send
  PROVE  MachineInv'
<1>0. stage \in {1, 2} /\ WorldInv /\ AnswersInv
  BY DEF PlacementInv, MachineInv, Counters
<1>1. /\ pc = "send" /\ pc' = "sent"
      /\ UNCHANGED <<in, stage, world, profiles, link, bundle, plan, seen>>
  BY DEF Send
<1>2. (BundleHistory' <=> BundleHistory) /\ (Evaluated' <=> Evaluated) /\ (Measured' <=> Measured)
  BY <1>1, BundleHistoryKept, EvaluatedFrame DEF Measured
<1>3. \A k : Answered(k)' <=> Answered(k)
  BY <1>1, AnsweredFrame
<1>4. AnswersInv'
  BY <1>0, <1>1, <1>2, <1>3 DEF AnswersInv, Planned
<1>5. DOMAIN seen' = {1, 2}
  BY <1>0, <1>1 DEF WorldInv
<1> QED BY <1>0, <1>1, <1>4, <1>5, SealedMachines DEF Measuring

\* What can have changed on a machine.
Changed(w) == {[w EXCEPT !.device = 1], [w EXCEPT !.release = 1],
               [w EXCEPT !.driver = 1, !.release = 1], [w EXCEPT !.binary = 1],
               [w EXCEPT !.helper = 1], [w EXCEPT !.free = 90], [w EXCEPT !.free = None],
               [w EXCEPT !.room = 90], [w EXCEPT !.room = None],
               [w EXCEPT !.configured = FALSE], [w EXCEPT !.loaded = TRUE]}

LEMMA OneChange ==
  ASSUME WorldInv, NEW k \in {1, 2}, MachineChanges(k)
  PROVE  \E v \in Changed(world[k]) : world' = [world EXCEPT ![k] = v]
<1>1. DOMAIN world = {1, 2}
  BY DEF WorldInv
<1>2. [world EXCEPT ![k].driver = 1, ![k].release = 1] =
        [world EXCEPT ![k] = [world[k] EXCEPT !.driver = 1, !.release = 1]]
  BY <1>1
<1>3. world' \in {[world EXCEPT ![k] = v] : v \in Changed(world[k])}
  BY <1>2, Zenon DEF MachineChanges, Changed
<1> QED BY <1>3

\* A machine that changes is not given its old device back.
LEMMA ChangedMachine ==
  ASSUME WorldInv, NEW k \in {1, 2}, MachineChanges(k)
  PROVE  WorldInv' /\ \A j \in {1, 2} : world[j].device <= world'[j].device
<1> DEFINE w == world[k]
<1>1. DOMAIN world = {1, 2} /\ w \in Machines /\ seen' = seen
  BY DEF WorldInv, MachineChanges
<1>2. PICK v \in Changed(w) : world' = [world EXCEPT ![k] = v]
  BY OneChange
<1> HIDE DEF w
<1>3. v \in Machines /\ v.device \in {w.device, 1} /\ w.device \in {0, 1}
  <2>1. CASE v = [w EXCEPT !.device = 1]
    BY <1>1, <2>1 DEF Machines
  <2>2. CASE v = [w EXCEPT !.release = 1]
    BY <1>1, <2>2 DEF Machines
  <2>3. CASE v = [w EXCEPT !.driver = 1, !.release = 1]
    <3>1. PICK u : u = [w EXCEPT !.driver = 1]
      OBVIOUS
    <3>2. u \in Machines /\ u.device = w.device /\ v = [u EXCEPT !.release = 1]
      BY <1>1, <2>3, <3>1 DEF Machines
    <3> QED BY <1>1, <3>2 DEF Machines
  <2>4. CASE v = [w EXCEPT !.binary = 1] \/ v = [w EXCEPT !.helper = 1]
    BY <1>1, <2>4 DEF Machines
  <2>5. CASE v = [w EXCEPT !.free = 90] \/ v = [w EXCEPT !.free = None]
    BY <1>1, <2>5 DEF Machines
  <2>6. CASE v = [w EXCEPT !.room = 90] \/ v = [w EXCEPT !.room = None]
    BY <1>1, <2>6 DEF Machines
  <2>7. CASE v = [w EXCEPT !.configured = FALSE]
    BY <1>1, <2>7 DEF Machines
  <2>8. CASE v = [w EXCEPT !.loaded = TRUE]
    BY <1>1, <2>8 DEF Machines
  <2> QED BY <1>2, <2>1, <2>2, <2>3, <2>4, <2>5, <2>6, <2>7, <2>8 DEF Changed
<1>4. world' \in [{1, 2} -> Machines] /\ world'[k] = v /\ \A j \in {1, 2} \ {k} : world'[j] = world[j]
  BY <1>2, <1>3 DEF WorldInv
<1>5. \A j \in {1, 2} : world[j].device \in {0, 1}
  BY DEF WorldInv, Machines
<1>6. \A j \in {1, 2} : world[j].device <= world'[j].device
  BY <1>3, <1>4, <1>5 DEF w
<1> QED BY <1>1, <1>4, <1>6 DEF WorldInv

-----------------------------------------------------------------------------
(* The theorem *)

\* It holds at the start.
LEMMA InitMachines ==
  ASSUME Init
  PROVE  MachineInv
<1>1. WorldInv
  BY DEF Init, WorldInv, Machines, Untouched
<1>2. HistoryOf(profiles)
  BY DEF Init, HistoryOf
<1>3. ProgressInv
  <2>1. profiles = {} /\ stage = 1 /\ (pc = "memory" \/ pc = "plan")
    BY DEF Init
  <2>2. pc = "memory" => Progress = 0
    BY <2>1 DEF Progress, Rank
  <2>3. \A kind \in {"memory", "compute"}, k \in {1, 2} : Rank(kind, k) \in 0..3
    BY DEF Rank
  <2>4. \A kind \in {"memory", "compute"}, k \in {1, 2} : pc = "memory" => ~(Rank(kind, k) < Progress)
    BY <2>2, <2>3
  <2> QED BY <2>1, <2>4 DEF ProgressInv, Idle, Measuring
<1>4. SnapshotsInv /\ AnswersInv
  BY DEF Init, SnapshotsInv, AnswersInv, Planned, Measured
<1> QED BY <1>1, <1>2, <1>3, <1>4 DEF MachineInv

\* Every step keeps it.
LEMMA NextMachines ==
  ASSUME PlacementInv, MachineInv, [Next]_vars
  PROVE  MachineInv'
<1>0. WorldInv
  BY DEF MachineInv
<1>1. CASE Tick \/ Reroute \/ UNCHANGED vars
  <2>1. UNCHANGED <<in, pc, stage, world, profiles, link, evidence, bundle, plan, seen>>
    BY <1>1 DEF Tick, Reroute, vars
  <2>2. WorldInv' /\ \A k \in {1, 2} : world[k].device <= world'[k].device
    BY <1>0, <2>1, WorldKept
  <2> QED BY <2>1, <2>2, MachineStep
<1>2. ASSUME NEW k \in {1, 2}, MachineChanges(k)
      PROVE  MachineInv'
  <2>1. UNCHANGED <<in, pc, stage, profiles, link, evidence, bundle, plan, seen>>
    BY <1>2 DEF MachineChanges
  <2>2. WorldInv' /\ \A j \in {1, 2} : world[j].device <= world'[j].device
    BY <1>0, <1>2, ChangedMachine
  <2> QED BY <2>1, <2>2, MachineStep
<1> QED BY <1>1, <1>2, ProfileMachines, AgainMachines, SetupMachines, LinkMachines, SnapshotMachines,
           SealMachines, PlanMachines, StateMachines, ReportMachines, SendMachines DEF Next

\* A measured plan that is sent rests on the machines that answered: both workers
\* answered as the machines all profiles of the bundle were taken on and in the
\* configuration that was profiled, with the host and device memory of the profile free
\* and nothing loaded, and the path of the link run was seen again for the bundle,
\* whatever changed in between; what has changed on a machine does not
\* change back (activation.py).
THEOREM ActivationIsOnItsEvidence == Spec => []ActivatedOnItsEvidence
<1>1. ASSUME PlacementInv, MachineInv
      PROVE  ActivatedOnItsEvidence
  <2>1. AnswersInv
    BY <1>1 DEF MachineInv
  <2> QED BY <2>1 DEF AnswersInv, Evaluated, Answered, RoomFor, ActivatedOnItsEvidence
<1>2. Spec => []MachineInv
  BY InitMachines, NextMachines, PlacementInvariant, PTL DEF Spec
<1> QED BY <1>1, <1>2, PlacementInvariant, PTL

-----------------------------------------------------------------------------
(* Finite sets: sums, least numbers, minimal elements *)

\* A set with sizes as a set of unit pieces: its cardinality is the sum of the
\* sizes, a definition of the sum without recursion.
Units(bytes, S) == UNION {{o} \X (1..bytes[o]) : o \in S}

\* A finite set of elements with sizes has finitely many pieces.
LEMMA UnitsAreFinite ==
  ASSUME NEW S, IsFiniteSet(S), NEW bytes, \A o \in S : bytes[o] \in Nat
  PROVE  IsFiniteSet(Units(bytes, S))
<1> DEFINE at == [o \in S |-> {o} \X (1..bytes[o])]
           all == {{o} \X (1..bytes[o]) : o \in S}
<1>1. at \in Surjection(S, all)
  BY DEF Surjection
<1>2. IsFiniteSet(all)
  <2> HIDE DEF at, all
  <2> QED BY <1>1, FS_Surjection
<1>3. ASSUME NEW o \in S
      PROVE  IsFiniteSet({o} \X (1..bytes[o]))
  <2>1. IsFiniteSet({o})
    BY FS_Singleton
  <2>2. IsFiniteSet(1..bytes[o])
    BY FS_Interval
  <2> QED BY <2>1, <2>2, FS_Product
<1>4. \A T \in all : IsFiniteSet(T)
  BY <1>3
<1> QED BY <1>2, <1>4, FS_UNION DEF Units

\* An element contributes as many pieces as its size.
LEMMA UnitsOfOneMore ==
  ASSUME NEW S, IsFiniteSet(S), NEW bytes, \A o \in S : bytes[o] \in Nat, NEW x \in S
  PROVE  Cardinality(Units(bytes, S)) = bytes[x] + Cardinality(Units(bytes, S \ {x}))
<1> DEFINE own == {x} \X (1..bytes[x])
           rest == Units(bytes, S \ {x})
<1>1. IsFiniteSet(S \ {x}) /\ bytes[x] \in Nat
  BY FS_RemoveElement
<1>2. IsFiniteSet(rest) /\ Cardinality(rest) \in Nat
  BY <1>1, UnitsAreFinite, FS_CardinalityType
<1>3. IsFiniteSet(1..bytes[x]) /\ Cardinality(1..bytes[x]) = bytes[x]
  BY <1>1, FS_Interval
<1>4. IsFiniteSet({x}) /\ Cardinality({x}) = 1
  BY FS_Singleton
<1>5. IsFiniteSet(own) /\ Cardinality(own) = 1 * bytes[x]
  BY <1>3, <1>4, FS_Product
<1>6. Units(bytes, S) = own \cup rest
  BY DEF Units
<1>7. own \cap rest = {}
  BY DEF Units
<1>8. Cardinality(own \cap rest) = 0
  BY <1>7, FS_EmptySet
<1> HIDE DEF own, rest
<1>9. Cardinality(own \cup rest) = Cardinality(own) + Cardinality(rest) - Cardinality(own \cap rest)
  BY <1>2, <1>5, FS_Union
<1> QED BY <1>1, <1>2, <1>5, <1>6, <1>8, <1>9 DEF rest

\* A sum of sizes is a number.  The count of the pieces satisfies the recursive
\* equation of the fold, so a function that satisfies it exists; that it takes
\* numbers as values follows from a smallest subset where it does not.
LEMMA SumIsNat ==
  ASSUME NEW S, IsFiniteSet(S), NEW bytes, \A o \in S : bytes[o] \in Nat
  PROVE  Total(bytes, S) \in Nat
<1> DEFINE some(s) == CHOOSE x \in s : TRUE
           body(g) == [s \in SUBSET S |-> IF s = {} THEN 0
                                          ELSE bytes[some(s)] + g[s \ {some(s)}]]
           sums == CHOOSE g : g = body(g)
           units == [s \in SUBSET S |-> Cardinality(Units(bytes, s))]
<1>1. Total(bytes, S) = sums[S]
  BY DEF Total, MapThenSumSet, MapThenFoldSet
<1>2. units = body(units)
  <2>1. ASSUME NEW s \in SUBSET S, s # {}
        PROVE  units[s] = bytes[some(s)] + units[s \ {some(s)}]
    <3>1. some(s) \in s
      BY <2>1
    <3>2. IsFiniteSet(s) /\ \A o \in s : bytes[o] \in Nat
      BY FS_Subset
    <3> HIDE DEF some
    <3> QED BY <3>1, <3>2, UnitsOfOneMore
  <2>2. units[{}] = 0
    <3>1. Units(bytes, {}) = {}
      BY DEF Units
    <3> QED BY <3>1, FS_EmptySet
  <2>3. \A s \in SUBSET S : units[s] = IF s = {} THEN 0 ELSE bytes[some(s)] + units[s \ {some(s)}]
    <3> HIDE DEF units, some
    <3> QED BY <2>1, <2>2
  <2>4. units = [s \in SUBSET S |-> units[s]]
    OBVIOUS
  <2> HIDE DEF units, some
  <2> QED BY <2>3, <2>4
<1>3. sums = body(sums)
  <2> HIDE DEF body, units
  <2> QED BY <1>2
<1>4. \A s \in SUBSET S : sums[s] \in Nat
  <2> DEFINE wrong == {s \in SUBSET S : sums[s] \notin Nat}
  <2> SUFFICES ASSUME wrong # {}
               PROVE  FALSE
    BY DEF wrong
  <2>1. FiniteSubsetsOf(S) = SUBSET S
    BY FS_FiniteSubsetsOfFinite
  <2>2. PICK s \in wrong : \A t \in wrong : <<t, s>> \notin StrictSubsetOrdering(S)
    <3> HIDE DEF wrong
    <3>1. wrong \subseteq FiniteSubsetsOf(S)
      BY <2>1 DEF wrong
    <3> QED BY <3>1, FS_StrictSubsetOrderingWellFounded, WFMin
  <2>3. sums[s] = IF s = {} THEN 0 ELSE bytes[some(s)] + sums[s \ {some(s)}]
    <3> HIDE DEF some, sums
    <3> QED BY <1>3
  <2>4. s # {} /\ some(s) \in s
    <3>1. s # {}
      <4> HIDE DEF some, sums
      <4> QED BY <2>3
    <3> QED BY <3>1
  <2> DEFINE t == s \ {some(s)}
  <2> HIDE DEF some, sums
  <2>5. <<t, s>> \in StrictSubsetOrdering(S) /\ t \in SUBSET S
    BY <2>4 DEF StrictSubsetOrdering
  <2>6. sums[t] \in Nat
    <3> HIDE DEF t
    <3> QED BY <2>2, <2>5
  <2> QED BY <2>3, <2>4, <2>6
<1> HIDE DEF sums, body
<1> QED BY <1>1, <1>4

\* A set of numbers that is not empty has a least one.
LEMMA LeastNumber ==
  ASSUME NEW A, A \subseteq Nat, A # {}
  PROVE  Min(A) \in A /\ \A a \in A : Min(A) <= a
<1>1. PICK x \in A : \A y \in A : ~(<<y, x>> \in OpToRel(<, Nat))
  BY NatLessThanWellFounded, WFMin
<1>2. \A y \in A : ~(y < x)
  BY <1>1, Zenon DEF OpToRel
<1>3. \E a \in A : \A b \in A : a =< b
  BY <1>2
<1> QED BY <1>3 DEF Min

\* A finite set that is not empty has an element that none precedes, if `before' is
\* a strict order: one with the fewest predecessors.
LEMMA MinimalElement ==
  ASSUME NEW F, IsFiniteSet(F), F # {}, NEW before,
         \A i \in F : <<i, i>> \notin before,
         \A i, j, k \in F : <<i, j>> \in before /\ <<j, k>> \in before => <<i, k>> \in before
  PROVE  \E i \in F : \A j \in F : <<j, i>> \notin before
<1> DEFINE below == [i \in F |-> {j \in F : <<j, i>> \in before}]
           belows == {below[i] : i \in F}
<1>1. belows \subseteq FiniteSubsetsOf(F) /\ belows # {}
  <2>1. \A i \in F : below[i] \in SUBSET F
    OBVIOUS
  <2>2. FiniteSubsetsOf(F) = SUBSET F
    BY FS_FiniteSubsetsOfFinite
  <2> HIDE DEF below
  <2> QED BY <2>1, <2>2
<1>2. PICK b \in belows : \A c \in belows : <<c, b>> \notin StrictSubsetOrdering(F)
  <2> HIDE DEF belows
  <2> QED BY <1>1, FS_StrictSubsetOrderingWellFounded, WFMin
<1>3. PICK i \in F : b = below[i]
  OBVIOUS
<1>4. ASSUME NEW j \in F, <<j, i>> \in before
      PROVE  FALSE
  <2>1. below[j] \subseteq below[i] /\ j \in below[i] /\ j \notin below[j]
    BY <1>4
  <2>2. below[j] \in belows /\ below[j] \in SUBSET F /\ below[i] \in SUBSET F
    OBVIOUS
  <2> HIDE DEF below, belows
  <2>3. <<below[j], below[i]>> \in StrictSubsetOrdering(F)
    BY <2>1, <2>2 DEF StrictSubsetOrdering
  <2> QED BY <1>2, <1>3, <2>2, <2>3
<1> QED BY <1>4

-----------------------------------------------------------------------------
(* The candidates of the planner *)

\* One placement: the first and the final worker, and the split.
Placed(i, evaluation, first, final, split) ==
  Candidate(i, evaluation, first, final, <<first.id, final.id, split>>,
            find_link(i.links, first.id, final.id),
            << stage_memory(i.manifest, first, i.workload, i.settings, 0, split, TRUE, FALSE),
               stage_memory(i.manifest, final, i.workload, i.settings, split, i.manifest.layers,
                            FALSE, TRUE) >>)

Splits(i) == 1..(i.manifest.layers - 1)

\* All of them, in no order.
Placements(i, evaluation) ==
  {Placed(i, evaluation, i.workers[a], i.workers[3 - a], split) : a \in {1, 2}, split \in Splits(i)}

\* What the proofs need of the inputs and of the evaluation of the evidence.
Plannable(i, evaluation) ==
  /\ WellFormed(i) /\ Len(i.workers) = 2 /\ i.workers[1].id # i.workers[2].id
  /\ i.settings.mode = "measured" =>
       \A a \in {1, 2}, split \in Splits(i) :
         LET found == evaluation[<<i.workers[a].id, i.workers[3 - a].id, split>>]
         IN  found.reasons = {} => {found.performance.ttft, found.performance.decode} \subseteq Nat

\* The two workers.
LEMMA TwoWorkers ==
  ASSUME NEW i, WellFormed(i), Len(i.workers) = 2
  PROVE  /\ DOMAIN i.workers = {1, 2} /\ WellFormedWorker(i.workers[1]) /\ WellFormedWorker(i.workers[2])
         /\ i.workers = [k \in 1..2 |-> i.workers[k]]
<1>1. i.workers = [k \in 1..2 |-> i.workers[k]]
  BY DEF WellFormed, IsSequence, IsRecord
<1>2. DOMAIN i.workers = 1..2
  BY <1>1
<1>3. 1..2 = {1, 2}
  OBVIOUS
<1> QED BY <1>1, <1>2, <1>3 DEF WellFormed

\* The list of the planner holds all of them and nothing else.
LEMMA ListedPlacements ==
  ASSUME NEW i, NEW evaluation, WellFormed(i)
  PROVE  LET cs == raw_candidates(i, evaluation) IN
         /\ IsFiniteSet(DOMAIN cs) /\ DOMAIN cs \subseteq Nat
         /\ {cs[n] : n \in DOMAIN cs} = Placements(i, evaluation)
<1> DEFINE layers == i.manifest.layers
           one(split) == Placed(i, evaluation, i.workers[1], i.workers[2], split)
           two(split) == Placed(i, evaluation, i.workers[2], i.workers[1], split)
           cs == raw_candidates(i, evaluation)
<1>1. layers \in Nat \ {0}
  BY DEF WellFormed, WellFormedManifest
<1>2. cs = [n \in 1..(2 * (layers - 1)) |-> IF n < layers THEN one(n) ELSE two(n - layers + 1)]
  BY DEF raw_candidates, Placed
<1>3. Placements(i, evaluation) = {one(split) : split \in 1..(layers - 1)} \cup {two(split) : split \in 1..(layers - 1)}
  <2>1. \A x : x \in Placements(i, evaluation) <=>
               \E a \in {1, 2}, split \in 1..(layers - 1) :
                  x = Placed(i, evaluation, i.workers[a], i.workers[3 - a], split)
    BY DEF Placements, Splits
  <2>2. i.workers[3 - 1] = i.workers[2] /\ i.workers[3 - 2] = i.workers[1]
    OBVIOUS
  <2> HIDE DEF layers
  <2>3. \A x : x \in Placements(i, evaluation) <=>
               \/ \E split \in 1..(layers - 1) : x = one(split)
               \/ \E split \in 1..(layers - 1) : x = two(split)
    BY <2>1, <2>2
  <2> QED BY <2>3
<1> HIDE DEF layers, one, two, cs
<1>4. DOMAIN cs = 1..(2 * (layers - 1)) /\ DOMAIN cs \subseteq Nat
  BY <1>1, <1>2
<1>5. IsFiniteSet(DOMAIN cs)
  <2>1. 1 \in Int /\ 2 * (layers - 1) \in Int
    BY <1>1
  <2> QED BY <1>4, <2>1, FS_Interval
<1>6. \A n \in DOMAIN cs : cs[n] \in Placements(i, evaluation)
  <2> TAKE n \in DOMAIN cs
  <2>1. CASE n < layers
    BY <1>1, <1>2, <1>3, <1>4, <2>1
  <2>2. CASE ~(n < layers)
    <3>1. n - layers + 1 \in 1..(layers - 1) /\ cs[n] = two(n - layers + 1)
      BY <1>1, <1>2, <1>4, <2>2
    <3> QED BY <1>3, <3>1
  <2> QED BY <2>1, <2>2
<1>7. \A split \in 1..(layers - 1) : split \in DOMAIN cs /\ cs[split] = one(split)
  BY <1>1, <1>2, <1>4
<1>8. \A split \in 1..(layers - 1) :
        /\ split + layers - 1 \in DOMAIN cs
        /\ cs[split + layers - 1] = two(split)
  <2> TAKE split \in 1..(layers - 1)
  <2>1. /\ split + layers - 1 \in 1..(2 * (layers - 1)) /\ ~(split + layers - 1 < layers)
        /\ (split + layers - 1) - layers + 1 = split
    BY <1>1
  <2> QED BY <1>2, <1>4, <2>1
<1>9. {cs[n] : n \in DOMAIN cs} = Placements(i, evaluation)
  <2>1. \A x \in Placements(i, evaluation) : \E n \in DOMAIN cs : x = cs[n]
    BY <1>3, <1>7, <1>8
  <2> QED BY <1>6, <2>1
<1> QED BY <1>4, <1>5, <1>9 DEF cs

-----------------------------------------------------------------------------
(* Scores are numbers *)

\* The product of natural numbers.
LEMMA NatProduct == \A a, b \in Nat : a * b \in Nat
OBVIOUS

\* A rounded-up quotient.
LEMMA CeilIsNat ==
  ASSUME NEW a \in Nat, NEW b \in Nat \ {0}
  PROVE  Ceil(a, b) \in Nat
BY DEF Ceil

\* The larger and the smaller of two numbers.
LEMMA MaxOfTwo ==
  ASSUME NEW a \in Int, NEW b \in Int
  PROVE  Max({a, b}) \in {a, b} /\ a <= Max({a, b}) /\ b <= Max({a, b}) /\ Min({a, b}) \in {a, b}
<1>1. (\E x \in {a, b} : \A y \in {a, b} : x >= y) /\ \E x \in {a, b} : \A y \in {a, b} : x =< y
  OBVIOUS
<1> QED BY <1>1 DEF Max, Min

\* Every type has a size.
LEMMA BytesAreNat ==
  \A d \in DOMAIN DTYPE_BYTES : DTYPE_BYTES[d] \in Nat \ {0}
BY DEF DTYPE_BYTES

\* So have the weights of a stage.
LEMMA WeightIsNat ==
  ASSUME NEW m, WellFormedManifest(m), NEW start, NEW end, NEW isFirst, NEW isFinal,
         NEW dtype \in DOMAIN DTYPE_BYTES
  PROVE  stage_weight_bytes(m, start, end, isFirst, isFinal, dtype) \in Nat
<1> DEFINE kept == {i \in DOMAIN m.tensors : Includes(m, m.tensors[i], start, end, isFirst, isFinal)}
           bytes == [i \in kept |-> m.tensors[i].elements * DTYPE_BYTES[dtype]]
<1>1. stage_weight_bytes(m, start, end, isFirst, isFinal, dtype) = Total(bytes, kept)
  BY DEF stage_weight_bytes
<1>2. DOMAIN m.tensors = 1..Len(m.tensors) /\ Len(m.tensors) \in Nat
  BY DEF WellFormedManifest, IsSequence, IsRecord
<1>3. IsFiniteSet(DOMAIN m.tensors)
  <2>1. PICK n \in Nat : n = Len(m.tensors)
    BY <1>2
  <2>2. 1 \in Int /\ n \in Int
    OBVIOUS
  <2>3. IsFiniteSet(1..n)
    BY <2>2, FS_Interval
  <2> QED BY <1>2, <2>1, <2>3
<1>4. IsFiniteSet(kept)
  BY <1>3, FS_Subset
<1>5. \A i \in kept : bytes[i] \in Nat
  <2>1. \A i \in kept : m.tensors[i].elements \in Nat
    BY DEF WellFormedManifest
  <2> QED BY <2>1, BytesAreNat, NatProduct
<1> HIDE DEF kept, bytes
<1> QED BY <1>1, <1>4, <1>5, SumIsNat

\* What a budget leaves is not negative.
LEMMA UsableIsNat ==
  ASSUME NEW w, WellFormedWorker(w), NEW d \in DOMAIN w.budgets
  PROVE  usable_bytes(w.budgets[d]) \in Nat
<1> DEFINE b == w.budgets[d]
           rest == b.capacity - b.reserve - (b.capacity * b.safety) \div 100
<1>1. b.capacity \in Nat /\ b.reserve \in Nat /\ b.safety \in Nat
  BY DEF WellFormedWorker
<1>2. b.capacity * b.safety \in Nat
  BY <1>1, NatProduct
<1>3. rest \in Int
  BY <1>1, <1>2
<1>4. usable_bytes(b) = Max({0, rest})
  BY DEF usable_bytes
<1> HIDE DEF rest, b
<1>5. Max({0, rest}) \in Nat
  <2>1. 0 \in Int
    OBVIOUS
  <2>2. Max({0, rest}) \in {0, rest} /\ 0 <= Max({0, rest})
    BY <1>3, <2>1, MaxOfTwo
  <2> QED BY <1>3, <2>2
<1> QED BY <1>4, <1>5 DEF b

\* The pressure of a stage on the memory of its worker.
LEMMA PressureIsNat ==
  ASSUME NEW i, WellFormed(i), NEW w, WellFormedWorker(w), NEW start \in Nat, NEW end \in Nat, start <= end,
         NEW isFirst, NEW isFinal
  PROVE  stage_memory(i.manifest, w, i.workload, i.settings, start, end, isFirst, isFinal).pressure \in Nat
<1> DEFINE m == i.manifest
           load == i.workload
           dtype == IF i.settings.weight # None THEN i.settings.weight ELSE i.settings.execution
           weights == stage_weight_bytes(m, start, end, isFirst, isFinal, dtype)
           subtotal == weights + kv_bytes(m, load, end - start) + workspace_bytes(w)
                         + boundary_buffers(m, w, load)
           required == WithAllowance(subtotal, w)
           usable == usable_bytes(w.budgets[w.domain])
<1>1. stage_memory(m, w, load, i.settings, start, end, isFirst, isFinal) = StageMemory(w, required, usable)
  BY DEF stage_memory
<1>2. /\ m.layers \in Nat /\ m.hidden \in Nat /\ m.kvWidth \in Nat
      /\ load.prompt \in Nat /\ load.cached \in Nat /\ load.concurrency \in Nat /\ load.kvFactor \in Nat
      /\ load.kv \in DOMAIN DTYPE_BYTES /\ load.activation \in DOMAIN DTYPE_BYTES /\ dtype \in DOMAIN DTYPE_BYTES
  <2>1. WellFormedManifest(m) /\ WellFormedWorkload(load) /\ WellFormedSettings(i.settings)
    BY DEF WellFormed
  <2>2. "F16" \in DOMAIN DTYPE_BYTES
    BY DEF DTYPE_BYTES
  <2> QED BY <2>1, <2>2 DEF WellFormedManifest, WellFormedWorkload, WellFormedSettings
<1>3. /\ w.workspace \in Nat /\ w.transport \in Nat /\ w.buffers \in Nat /\ w.allowance \in Nat
      /\ w.domain \in DOMAIN w.budgets
  BY DEF WellFormedWorker
<1>4. weights \in Nat
  BY <1>2, WeightIsNat DEF WellFormed
<1>5. kv_bytes(m, load, end - start) \in Nat
  <2>1. end - start \in Nat /\ DTYPE_BYTES[load.kv] \in Nat
    BY <1>2, BytesAreNat
  <2> DEFINE a == (end - start) * load.cached
             b == a * 2
             c == b * m.kvWidth
             d == c * DTYPE_BYTES[load.kv]
             e == d * load.kvFactor
  <2>2. a \in Nat
    BY <1>2, <2>1, NatProduct
  <2>3. b \in Nat
    BY <2>2
  <2>4. c \in Nat
    BY <1>2, <2>3, NatProduct
  <2>5. d \in Nat
    BY <2>1, <2>4, NatProduct
  <2>6. e \in Nat
    BY <1>2, <2>5, NatProduct
  <2>7. kv_bytes(m, load, end - start) = Ceil(e, 100)
    BY DEF kv_bytes
  <2> HIDE DEF e
  <2> QED BY <2>6, <2>7, CeilIsNat
<1>6. workspace_bytes(w) \in Nat
  BY <1>3 DEF workspace_bytes
<1>7. boundary_buffers(m, w, load) \in Nat
  <2>1. DTYPE_BYTES[load.activation] \in Nat
    BY <1>2, BytesAreNat
  <2> DEFINE a == load.concurrency * load.prompt
             b == a * m.hidden
             c == b * DTYPE_BYTES[load.activation]
             d == c * w.buffers
  <2>2. a \in Nat
    BY <1>2, NatProduct
  <2>3. b \in Nat
    BY <1>2, <2>2, NatProduct
  <2>4. c \in Nat
    BY <2>1, <2>3, NatProduct
  <2>5. d \in Nat
    BY <1>3, <2>4, NatProduct
  <2>6. boundary_buffers(m, w, load) = d
    BY DEF boundary_buffers
  <2> QED BY <2>5, <2>6
<1>8. subtotal \in Nat
  BY <1>4, <1>5, <1>6, <1>7
<1> HIDE DEF subtotal
<1>9. required \in Nat
  <2>1. subtotal * w.allowance \in Nat
    BY <1>3, <1>8, NatProduct
  <2>2. Ceil(subtotal * w.allowance, 100) \in Nat
    BY <2>1, CeilIsNat
  <2> QED BY <1>8, <2>2 DEF WithAllowance
<1>10. usable \in Nat
  BY <1>3, UsableIsNat
<1> HIDE DEF required, usable
<1>11. PressureScale \in Nat /\ required * PressureScale \in Nat
  BY <1>9, PlannerAssumption, NatProduct
<1>12. StageMemory(w, required, usable).pressure \in Nat
  BY <1>10, <1>11 DEF StageMemory
<1> QED BY <1>1, <1>12

\* The link found is one of the inputs'.
LEMMA LinkFound ==
  ASSUME NEW i, WellFormed(i), NEW source, NEW target
  PROVE  find_link(i.links, source, target) = None \/ WellFormedLink(find_link(i.links, source, target))
<1> DEFINE matching == {k \in DOMAIN i.links : i.links[k].source = source /\ i.links[k].target = target}
<1>1. DOMAIN i.links \subseteq Nat /\ \A k \in DOMAIN i.links : WellFormedLink(i.links[k])
  BY DEF WellFormed, IsSequence, IsRecord
<1>2. find_link(i.links, source, target) = IF matching = {} THEN None ELSE i.links[Min(matching)]
  BY DEF find_link
<1>3. matching \subseteq Nat /\ matching \subseteq DOMAIN i.links
  BY <1>1
<1> HIDE DEF matching
<1>4. matching # {} => Min(matching) \in DOMAIN i.links
  BY <1>3, LeastNumber
<1> QED BY <1>1, <1>2, <1>4

-----------------------------------------------------------------------------
(* The order of the candidates *)

\* What the estimate of a configured link is made of.
LEMMA EstimateIsNat ==
  ASSUME NEW i, WellFormed(i), NEW l, WellFormedLink(l)
  PROVE  LET p == boundary_estimate(i.manifest, i.workload, l)
         IN  {p.prefill, p.decode} \subseteq Int /\ relay_penalty(l.type) \in Nat
<1> DEFINE load == i.workload
           width == load.concurrency * i.manifest.hidden * DTYPE_BYTES[load.activation]
           conversion == l.sender + l.receiver
           extra == Ceil(load.prompt, boundary_message_tokens(load)) - 1
           p == boundary_estimate(i.manifest, load, l)
<1>1. /\ i.manifest.hidden \in Nat /\ load.concurrency \in Nat /\ load.activation \in DOMAIN DTYPE_BYTES
      /\ load.prompt \in Nat \ {0} /\ load.chunk \in Nat
  <2>1. WellFormedManifest(i.manifest) /\ WellFormedWorkload(load)
    BY DEF WellFormed
  <2> QED BY <2>1 DEF WellFormedManifest, WellFormedWorkload
<1>2. l.latency \in Nat /\ l.bandwidth \in Nat \ {0} /\ l.sender \in Nat /\ l.receiver \in Nat
  BY DEF WellFormedLink
<1>3. width \in Nat
  <2>1. DTYPE_BYTES[load.activation] \in Nat /\ load.concurrency * i.manifest.hidden \in Nat
    BY <1>1, BytesAreNat, NatProduct
  <2> QED BY <2>1, NatProduct
<1>4. boundary_message_tokens(load) \in Nat \ {0}
  BY <1>1 DEF boundary_message_tokens
<1>5. extra \in Int
  <2>1. Ceil(load.prompt, boundary_message_tokens(load)) \in Nat
    BY <1>1, <1>4, CeilIsNat
  <2> QED BY <2>1
<1>6. load.prompt * width \in Nat
  BY <1>1, <1>3, NatProduct
<1>7. /\ p.prefill = l.latency + (load.prompt * width) \div l.bandwidth + conversion
                       + extra * (l.latency + conversion)
      /\ p.decode = l.latency + width \div l.bandwidth + conversion
  BY DEF boundary_estimate
<1> HIDE DEF width, extra, p
<1>8. (load.prompt * width) \div l.bandwidth \in Int /\ width \div l.bandwidth \in Int
  BY <1>2, <1>3, <1>6
<1>9. extra * (l.latency + conversion) \in Int
  BY <1>2, <1>5
<1>10. p.prefill \in Int /\ p.decode \in Int
  BY <1>2, <1>7, <1>8, <1>9
<1>11. relay_penalty(l.type) \in Nat
  BY DEF relay_penalty, WellFormedLink
<1> QED BY <1>10, <1>11 DEF p

\* The product of integers.
LEMMA IntProduct == \A a, b \in Int : a * b \in Int
OBVIOUS

\* The score of a placement against which nothing speaks is a number.
LEMMA ScoreIsInt ==
  ASSUME NEW i, NEW evaluation, Plannable(i, evaluation), NEW a \in {1, 2}, NEW split \in Splits(i),
         Placed(i, evaluation, i.workers[a], i.workers[3 - a], split).reasons = {}
  PROVE  Placed(i, evaluation, i.workers[a], i.workers[3 - a], split).score \in Int
<1> DEFINE first == i.workers[a]
           final == i.workers[3 - a]
           id == <<first.id, final.id, split>>
           l == find_link(i.links, first.id, final.id)
           one == stage_memory(i.manifest, first, i.workload, i.settings, 0, split, TRUE, FALSE)
           two == stage_memory(i.manifest, final, i.workload, i.settings, split, i.manifest.layers,
                               FALSE, TRUE)
           fits == FitReasons(i, first, final, l, <<one, two>>)
           found == Found(i, evaluation, id, l)
           highest == Max({one.pressure, two.pressure})
           lowest == Min({one.pressure, two.pressure})
           score == candidate_score(highest, lowest, found.performance, i.settings, l)
<1>1. Placed(i, evaluation, first, final, split) = Rated(i, id, <<one, two>>, fits, found, l)
  BY DEF Placed, Candidate
<1>2. WellFormed(i) /\ WellFormedWorker(first) /\ WellFormedWorker(final)
  <2>1. WellFormed(i) /\ Len(i.workers) = 2
    BY DEF Plannable
  <2>2. WellFormedWorker(i.workers[1]) /\ WellFormedWorker(i.workers[2])
    BY <2>1, TwoWorkers
  <2>3. (first = i.workers[1] /\ final = i.workers[2]) \/ (first = i.workers[2] /\ final = i.workers[1])
    OBVIOUS
  <2> QED BY <2>1, <2>2, <2>3
<1>3. split \in Nat /\ 0 <= split /\ i.manifest.layers \in Nat /\ split <= i.manifest.layers
  BY <1>2 DEF WellFormed, WellFormedManifest, Splits
<1>4. one.pressure \in Nat /\ two.pressure \in Nat
  BY <1>2, <1>3, PressureIsNat
<1> HIDE DEF one, two
<1>5. highest \in Int /\ lowest \in Int
  <2>1. one.pressure \in Int /\ two.pressure \in Int
    BY <1>4
  <2>2. highest \in {one.pressure, two.pressure} /\ lowest \in {one.pressure, two.pressure}
    BY <2>1, MaxOfTwo
  <2> QED BY <2>1, <2>2
<1>6. fits \cup found.reasons = {}
  <2> HIDE DEF fits, found
  <2> QED BY <1>1 DEF Rated
<1>7. fits = {} /\ found.reasons = {}
  BY <1>6
<1>8. Placed(i, evaluation, first, final, split).score = score
  <2>1. /\ <<one, two>>[1] = one /\ <<one, two>>[2] = two
    OBVIOUS
  <2> HIDE DEF fits, found, l
  <2>2. Rated(i, id, <<one, two>>, fits, found, l).score = score
    BY <1>7, <2>1 DEF Rated
  <2> QED BY <1>1, <2>2
<1>9. PressureScale * PressureScale \in Int /\ highest * highest \in Int
  <2> HIDE DEF highest
  <2>1. PressureScale \in Int
    <3>1. PressureScale \in Nat
      BY PlannerAssumption, Zenon
    <3> QED BY <3>1
  <2> QED BY <1>5, <2>1, IntProduct
<1> DEFINE square == PressureScale * PressureScale
           height == highest * highest
<1>10. 5 * highest * highest = 5 * height
  BY <1>5
<1>11. CASE i.settings.mode = "feasibility"
  <2>1. score = 100 * highest + (highest - lowest)
    BY <1>11 DEF candidate_score
  <2> HIDE DEF highest, lowest, score
  <2> QED BY <1>5, <1>8, <2>1
<1>12. CASE i.settings.mode = "measured"
  <2>1. found = evaluation[id]
    BY <1>12 DEF Found
  <2>2. found.performance.ttft \in Nat /\ found.performance.decode \in Nat
    BY <1>7, <1>12, <2>1 DEF Plannable
  <2> HIDE DEF found, highest, lowest
  <2>3. score = square * (25 * found.performance.ttft + 70 * found.performance.decode) + 5 * highest * highest
    BY <1>12 DEF candidate_score
  <2> DEFINE sum == 25 * found.performance.ttft + 70 * found.performance.decode
  <2>4. sum \in Int
    BY <2>2
  <2> HIDE DEF sum, square, height, score
  <2>5. square * sum \in Int /\ 5 * height \in Int
    BY <1>9, <2>4, IntProduct DEF square, height
  <2>6. score = square * sum + 5 * height
    BY <1>10, <2>3 DEF sum
  <2>7. score \in Int
    BY <2>5, <2>6
  <2> QED BY <1>8, <2>7
<1>13. CASE i.settings.mode = "estimated"
  <2>1. l # None
    <3>1. l = None => <<"MISSING_LINK_PROFILE">> \in fits
      BY <1>13 DEF FitReasons
    <3> QED BY <1>7, <3>1
  <2>2. WellFormedLink(l)
    BY <1>2, <2>1, LinkFound
  <2>3. found.performance = boundary_estimate(i.manifest, i.workload, l)
    BY <1>13, <2>1 DEF Found
  <2>4. /\ found.performance.prefill \in Int /\ found.performance.decode \in Int
        /\ relay_penalty(l.type) \in Int
    BY <1>2, <2>2, <2>3, EstimateIsNat
  <2> HIDE DEF found, highest, lowest, l
  <2>5. score = square * (25 * found.performance.prefill + 70 * found.performance.decode
                            + 100 * relay_penalty(l.type)) + 5 * highest * highest
    BY <1>13 DEF candidate_score
  <2> DEFINE sum == 25 * found.performance.prefill + 70 * found.performance.decode
                      + 100 * relay_penalty(l.type)
  <2>6. sum \in Int
    BY <2>4
  <2> HIDE DEF sum, square, height, score
  <2>7. square * sum \in Int /\ 5 * height \in Int
    BY <1>9, <2>6, IntProduct DEF square, height
  <2>8. score = square * sum + 5 * height
    BY <1>10, <2>5 DEF sum
  <2>9. score \in Int
    BY <2>7, <2>8
  <2> QED BY <1>8, <2>9
<1>14. i.settings.mode \in {"feasibility", "estimated", "measured"}
  BY <1>2 DEF WellFormed, WellFormedSettings
<1> QED BY <1>11, <1>12, <1>13, <1>14

Free(i, evaluation) == {c \in Placements(i, evaluation) : c.reasons = {}}

\* The fields of a placement.
LEMMA PlacedFields ==
  ASSUME NEW i, NEW evaluation, NEW first, NEW final, NEW split, NEW c,
         c = Placed(i, evaluation, first, final, split)
  PROVE  /\ c.id[1] = first.id /\ c.id[2] = final.id /\ c.id[3] = split /\ c.first = first.id /\ c.final = final.id
         /\ c.split = split
         /\ i.settings.mode = "measured" /\ c.reasons = {} => evaluation[c.id].reasons = {}
         /\ c.id = <<first.id, final.id, split>>
<1> DEFINE id == <<first.id, final.id, split>>
<1>1. PICK stages, fits, l :
        Placed(i, evaluation, first, final, split) = Rated(i, id, stages, fits, Found(i, evaluation, id, l), l)
  BY DEF Placed, Candidate
<1>2. id[1] = first.id /\ id[2] = final.id /\ id[3] = split
  OBVIOUS
<1> HIDE DEF id
<1>3. LET r == Rated(i, id, stages, fits, Found(i, evaluation, id, l), l) IN
      /\ r.id = id /\ r.first = id[1] /\ r.final = id[2] /\ r.split = id[3]
      /\ r.reasons = fits \cup Found(i, evaluation, id, l).reasons
  BY DEF Rated
<1>4. i.settings.mode = "measured" => Found(i, evaluation, id, l) = evaluation[id]
  BY DEF Found
<1> QED BY <1>1, <1>2, <1>3, <1>4 DEF id

\* A placement against which nothing speaks: who, where, and its number.
LEMMA FreePlacement ==
  ASSUME NEW i, NEW evaluation, Plannable(i, evaluation), NEW c \in Free(i, evaluation)
  PROVE  /\ c.score \in Int
         /\ \E a \in {1, 2}, split \in Splits(i) :
              /\ c = Placed(i, evaluation, i.workers[a], i.workers[3 - a], split)
              /\ c.id[1] = i.workers[a].id /\ c.id[2] = i.workers[3 - a].id /\ c.id[3] = split
              /\ i.workers[a].id \in Nat /\ i.workers[3 - a].id \in Nat /\ split \in Nat
<1>1. PICK a \in {1, 2}, split \in Splits(i) : c = Placed(i, evaluation, i.workers[a], i.workers[3 - a], split)
  BY DEF Free, Placements
<1>2. c.reasons = {}
  BY DEF Free
<1>3. c.score \in Int
  BY <1>1, <1>2, ScoreIsInt
<1>4. c.id[1] = i.workers[a].id /\ c.id[2] = i.workers[3 - a].id /\ c.id[3] = split
  <2>1. PICK first, final : first = i.workers[a] /\ final = i.workers[3 - a]
    OBVIOUS
  <2>2. c = Placed(i, evaluation, first, final, split)
    BY <1>1, <2>1
  <2>3. c.id[1] = first.id /\ c.id[2] = final.id /\ c.id[3] = split
    BY <2>2, PlacedFields
  <2> QED BY <2>1, <2>3
<1>5. i.workers[1].id \in Nat /\ i.workers[2].id \in Nat
  BY TwoWorkers DEF Plannable, WellFormedWorker
<1>6. split \in Nat /\ i.workers[a].id \in Nat /\ i.workers[3 - a].id \in Nat
  BY <1>5 DEF Splits
<1> QED BY <1>1, <1>3, <1>4, <1>6

\* Scores order the placements, and identifiers those of equal score: two different
\* placements are never equal in both.
LEMMA PlacementsAreOrdered ==
  ASSUME NEW i, NEW evaluation, Plannable(i, evaluation)
  PROVE  /\ \A c \in Free(i, evaluation) : ~Precedes(c, c)
         /\ \A c, d, e \in Free(i, evaluation) : Precedes(c, d) /\ Precedes(d, e) => Precedes(c, e)
         /\ \A c, d \in Free(i, evaluation) : c = d \/ Precedes(c, d) \/ Precedes(d, c)
<1>1. \A c \in Free(i, evaluation) :
        c.score \in Int /\ c.id[1] \in Nat /\ c.id[2] \in Nat /\ c.id[3] \in Nat
  <2> TAKE c \in Free(i, evaluation)
  <2> QED BY FreePlacement
<1>2. \A c \in Free(i, evaluation) : ~Precedes(c, c)
  BY <1>1 DEF Precedes, IdBefore
<1>3. \A c, d, e \in Free(i, evaluation) : Precedes(c, d) /\ Precedes(d, e) => Precedes(c, e)
  BY <1>1 DEF Precedes, IdBefore
<1>4. ASSUME NEW c \in Free(i, evaluation), NEW d \in Free(i, evaluation), ~Precedes(c, d), ~Precedes(d, c)
      PROVE  c = d
  <2>1. c.id[1] = d.id[1] /\ c.id[2] = d.id[2] /\ c.id[3] = d.id[3]
    BY <1>1, <1>4 DEF Precedes, IdBefore
  <2>2. PICK a \in {1, 2}, m \in Splits(i) :
          /\ c = Placed(i, evaluation, i.workers[a], i.workers[3 - a], m)
          /\ c.id[1] = i.workers[a].id /\ c.id[3] = m
    BY FreePlacement
  <2>3. PICK b \in {1, 2}, n \in Splits(i) :
          /\ d = Placed(i, evaluation, i.workers[b], i.workers[3 - b], n)
          /\ d.id[1] = i.workers[b].id /\ d.id[3] = n
    BY FreePlacement
  <2>4. m = n /\ i.workers[a].id = i.workers[b].id
    BY <2>1, <2>2, <2>3
  <2>5. a = b
    BY <2>4 DEF Plannable
  <2> QED BY <2>2, <2>3, <2>4, <2>5
<1> QED BY <1>2, <1>3, <1>4

Best(i, evaluation) == {c \in Free(i, evaluation) : \A d \in Free(i, evaluation) : ~Precedes(d, c)}

\* There is one best placement at most.
LEMMA OneBest ==
  ASSUME NEW i, NEW evaluation, Plannable(i, evaluation), NEW c \in Best(i, evaluation),
         NEW d \in Best(i, evaluation)
  PROVE  c = d
BY PlacementsAreOrdered DEF Best

\* The planner selects it, and there is one if there is a placement at all.
LEMMA SelectedIsBest ==
  ASSUME NEW i, NEW evaluation, Plannable(i, evaluation)
  PROVE  LET cs == raw_candidates(i, evaluation) IN
         /\ Feasible(cs) = {} <=> Free(i, evaluation) = {}
         /\ Feasible(cs) # {} => Selected(cs) \in Best(i, evaluation)
<1> DEFINE cs == raw_candidates(i, evaluation)
           F == Feasible(cs)
           first == {n \in F : \A m \in F : ~Precedes(cs[m], cs[n])}
           before == {p \in F \X F : Precedes(cs[p[1]], cs[p[2]])}
<1>1. /\ IsFiniteSet(DOMAIN cs) /\ DOMAIN cs \subseteq Nat
      /\ {cs[n] : n \in DOMAIN cs} = Placements(i, evaluation)
  BY ListedPlacements DEF Plannable
<1>2. F = {n \in DOMAIN cs : cs[n].reasons = {}}
  BY DEF Feasible
<1>3. Selected(cs) = cs[Min(first)]
  BY DEF Selected
<1> HIDE DEF cs, F
<1>4. (\A n \in F : cs[n] \in Free(i, evaluation)) /\ \A c \in Free(i, evaluation) : \E n \in F : c = cs[n]
  BY <1>1, <1>2 DEF Free
<1>5. F # {} => first # {}
  <2> SUFFICES ASSUME F # {} PROVE first # {}
    OBVIOUS
  <2>1. IsFiniteSet(F)
    BY <1>1, <1>2, FS_Subset
  <2>2. \A n, m \in F : <<n, m>> \in before <=> Precedes(cs[n], cs[m])
    OBVIOUS
  <2> HIDE DEF before
  <2>3. \A n \in F : <<n, n>> \notin before
    BY <1>4, <2>2, PlacementsAreOrdered
  <2>4. \A n, m, k \in F : <<n, m>> \in before /\ <<m, k>> \in before => <<n, k>> \in before
    BY <1>4, <2>2, PlacementsAreOrdered
  <2>5. \E n \in F : \A m \in F : <<m, n>> \notin before
    BY <2>1, <2>3, <2>4, MinimalElement
  <2> QED BY <2>2, <2>5
<1>6. first \subseteq Nat /\ \A n \in first : cs[n] \in Best(i, evaluation)
  <2>1. first \subseteq Nat
    BY <1>1, <1>2
  <2>2. ASSUME NEW n \in first, NEW d \in Free(i, evaluation)
        PROVE  ~Precedes(d, cs[n])
    BY <1>4
  <2> QED BY <1>4, <2>1, <2>2 DEF Best
<1> HIDE DEF first
<1>7. F # {} => Min(first) \in first
  BY <1>5, <1>6, LeastNumber
<1>8. F = {} <=> Free(i, evaluation) = {}
  BY <1>4
<1> QED BY <1>3, <1>6, <1>7, <1>8 DEF F, cs

-----------------------------------------------------------------------------
(* The signed plan, field by field *)

BaseFields == {"planner_version", "manifest", "workload_id", "mode", "execution", "activation",
               "split", "stages", "duplicated", "candidate"}
DigestFields == {"schema", "workload_digest", "bundle_digest"}
PlanRecord == BaseFields \cup DigestFields \cup {"plan_digest", "weight"}

\* The fields every unsigned plan has.
Unsigned(i, selected) ==
  [planner_version |-> IF i.settings.mode = "measured" THEN "0.2.0" ELSE "0.1.0",
   manifest |-> i.manifest.digest, workload_id |-> i.workload.id,
   mode |-> i.settings.mode, execution |-> i.settings.execution,
   activation |-> i.workload.activation, split |-> selected.split,
   stages |-> assignments_for(selected.first, selected.final, selected.split, i.manifest.layers),
   duplicated |-> IF i.manifest.tied THEN {"token_embeddings"} ELSE {},
   candidate |-> selected.id]

Hashed(i) == i.settings.mode = "measured" \/ i.settings.weight # None

Digests(i, b) ==
  [schema |-> schema(i.settings),
   workload_digest |-> IF i.settings.mode = "measured" THEN i.workload ELSE None,
   bundle_digest   |-> IF i.settings.mode = "measured" THEN b ELSE None]

\* What is hashed, and the plan that carries it.
IsUnsigned(u, i, selected, b) ==
  /\ u = [f \in DOMAIN u |-> u[f]]
  /\ DOMAIN u = BaseFields \cup (IF Hashed(i) THEN DigestFields ELSE {})
                  \cup (IF i.settings.weight # None THEN {"weight"} ELSE {})
  /\ \A f \in BaseFields : u[f] = Unsigned(i, selected)[f]
  /\ Hashed(i) => \A f \in DigestFields : u[f] = Digests(i, b)[f]
  /\ i.settings.weight # None => u["weight"] = i.settings.weight

IsSigned(p, u, i, selected, b) ==
  /\ DOMAIN p = PlanRecord /\ p = [f \in DOMAIN p |-> p[f]]
  /\ p.plan_digest = u /\ \A f \in DOMAIN u : p[f] = u[f]
  /\ \A f \in BaseFields : p[f] = Unsigned(i, selected)[f]
  /\ \A f \in DigestFields : p[f] = Digests(i, b)[f]
  /\ p.weight = i.settings.weight

\* The record without fields.
LEMMA EmptyRecord == DOMAIN << >> = {}
OBVIOUS

\* The fields every plan has.
LEMMA UnsignedDomain ==
  ASSUME NEW i, NEW selected
  PROVE  DOMAIN Unsigned(i, selected) = BaseFields
BY DEF Unsigned, BaseFields

\* The fields that only a measured plan adds.
LEMMA DigestsDomain ==
  ASSUME NEW i, NEW b
  PROVE  DOMAIN Digests(i, b) = DigestFields
BY DEF Digests, DigestFields

\* No field is written twice.
LEMMA FieldsDiffer ==
  /\ BaseFields \cap DigestFields = {} /\ BaseFields \cap {"plan_digest", "weight"} = {}
  /\ DigestFields \cap {"plan_digest", "weight"} = {} /\ "plan_digest" # "weight"
BY DEF BaseFields, DigestFields

\* The fields that are hashed.
LEMMA UnsignedPlan ==
  ASSUME NEW i, NEW selected, NEW b, NEW u, u = unsigned_plan(i, selected, b)
  PROVE  IsUnsigned(u, i, selected, b)
<1> DEFINE base == Unsigned(i, selected)
           digests == IF Hashed(i) THEN Digests(i, b) ELSE << >>
           weight == IF i.settings.weight # None THEN [weight |-> i.settings.weight] ELSE << >>
<1>1. u = Joined(Joined(base, digests), weight)
  BY DEF unsigned_plan, Unsigned, Digests, Hashed
<1>2. /\ DOMAIN base = BaseFields /\ DOMAIN digests = IF Hashed(i) THEN DigestFields ELSE {}
      /\ DOMAIN weight = IF i.settings.weight # None THEN {"weight"} ELSE {}
  <2>1. DOMAIN [weight |-> i.settings.weight] = {"weight"}
    OBVIOUS
  <2> QED BY <2>1, EmptyRecord, UnsignedDomain, DigestsDomain
<1>3. /\ Hashed(i) => digests = Digests(i, b)
      /\ i.settings.weight # None => weight["weight"] = i.settings.weight
  OBVIOUS
<1> HIDE DEF base, digests, weight
<1> DEFINE inner == Joined(base, digests)
<1>4. /\ DOMAIN inner = BaseFields \cup (IF Hashed(i) THEN DigestFields ELSE {})
      /\ \A f \in BaseFields : inner[f] = base[f]
      /\ Hashed(i) => \A f \in DigestFields : inner[f] = Digests(i, b)[f]
  <2>1. DOMAIN inner = DOMAIN base \cup DOMAIN digests
    BY DEF Joined
  <2>2. \A f \in BaseFields : inner[f] = base[f]
    BY <1>2, LeftFields
  <2>3. Hashed(i) => \A f \in DigestFields : f \notin BaseFields
    BY FieldsDiffer
  <2>4. Hashed(i) => \A f \in DigestFields : inner[f] = digests[f]
    BY <1>2, <2>3, RightFields
  <2> QED BY <1>2, <1>3, <2>1, <2>2, <2>4
<1> HIDE DEF inner
<1>5. u = Joined(inner, weight)
  BY <1>1 DEF inner
<1>6. DOMAIN u = DOMAIN inner \cup DOMAIN weight /\ u = [f \in DOMAIN u |-> u[f]]
  BY <1>5 DEF Joined
<1>7. \A f \in DOMAIN inner : u[f] = inner[f]
  BY <1>5, LeftFields
<1>8. i.settings.weight # None => u["weight"] = i.settings.weight
  <2>1. "weight" \notin DOMAIN inner
    BY <1>4, FieldsDiffer
  <2> QED BY <1>2, <1>3, <1>5, <2>1, RightFields
<1> QED BY <1>2, <1>4, <1>6, <1>7, <1>8 DEF base, IsUnsigned

\* The plan that carries them.
LEMMA SignedPlan ==
  ASSUME NEW i, NEW selected, NEW b, NEW u, u = unsigned_plan(i, selected, b), NEW p, p = DeploymentPlan(u)
  PROVE  IsSigned(p, u, i, selected, b)
<1> DEFINE signature == [plan_digest |-> u]
           rest == [schema |-> "1.0", weight |-> None, workload_digest |-> None, bundle_digest |-> None]
           inner == Joined(signature, u)
<1>1. p = Joined(inner, rest)
  BY DEF DeploymentPlan
<1>2. /\ DOMAIN signature = {"plan_digest"} /\ signature["plan_digest"] = u
      /\ DOMAIN rest = DigestFields \cup {"weight"}
      /\ rest["schema"] = "1.0" /\ rest["weight"] = None /\ rest["workload_digest"] = None
      /\ rest["bundle_digest"] = None
  BY DEF DigestFields
<1> HIDE DEF signature, rest
<1>3. /\ DOMAIN u = BaseFields \cup (IF Hashed(i) THEN DigestFields ELSE {})
                         \cup (IF i.settings.weight # None THEN {"weight"} ELSE {})
      /\ \A f \in BaseFields : u[f] = Unsigned(i, selected)[f]
      /\ Hashed(i) => \A f \in DigestFields : u[f] = Digests(i, b)[f]
      /\ i.settings.weight # None => u["weight"] = i.settings.weight
  <2>1. IsUnsigned(u, i, selected, b)
    BY UnsignedPlan
  <2> QED BY <2>1 DEF IsUnsigned
<1>4. "plan_digest" \notin DOMAIN u
  BY <1>3, FieldsDiffer
<1>5. DOMAIN inner = {"plan_digest"} \cup DOMAIN u
  BY <1>2 DEF Joined
<1>6. inner["plan_digest"] = u /\ \A f \in DOMAIN u : inner[f] = u[f]
  BY <1>2, <1>4, LeftFields, RightFields
<1> HIDE DEF inner
<1>7. DOMAIN p = DOMAIN inner \cup DOMAIN rest /\ p = [f \in DOMAIN p |-> p[f]]
  BY <1>1 DEF Joined
<1>8. DOMAIN p = PlanRecord
  <2>1. DOMAIN p = {"plan_digest"} \cup BaseFields \cup DigestFields \cup {"weight"}
    BY <1>2, <1>3, <1>5, <1>7
  <2> QED BY <2>1 DEF PlanRecord
<1>9. p["plan_digest"] = u /\ \A f \in DOMAIN u : p[f] = u[f]
  BY <1>1, <1>5, <1>6, LeftFields
<1>10. \A f \in BaseFields : p[f] = Unsigned(i, selected)[f]
  BY <1>3, <1>9
<1>11. \A f \in DigestFields : p[f] = Digests(i, b)[f]
  <2>1. CASE Hashed(i)
    BY <1>3, <1>9, <2>1
  <2>2. CASE ~Hashed(i)
    <3>1. \A f \in DigestFields : f \notin DOMAIN inner
      BY <1>3, <1>5, <2>2, FieldsDiffer
    <3>2. \A f \in DigestFields : p[f] = rest[f]
      BY <1>1, <1>2, <3>1, RightFields
    <3>3. i.settings.mode # "measured" /\ i.settings.weight = None
      BY <2>2 DEF Hashed
    <3>4. \A f \in DigestFields : rest[f] = Digests(i, b)[f]
      BY <1>2, <3>3 DEF DigestFields, Digests, schema
    <3> QED BY <3>2, <3>4
  <2> QED BY <2>1, <2>2
<1>12. p["weight"] = i.settings.weight
  <2>1. CASE i.settings.weight # None
    BY <1>3, <1>9, <2>1
  <2>2. CASE i.settings.weight = None
    <3>1. "weight" \notin DOMAIN inner
      BY <1>3, <1>5, <2>2, FieldsDiffer
    <3> QED BY <1>1, <1>2, <2>2, <3>1, RightFields
  <2> QED BY <2>1, <2>2
<1> QED BY <1>7, <1>8, <1>9, <1>10, <1>11, <1>12 DEF IsSigned

\* A plan that carries a digest carries what model_dump gives.
LEMMA DumpIsHashed ==
  ASSUME NEW i, NEW selected, NEW b, NEW u, u = unsigned_plan(i, selected, b), NEW p, p = DeploymentPlan(u),
         Hashed(i)
  PROVE  model_dump(p) = u
<1>1. /\ DOMAIN p = PlanRecord /\ \A f \in DOMAIN u : p[f] = u[f]
      /\ p.weight = i.settings.weight
  <2>1. IsSigned(p, u, i, selected, b)
    BY SignedPlan
  <2> QED BY <2>1 DEF IsSigned
<1>2. /\ u = [f \in DOMAIN u |-> u[f]]
      /\ DOMAIN u = BaseFields \cup DigestFields \cup (IF i.settings.weight # None THEN {"weight"} ELSE {})
  <2>1. IsUnsigned(u, i, selected, b)
    BY UnsignedPlan
  <2> QED BY <2>1 DEF IsUnsigned
<1> DEFINE dropped == {"plan_digest"} \cup (IF p.weight = None THEN {"weight"} ELSE {})
<1>3. model_dump(p) = [f \in DOMAIN p \ dropped |-> p[f]]
  BY DEF model_dump
<1>4. DOMAIN p \ dropped = DOMAIN u
  BY <1>1, <1>2, FieldsDiffer DEF PlanRecord
<1> HIDE DEF dropped
<1> QED BY <1>1, <1>2, <1>3, <1>4

-----------------------------------------------------------------------------
(* What the workers look at *)

\* A plan of two stages as the planner and the sweep sign them.
IsPlacementPlan(p, i, first, final, split) ==
  /\ DOMAIN p = PlanRecord /\ p = [f \in DOMAIN p |-> p[f]]
  /\ p.stages = assignments_for(first, final, split, i.manifest.layers) /\ p.split = split
  /\ split \in Splits(i) /\ first # final
  /\ p.manifest = i.manifest.digest /\ p.execution = i.settings.execution
  /\ p.weight = i.settings.weight
  /\ p.schema = IF p.weight # None THEN "1.2" ELSE IF p.mode = "measured" THEN "1.1" ELSE "1.0"
  /\ IF p.mode = "measured" THEN p.workload_digest # None /\ p.bundle_digest # None
                            ELSE p.workload_digest = None /\ p.bundle_digest = None
  /\ p.duplicated = IF i.manifest.tied THEN {"token_embeddings"} ELSE {}
  /\ p.mode = "measured" \/ p.weight # None => p.plan_digest = model_dump(p)

\* The two stages, in full.
LEMMA StagesInFull ==
  ASSUME NEW first, NEW final, NEW split, NEW layers, NEW s,
         s = assignments_for(first, final, split, layers)
  PROVE  /\ s[1] = [index |-> 0, worker |-> first, start |-> 0, end |-> split,
                    embedding |-> TRUE, norm |-> FALSE, head |-> FALSE, sampling |-> FALSE]
         /\ s[2] = [index |-> 1, worker |-> final, start |-> split, end |-> layers,
                    embedding |-> FALSE, norm |-> TRUE, head |-> TRUE, sampling |-> TRUE]
         /\ Len(s) = 2
BY DEF assignments_for

\* Only the first stage embeds, only the last one has the head.
Flags(s, k) ==
  /\ s[k].embedding = (k = 1)
  /\ s[k].norm = (k = 2) /\ s[k].head = (k = 2) /\ s[k].sampling = (k = 2)

\* The flags of the two stages.
LEMMA StageFlags ==
  ASSUME NEW first, NEW final, NEW split, NEW layers, NEW s,
         s = assignments_for(first, final, split, layers)
  PROVE  Flags(s, 1) /\ Flags(s, 2)
<1>1. s[1].embedding = TRUE /\ s[1].norm = FALSE /\ s[1].head = FALSE /\ s[1].sampling = FALSE
  BY DEF assignments_for
<1>2. s[2].embedding = FALSE /\ s[2].norm = TRUE /\ s[2].head = TRUE /\ s[2].sampling = TRUE
  BY DEF assignments_for
<1>3. (1 = 1) = TRUE /\ (1 = 2) = FALSE /\ (2 = 1) = FALSE /\ (2 = 2) = TRUE
  OBVIOUS
<1>4. /\ s[1].embedding = (1 = 1) /\ s[1].norm = (1 = 2)
      /\ s[1].head = (1 = 2) /\ s[1].sampling = (1 = 2)
  BY <1>1, <1>3, Zenon
<1>5. /\ s[2].embedding = (2 = 1) /\ s[2].norm = (2 = 2)
      /\ s[2].head = (2 = 2) /\ s[2].sampling = (2 = 2)
  BY <1>2, <1>3, Zenon
<1> QED BY <1>4, <1>5, Zenon DEF Flags

\* The stages of such a plan partition the layers.
LEMMA PlanIsPartition ==
  ASSUME NEW p, NEW i, NEW first, NEW final, NEW split, WellFormed(i),
         IsPlacementPlan(p, i, first, final, split)
  PROVE  validate_partition(p)
<1>1. /\ p.weight # None => p.weight = "F16" /\ p.execution = "F32"
      /\ i.manifest.layers \in Nat /\ split \in Nat /\ 0 < split /\ split < i.manifest.layers
  BY DEF IsPlacementPlan, WellFormed, WellFormedSettings, WellFormedManifest, Splits
<1>2. /\ (p.weight # None) = (p.schema = "1.2")
      /\ p.mode = "measured" => p.schema = IF p.weight # None THEN "1.2" ELSE "1.1"
      /\ IF p.mode = "measured" THEN p.workload_digest # None /\ p.bundle_digest # None
                                ELSE p.workload_digest = None /\ p.bundle_digest = None
      /\ p.split = split /\ first # final
  BY DEF IsPlacementPlan
<1> DEFINE s == p.stages
<1>3. /\ s[1] = [index |-> 0, worker |-> first, start |-> 0, end |-> split,
                 embedding |-> TRUE, norm |-> FALSE, head |-> FALSE, sampling |-> FALSE]
      /\ s[2] = [index |-> 1, worker |-> final, start |-> split, end |-> i.manifest.layers,
                 embedding |-> FALSE, norm |-> TRUE, head |-> TRUE, sampling |-> TRUE]
      /\ Len(s) = 2
  BY StagesInFull DEF IsPlacementPlan
<1> HIDE DEF s
<1> DEFINE end(k) == IF k = 1 THEN 0 ELSE s[k - 1].end
           right(k) == /\ s[k].index = k - 1 /\ s[k].start = end(k) /\ s[k].end > end(k)
                       /\ \A j \in 1..(k - 1) : s[j].worker # s[k].worker
                       /\ Flags(s, k)
<1>0. Flags(s, 1) /\ Flags(s, 2)
  BY StageFlags DEF s, IsPlacementPlan
<1>4. right(1)
  BY <1>0, <1>1, <1>3
<1>5. right(2)
  BY <1>0, <1>1, <1>2, <1>3
<1>6. \A k \in 1..2 : right(k)
  <2> HIDE DEF right
  <2>1. 1..2 = {1, 2}
    OBVIOUS
  <2> QED BY <1>4, <1>5, <2>1
<1>7. p.split = s[1].end /\ 2 \in {1, 2}
  BY <1>2, <1>3
<1> QED BY <1>1, <1>2, <1>3, <1>6, <1>7 DEF validate_partition, s, Flags

\* A version or a digest survives the wire, absent or not.
LEMMA VersionSurvives ==
  ASSUME NEW v \in {"1.0", "1.1", "1.2"}
  PROVE  /\ version_from_proto(version_to_proto(v)) = v
         /\ version_to_proto(v).major = 1
         /\ version_to_proto(v).minor = IF v = "1.0" THEN 0 ELSE IF v = "1.1" THEN 1 ELSE 2
BY DEF version_from_proto, version_to_proto

\* A digest survives the wire, an absent one too.
LEMMA DigestSurvives ==
  ASSUME NEW d
  PROVE  FromHex(Hex(d)) = d /\ (Hex(d) = << >> <=> d = None)
BY DEF FromHex, Hex

\* The plan on the wire.
LEMMA PlanOnTheWire ==
  ASSUME NEW p, DOMAIN p = PlanRecord, p = [f \in DOMAIN p |-> p[f]], NEW q, q = deployment_plan_to_proto(p)
  PROVE  /\ DOMAIN q = PlanRecord /\ q = [f \in DOMAIN q |-> q[f]]
         /\ q.schema = version_to_proto(p.schema)
         /\ q.workload_digest = Hex(p.workload_digest) /\ q.bundle_digest = Hex(p.bundle_digest)
         /\ \A f \in PlanRecord \ DigestFields : q[f] = p[f]
BY DEF deployment_plan_to_proto, PlanRecord, DigestFields

\* The same on the way back.
LEMMA PlanOffTheWire ==
  ASSUME NEW q, DOMAIN q = PlanRecord, q = [f \in DOMAIN q |-> q[f]], NEW p, p = deployment_plan_from_proto(q)
  PROVE  /\ DOMAIN p = PlanRecord /\ p = [f \in DOMAIN p |-> p[f]]
         /\ p.schema = version_from_proto(q.schema)
         /\ p.workload_digest = FromHex(q.workload_digest) /\ p.bundle_digest = FromHex(q.bundle_digest)
         /\ \A f \in PlanRecord \ DigestFields : p[f] = q[f]
BY DEF deployment_plan_from_proto, PlanRecord, DigestFields

\* It survives the wire.
LEMMA PlanSurvives ==
  ASSUME NEW p, DOMAIN p = PlanRecord, p = [f \in DOMAIN p |-> p[f]], p.schema \in {"1.0", "1.1", "1.2"}
  PROVE  deployment_plan_from_proto(deployment_plan_to_proto(p)) = p
<1> DEFINE q == deployment_plan_to_proto(p)
           r == deployment_plan_from_proto(q)
<1>1. /\ DOMAIN q = PlanRecord /\ q = [f \in DOMAIN q |-> q[f]]
      /\ q.schema = version_to_proto(p.schema)
      /\ q.workload_digest = Hex(p.workload_digest) /\ q.bundle_digest = Hex(p.bundle_digest)
      /\ \A f \in PlanRecord \ DigestFields : q[f] = p[f]
  BY PlanOnTheWire
<1> HIDE DEF q
<1>2. /\ DOMAIN r = PlanRecord /\ r = [f \in DOMAIN r |-> r[f]]
      /\ r.schema = version_from_proto(q.schema)
      /\ r.workload_digest = FromHex(q.workload_digest) /\ r.bundle_digest = FromHex(q.bundle_digest)
      /\ \A f \in PlanRecord \ DigestFields : r[f] = q[f]
  BY <1>1, PlanOffTheWire
<1> HIDE DEF r
<1>3. r.schema = p.schema /\ r.workload_digest = p.workload_digest /\ r.bundle_digest = p.bundle_digest
  BY <1>1, <1>2, VersionSurvives, DigestSurvives
<1>4. \A f \in DigestFields : r[f] = p[f]
  BY <1>3 DEF DigestFields
<1>5. \A f \in PlanRecord : r[f] = p[f]
  BY <1>1, <1>2, <1>4
<1> QED BY <1>2, <1>5 DEF q, r

\* The manifest survives it as well; the worker sees the same digest, layers and ties.
LEMMA ManifestSurvives ==
  ASSUME NEW m, WellFormedManifest(m)
  PROVE  /\ model_manifest_from_proto(model_manifest_to_proto(m)) = m
         /\ model_manifest_to_proto(m).digest = m.digest
         /\ model_manifest_to_proto(m).layers = m.layers
         /\ model_manifest_to_proto(m).tied = m.tied
<1> DEFINE fields == {"digest", "layers", "hidden", "kvWidth", "tied", "revision", "tensors"}
           out(t) == [t EXCEPT !.group = Text(@)]
           back(t) == [t EXCEPT !.group = OrNone(@)]
           sent == [i \in DOMAIN m.tensors |-> out(m.tensors[i])]
           q == model_manifest_to_proto(m)
           r == model_manifest_from_proto(q)
<1>1. /\ m = [f \in fields |-> m[f]] /\ m.revision # Empty
      /\ m.tensors = [i \in DOMAIN m.tensors |-> m.tensors[i]]
      /\ \A i \in DOMAIN m.tensors :
           /\ m.tensors[i] = [f \in {"role", "layer", "elements", "group"} |-> m.tensors[i][f]]
           /\ m.tensors[i].group # Empty
  BY DEF WellFormedManifest, IsRecord, IsSequence
<1>2. \A x : x # Empty => OrNone(Text(x)) = x
  BY DEF OrNone, Text
<1>3. \A i \in DOMAIN m.tensors : back(out(m.tensors[i])) = m.tensors[i]
  <2> TAKE i \in DOMAIN m.tensors
  <2>1. PICK t : t = m.tensors[i]
    OBVIOUS
  <2>2. t = [f \in {"role", "layer", "elements", "group"} |-> t[f]] /\ t.group # Empty
    BY <1>1, <2>1
  <2>3. OrNone(Text(t.group)) = t.group
    BY <1>2, <2>2
  <2>4. /\ out(t).group = Text(t.group) /\ out(t) = [f \in {"role", "layer", "elements", "group"} |-> out(t)[f]]
        /\ \A f \in {"role", "layer", "elements"} : out(t)[f] = t[f]
    BY <2>2
  <2>5. /\ back(out(t)).group = t.group /\ back(out(t)) = [f \in {"role", "layer", "elements", "group"} |-> back(out(t))[f]]
        /\ \A f \in {"role", "layer", "elements"} : back(out(t))[f] = t[f]
    <3> HIDE DEF out
    <3> QED BY <2>3, <2>4
  <2> HIDE DEF back, out
  <2>6. \A f \in {"role", "layer", "elements", "group"} : back(out(t))[f] = t[f]
    BY <2>5
  <2>7. back(out(t)) = t
    BY <2>2, <2>5, <2>6
  <2> QED BY <2>1, <2>7
<1>4. q = [m EXCEPT !.revision = Text(@), !.tensors = sent]
  BY DEF model_manifest_to_proto
<1> HIDE DEF sent
<1>5. /\ q = [f \in fields |-> q[f]] /\ q.revision = Text(m.revision) /\ q.tensors = sent
      /\ \A f \in fields \ {"revision", "tensors"} : q[f] = m[f]
  BY <1>1, <1>4
<1> HIDE DEF q
<1>6. r = [q EXCEPT !.revision = OrNone(@), !.tensors = [i \in DOMAIN q.tensors |-> back(q.tensors[i])]]
  BY DEF model_manifest_from_proto
<1>7. [i \in DOMAIN q.tensors |-> back(q.tensors[i])] = m.tensors
  <2>1. DOMAIN sent = DOMAIN m.tensors /\ \A i \in DOMAIN sent : sent[i] = out(m.tensors[i])
    BY DEF sent
  <2> HIDE DEF back, out
  <2>2. \A i \in DOMAIN sent : back(sent[i]) = m.tensors[i]
    BY <1>3, <2>1
  <2> QED BY <1>1, <1>5, <2>1, <2>2
<1> DEFINE tensors == [i \in DOMAIN q.tensors |-> back(q.tensors[i])]
<1> HIDE DEF tensors, r
<1>8. r = [q EXCEPT !.revision = OrNone(@), !.tensors = tensors]
  BY <1>6 DEF tensors
<1>9. /\ r = [f \in fields |-> r[f]] /\ r.revision = m.revision /\ r.tensors = m.tensors
      /\ \A f \in fields \ {"revision", "tensors"} : r[f] = m[f]
  BY <1>1, <1>2, <1>5, <1>7, <1>8 DEF tensors
<1>10. r = m
  BY <1>1, <1>9
<1> QED BY <1>5, <1>10 DEF q, r

\* A worker that the planner was satisfied with.
Suits(w, i) ==
  w.architecture /\ (i.settings.weight # None => w.mixed) /\ i.settings.execution \in w.dtypes

\* What the worker hashes, from the plan on the wire.
HashedThere(q) ==
  LET mixed == q.weight # None
      measured == q.mode = "measured"
  IN  Joined(
        [schema |-> IF mixed THEN "1.2" ELSE "1.1",
         planner_version |-> q.planner_version, manifest |-> q.manifest,
         workload_id |-> q.workload_id, mode |-> q.mode, execution |-> q.execution,
         activation |-> q.activation, split |-> q.split, stages |-> q.stages,
         duplicated |-> q.duplicated, candidate |-> q.candidate,
         workload_digest |-> IF measured THEN FromHex(q.workload_digest) ELSE None,
         bundle_digest |-> IF measured THEN FromHex(q.bundle_digest) ELSE None],
        IF mixed THEN [weight |-> "F16"] ELSE << >>)

\* The worker hashes the fields that were hashed for the signature.
LEMMA SameFieldsHashed ==
  ASSUME NEW p, NEW i, NEW first, NEW final, NEW split, WellFormed(i),
         IsPlacementPlan(p, i, first, final, split), NEW q, q = deployment_plan_to_proto(p),
         p.mode = "measured" \/ p.weight # None
  PROVE  HashedThere(q) = q.plan_digest
<1>1. /\ DOMAIN p = PlanRecord /\ p = [f \in DOMAIN p |-> p[f]] /\ p.plan_digest = model_dump(p)
      /\ p.schema = IF p.weight # None THEN "1.2" ELSE IF p.mode = "measured" THEN "1.1" ELSE "1.0"
      /\ p.mode # "measured" => p.workload_digest = None /\ p.bundle_digest = None
      /\ p.weight # None => p.weight = "F16"
  BY DEF IsPlacementPlan, WellFormed, WellFormedSettings
<1>2. /\ q.workload_digest = Hex(p.workload_digest) /\ q.bundle_digest = Hex(p.bundle_digest)
      /\ \A f \in PlanRecord \ DigestFields : q[f] = p[f]
  BY <1>1, PlanOnTheWire
<1>3. \A f \in BaseFields \cup {"weight", "plan_digest"} : q[f] = p[f]
  BY <1>2, FieldsDiffer DEF PlanRecord
<1>4. q.weight = p.weight /\ q.plan_digest = p.plan_digest /\ q.mode = p.mode
  BY <1>3 DEF BaseFields
<1> DEFINE fields == [schema |-> IF q.weight # None THEN "1.2" ELSE "1.1",
                      planner_version |-> q.planner_version, manifest |-> q.manifest,
                      workload_id |-> q.workload_id, mode |-> q.mode, execution |-> q.execution,
                      activation |-> q.activation, split |-> q.split, stages |-> q.stages,
                      duplicated |-> q.duplicated, candidate |-> q.candidate,
                      workload_digest |-> IF q.mode = "measured" THEN FromHex(q.workload_digest) ELSE None,
                      bundle_digest |-> IF q.mode = "measured" THEN FromHex(q.bundle_digest) ELSE None]
           weight == IF q.weight # None THEN [weight |-> "F16"] ELSE << >>
           there == Joined(fields, weight)
<1>5. HashedThere(q) = there
  BY DEF HashedThere
<1>6. DOMAIN fields = BaseFields \cup DigestFields
  BY DEF BaseFields, DigestFields
<1>7. \A f \in BaseFields : fields[f] = p[f]
  <2>1. \A f \in BaseFields : fields[f] = q[f]
    BY DEF BaseFields
  <2> QED BY <1>3, <2>1
<1>8. \A f \in DigestFields : fields[f] = p[f]
  <2>1. fields.schema = p.schema
    BY <1>1, <1>4
  <2>2. /\ fields.workload_digest = IF p.mode = "measured" THEN FromHex(Hex(p.workload_digest)) ELSE None
        /\ fields.bundle_digest = IF p.mode = "measured" THEN FromHex(Hex(p.bundle_digest)) ELSE None
    BY <1>2, <1>4
  <2>3. fields.workload_digest = p.workload_digest /\ fields.bundle_digest = p.bundle_digest
    BY <1>1, <2>2, DigestSurvives
  <2> HIDE DEF fields
  <2> QED BY <2>1, <2>3 DEF DigestFields
<1> HIDE DEF fields
<1>9. /\ DOMAIN weight = IF p.weight = None THEN {} ELSE {"weight"}
      /\ p.weight # None => weight["weight"] = p.weight
  <2>1. DOMAIN [weight |-> "F16"] = {"weight"} /\ [weight |-> "F16"].weight = "F16"
    OBVIOUS
  <2> QED BY <1>1, <1>4, <2>1, EmptyRecord
<1> HIDE DEF weight
<1>10. there = [f \in DOMAIN fields \cup DOMAIN weight |-> IF f \in DOMAIN fields THEN fields[f] ELSE weight[f]]
  BY DEF Joined
<1> DEFINE dropped == {"plan_digest"} \cup (IF p.weight = None THEN {"weight"} ELSE {})
<1>11. model_dump(p) = [f \in DOMAIN p \ dropped |-> p[f]]
  BY DEF model_dump
<1>12. DOMAIN fields \cup DOMAIN weight = DOMAIN p \ dropped
  BY <1>1, <1>6, <1>9, FieldsDiffer DEF PlanRecord
<1>13. \A f \in DOMAIN p \ dropped : (IF f \in DOMAIN fields THEN fields[f] ELSE weight[f]) = p[f]
  BY <1>6, <1>7, <1>8, <1>9, <1>12
<1> HIDE DEF there, dropped
<1>14. there = model_dump(p)
  BY <1>10, <1>11, <1>12, <1>13
<1> QED BY <1>1, <1>4, <1>5, <1>14

\* Each worker of a plan accepts it, if activations are F16.
LEMMA WorkerAccepts ==
  ASSUME NEW p, NEW i, NEW first, NEW final, NEW split, WellFormed(i),
         IsPlacementPlan(p, i, first, final, split), p.activation = "F16",
         NEW w, Suits(w, i), NEW k \in {1, 2}, p.stages[k].worker = w.id,
         NEW address, address[first] # address[final]
  PROVE  validate_plan(deployment_plan_to_proto(p), model_manifest_to_proto(i.manifest),
                       stage_endpoints(p, address), w, k)
<1> DEFINE q == deployment_plan_to_proto(p)
           m == model_manifest_to_proto(i.manifest)
           s == p.stages
           layers == i.manifest.layers
<1>1. /\ DOMAIN p = PlanRecord /\ p = [f \in DOMAIN p |-> p[f]]
      /\ p.schema = IF p.weight # None THEN "1.2" ELSE IF p.mode = "measured" THEN "1.1" ELSE "1.0"
      /\ IF p.mode = "measured" THEN p.workload_digest # None /\ p.bundle_digest # None
                                ELSE p.workload_digest = None /\ p.bundle_digest = None
      /\ p.weight = i.settings.weight /\ p.execution = i.settings.execution
      /\ p.manifest = i.manifest.digest /\ p.split = split /\ first # final
      /\ p.duplicated = IF i.manifest.tied THEN {"token_embeddings"} ELSE {}
  BY DEF IsPlacementPlan
<1>2. /\ p.weight # None => p.weight = "F16" /\ p.execution = "F32"
      /\ layers \in Nat /\ split \in Nat /\ 0 < split /\ split < layers
  BY <1>1 DEF IsPlacementPlan, WellFormed, WellFormedSettings, WellFormedManifest, Splits
<1>3. m.digest = i.manifest.digest /\ m.layers = layers /\ m.tied = i.manifest.tied
  BY ManifestSurvives DEF WellFormed
<1> HIDE DEF m
<1>4. /\ q.schema = version_to_proto(p.schema)
      /\ q.workload_digest = Hex(p.workload_digest) /\ q.bundle_digest = Hex(p.bundle_digest)
      /\ \A f \in PlanRecord \ DigestFields : q[f] = p[f]
  BY <1>1, PlanOnTheWire
<1>5. /\ q.weight = p.weight /\ q.mode = p.mode /\ q.manifest = p.manifest /\ q.execution = p.execution
      /\ q.activation = p.activation /\ q.stages = s /\ q.split = p.split /\ q.duplicated = p.duplicated
  <2>1. \A f \in BaseFields \cup {"weight"} : q[f] = p[f]
    BY <1>4, FieldsDiffer DEF PlanRecord
  <2> QED BY <2>1 DEF BaseFields
<1>6. /\ q.schema.major = 1
      /\ q.schema.minor = IF p.weight # None THEN 2 ELSE IF p.mode = "measured" THEN 1 ELSE 0
  <2>1. p.schema \in {"1.0", "1.1", "1.2"}
    BY <1>1
  <2> QED BY <1>1, <1>4, <2>1, VersionSurvives
<1>7. /\ q.workload_digest = << >> <=> p.mode # "measured"
      /\ q.bundle_digest = << >> <=> p.mode # "measured"
  BY <1>1, <1>4, DigestSurvives
<1>8. p.mode = "measured" \/ p.weight # None => HashedThere(q) = q.plan_digest
  BY SameFieldsHashed
<1>9. /\ s[1] = [index |-> 0, worker |-> first, start |-> 0, end |-> split,
                 embedding |-> TRUE, norm |-> FALSE, head |-> FALSE, sampling |-> FALSE]
      /\ s[2] = [index |-> 1, worker |-> final, start |-> split, end |-> layers,
                 embedding |-> FALSE, norm |-> TRUE, head |-> TRUE, sampling |-> TRUE]
      /\ Len(s) = 2
  BY StagesInFull DEF IsPlacementPlan
<1>10. Flags(s, 1) /\ Flags(s, 2)
  BY StageFlags DEF IsPlacementPlan
<1> HIDE DEF s
<1> DEFINE es == stage_endpoints(p, address)
<1>26. es = [j \in 1..2 |-> [index |-> s[j].index, worker |-> s[j].worker, endpoint |-> address[s[j].worker]]]
  BY <1>9 DEF stage_endpoints, s
<1>27. /\ Len(es) = 2
       /\ es[1].index = 0 /\ es[1].worker = first /\ es[1].endpoint = address[first]
       /\ es[2].index = 1 /\ es[2].worker = final /\ es[2].endpoint = address[final]
  <2> HIDE DEF es
  <2>1. s[1].index = 0 /\ s[1].worker = first /\ s[2].index = 1 /\ s[2].worker = final
    BY <1>9
  <2> QED BY <1>26, <2>1
<1> HIDE DEF q, es
<1> DEFINE end(j) == IF j = 1 THEN 0 ELSE s[j - 1].end
           right(j) == /\ s[j].index = j - 1 /\ s[j].start = end(j) /\ s[j].end > end(j) /\ s[j].end <= layers
                       /\ \A n \in 1..(j - 1) : s[n].worker # s[j].worker
                       /\ Flags(s, j)
<1>11. right(1)
  BY <1>2, <1>9, <1>10
<1>12. right(2)
  BY <1>1, <1>2, <1>9, <1>10
<1>13. 1..2 = {1, 2}
  OBVIOUS
<1>14. \A j \in 1..2 : right(j)
  <2> HIDE DEF right
  <2> QED BY <1>11, <1>12, <1>13
<1>15. s[2].end = layers /\ p.split = s[1].end /\ s[k].worker = w.id
  BY <1>1, <1>9 DEF s
<1>16. w.architecture /\ (p.weight # None => w.mixed) /\ p.execution \in w.dtypes
  BY <1>1 DEF Suits
<1>17. m.tied => "token_embeddings" \in q.duplicated
  BY <1>1, <1>3, <1>5
<1> DEFINE mixed == q.weight # None
           measured == q.mode = "measured"
<1>18. /\ q.schema.major = 1 /\ q.schema.minor <= 2 /\ q.manifest = m.digest
       /\ mixed = (q.schema.minor = 2)
       /\ mixed => w.mixed /\ q.weight = "F16" /\ q.execution = "F32"
       /\ measured => /\ q.schema.minor = IF mixed THEN 2 ELSE 1
                      /\ << >> \notin {q.workload_digest, q.bundle_digest}
       /\ ~measured /\ ~mixed => q.schema.minor = 0
       /\ ~measured => q.workload_digest = << >> /\ q.bundle_digest = << >>
  <2>1. mixed = (q.schema.minor = 2)
    BY <1>5, <1>6
  <2>2. measured => q.workload_digest # << >> /\ q.bundle_digest # << >>
    BY <1>5, <1>7
  <2> QED BY <1>1, <1>2, <1>3, <1>5, <1>6, <1>7, <1>16, <2>1, <2>2
<1>19. measured \/ mixed => HashedThere(q) = q.plan_digest
  BY <1>5, <1>8
<1>20. w.architecture /\ q.execution \in w.dtypes /\ q.activation = "F16"
  BY <1>5, <1>16
<1>21. Len(q.stages) = 2 /\ q.stages = s /\ q.split = s[1].end
  BY <1>5, <1>9, <1>15
<1> DEFINE t == q.stages
           n == Len(q.stages)
<1>22. /\ n \in {1, 2} /\ k \in 1..n
       /\ t[n].end = m.layers /\ t[k].worker = w.id /\ q.split = t[1].end
       /\ m.tied /\ n = 2 => "token_embeddings" \in q.duplicated
  BY <1>3, <1>13, <1>15, <1>17, <1>21
<1>23. \A j \in 1..n :
         /\ t[j].index = j - 1 /\ t[j].start = IF j = 1 THEN 0 ELSE t[j - 1].end
         /\ t[j].end > (IF j = 1 THEN 0 ELSE t[j - 1].end) /\ t[j].end <= m.layers
         /\ \A h \in 1..(j - 1) : t[h].worker # t[j].worker
  BY <1>3, <1>14, <1>21
<1>24. \A j \in 1..n : /\ t[j].embedding = (j = 1) /\ t[j].head = (j = n) /\ t[j].norm = (j = n)
                        /\ t[j].sampling = (j = n)
  <2>1. \A j \in 1..2 : Flags(s, j)
    BY <1>10, <1>13
  <2> QED BY <1>21, <2>1 DEF Flags
<1>28. \A j \in 1..n :
         /\ es[j].index < n /\ es[j].worker = t[es[j].index + 1].worker
         /\ \A h \in 1..(j - 1) : es[h].index # es[j].index /\ es[h].endpoint # es[j].endpoint
  <2>1. t[1].worker = first /\ t[2].worker = final
    BY <1>9, <1>21
  <2>2. /\ es[1].index < 2 /\ es[1].worker = t[es[1].index + 1].worker
        /\ es[2].index < 2 /\ es[2].worker = t[es[2].index + 1].worker
    BY <1>27, <2>1
  <2>3. es[1].index # es[2].index /\ es[1].endpoint # es[2].endpoint
    BY <1>27
  <2>4. n = 2 /\ 1..(1 - 1) = {} /\ 1..(2 - 1) = {1}
    BY <1>21
  <2> QED BY <1>13, <2>2, <2>3, <2>4
<1> HIDE DEF t, n
<1>25. validate_plan(q, m, es, w, k)
  <2> USE DEF t, n
  <2>1. Len(es) = n
    BY <1>21, <1>27
  <2> QED BY <1>18, <1>19, <1>20, <1>22, <1>23, <1>24, <1>28, <2>1, Zenon DEF validate_plan, HashedThere
<1> QED BY <1>25 DEF q, m, es

\* Two workers listen at two addresses.
LEMMA EndpointsDiffer ==
  ASSUME WellFormed(in), Len(in.workers) = 2, Worker(1).id # Worker(2).id,
         NEW a, NEW b, a \in {Worker(1).id, Worker(2).id}, b \in {Worker(1).id, Worker(2).id}, a # b
  PROVE  Endpoints[a] # Endpoints[b]
<1> DEFINE at(id) == CHOOSE k \in {1, 2} : Worker(k).id = id
<1>1. \A id \in {Worker(1).id, Worker(2).id} : at(id) \in {1, 2} /\ Worker(at(id)).id = id
  OBVIOUS
<1>2. \A id \in {Worker(1).id, Worker(2).id} : Endpoints[id] = Worker(at(id)).endpoint
  BY DEF Endpoints
<1> HIDE DEF at
<1>3. at(a) # at(b) /\ at(a) \in {1, 2} /\ at(b) \in {1, 2}
  BY <1>1
<1>4. DOMAIN in.workers = {1, 2}
  BY TwoWorkers
<1>5. Worker(at(a)).endpoint # Worker(at(b)).endpoint
  BY <1>3, <1>4 DEF WellFormed, Worker
<1> QED BY <1>2, <1>5

\* What the planner makes sure of before it looks at a placement.
LEMMA NotRefused ==
  ASSUME NEW i, NEW b, Refusal(i, b) = None
  PROVE  /\ Len(i.workers) = 2 /\ i.workers[1].id # i.workers[2].id
         /\ \A k \in {1, 2} : Suits(i.workers[k], i)
         /\ i.settings.mode = "measured" =>
              b # None /\ i.settings.execution = i.workload.kv
<1>1. /\ None # "workers" /\ None # "unsupported" /\ None # "dtypes" /\ None # "bundle"
  BY PlannerAssumption
<1>2. validate_workers(i.manifest, i.workers, i.settings) = None
  BY <1>1 DEF Refusal
<1>3. /\ i.settings.mode = "measured" => b # None
      /\ i.settings.mode = "measured" => i.settings.execution = i.workload.kv
  BY <1>1 DEF Refusal
<1>4. Len(i.workers) = 2 /\ i.workers[1].id # i.workers[2].id
  BY <1>1, <1>2 DEF validate_workers
<1>5. ~\E k \in {1, 2} : \/ ~i.workers[k].architecture
                         \/ i.settings.weight # None /\ ~i.workers[k].mixed
                         \/ i.settings.execution \notin i.workers[k].dtypes
  BY <1>1, <1>2, <1>4 DEF validate_workers
<1>6. \A k \in {1, 2} : Suits(i.workers[k], i)
  BY <1>5 DEF Suits
<1> QED BY <1>3, <1>4, <1>6

\* The signed plan is a plan of two stages.
LEMMA SignedIsPlacement ==
  ASSUME NEW i, NEW selected, NEW b, NEW u, u = unsigned_plan(i, selected, b), NEW p, p = DeploymentPlan(u),
         WellFormed(i), selected.first # selected.final, selected.split \in Splits(i),
         i.settings.mode = "measured" => b # None
  PROVE  /\ IsPlacementPlan(p, i, selected.first, selected.final, selected.split)
         /\ p.mode = i.settings.mode /\ p.activation = i.workload.activation
         /\ i.settings.mode = "measured" => p.workload_digest = i.workload /\ p.bundle_digest = b
<1>1. IsSigned(p, u, i, selected, b)
  BY SignedPlan
<1>2. /\ DOMAIN p = PlanRecord /\ p = [f \in DOMAIN p |-> p[f]] /\ p.plan_digest = u
      /\ \A f \in BaseFields : p[f] = Unsigned(i, selected)[f]
      /\ \A f \in DigestFields : p[f] = Digests(i, b)[f]
      /\ p.weight = i.settings.weight
  BY <1>1 DEF IsSigned
<1>3. /\ p.mode = i.settings.mode /\ p.activation = i.workload.activation /\ p.split = selected.split
      /\ p.manifest = i.manifest.digest /\ p.execution = i.settings.execution
      /\ p.duplicated = IF i.manifest.tied THEN {"token_embeddings"} ELSE {}
      /\ p.stages = assignments_for(selected.first, selected.final, selected.split, i.manifest.layers)
  BY <1>2 DEF BaseFields, Unsigned
<1>4. /\ p.schema = schema(i.settings)
      /\ p.workload_digest = IF i.settings.mode = "measured" THEN i.workload ELSE None
      /\ p.bundle_digest = IF i.settings.mode = "measured" THEN b ELSE None
  BY <1>2 DEF DigestFields, Digests
<1>5. i.workload # None
  BY DEF WellFormed, WellFormedWorkload
<1>6. p.mode = "measured" \/ p.weight # None => p.plan_digest = model_dump(p)
  <2>1. p.mode = "measured" \/ p.weight # None => Hashed(i)
    BY <1>2, <1>3 DEF Hashed
  <2>2. Hashed(i) => model_dump(p) = u
    BY DumpIsHashed
  <2> QED BY <1>2, <2>1, <2>2
<1>7. p.schema = IF p.weight # None THEN "1.2" ELSE IF p.mode = "measured" THEN "1.1" ELSE "1.0"
  BY <1>2, <1>3, <1>4 DEF schema
<1>8. IsPlacementPlan(p, i, selected.first, selected.final, selected.split)
  BY <1>2, <1>3, <1>4, <1>5, <1>6, <1>7 DEF IsPlacementPlan
<1> QED BY <1>3, <1>4, <1>8

\* So is every placement the sweep signs.
LEMMA SweepIsPlacement ==
  ASSUME NEW plan_, NEW i, WellFormed(i), plan_.weight = i.settings.weight, plan_.execution = i.settings.execution,
         plan_.duplicated = IF i.manifest.tied THEN {"token_embeddings"} ELSE {},
         NEW first, NEW final, first # final, NEW split \in Splits(i),
         NEW p, p = placement(plan_, i, first, final, split)
  PROVE  IsPlacementPlan(p, i, first, final, split) /\ p.activation = plan_.activation
<1> DEFINE prov ==
        [schema |-> IF plan_.weight # None THEN "1.2" ELSE "1.0", weight |-> plan_.weight,
         planner_version |-> "qualification-1.0", manifest |-> i.manifest.digest,
         workload_id |-> i.workload.id, mode |-> "feasibility",
         execution |-> plan_.execution, activation |-> plan_.activation, split |-> split,
         stages |-> assignments_for(first, final, split, i.manifest.layers),
         duplicated |-> plan_.duplicated, candidate |-> <<first, final, split>>,
         workload_digest |-> None, bundle_digest |-> None]
           blank == Joined([plan_digest |-> None], prov)
           digest == model_dump(blank)
<1>1. p = Joined([plan_digest |-> digest], prov)
  BY DEF placement
<1>2. DOMAIN prov = PlanRecord \ {"plan_digest"}
  BY DEF PlanRecord, BaseFields, DigestFields
<1>3. /\ prov.schema = (IF plan_.weight # None THEN "1.2" ELSE "1.0") /\ prov.weight = plan_.weight
      /\ prov.manifest = i.manifest.digest /\ prov.mode = "feasibility" /\ prov.execution = plan_.execution
      /\ prov.activation = plan_.activation /\ prov.split = split
      /\ prov.stages = assignments_for(first, final, split, i.manifest.layers)
      /\ prov.duplicated = plan_.duplicated /\ prov.workload_digest = None /\ prov.bundle_digest = None
  OBVIOUS
<1> HIDE DEF prov, digest
<1>4. ASSUME NEW d, NEW r, r = Joined([plan_digest |-> d], prov)
      PROVE  /\ DOMAIN r = PlanRecord /\ r = [f \in DOMAIN r |-> r[f]] /\ r.plan_digest = d
             /\ \A f \in PlanRecord \ {"plan_digest"} : r[f] = prov[f]
  <2>1. DOMAIN [plan_digest |-> d] = {"plan_digest"} /\ [plan_digest |-> d].plan_digest = d
    OBVIOUS
  <2>2. "plan_digest" \in PlanRecord
    BY DEF PlanRecord
  <2> QED BY <1>2, <1>4, <2>1, <2>2 DEF Joined
<1>5. /\ DOMAIN p = PlanRecord /\ p = [f \in DOMAIN p |-> p[f]] /\ p.plan_digest = digest
      /\ \A f \in PlanRecord \ {"plan_digest"} : p[f] = prov[f]
  BY <1>1, <1>4
<1>6. /\ DOMAIN blank = PlanRecord
      /\ \A f \in PlanRecord \ {"plan_digest"} : blank[f] = prov[f]
  BY <1>4
<1> HIDE DEF blank
<1>7. \A f \in PlanRecord \ {"plan_digest"} : p[f] = blank[f]
  BY <1>5, <1>6
<1>8. "weight" \in PlanRecord \ {"plan_digest"}
  BY DEF PlanRecord
<1>9. p.weight = blank.weight
  BY <1>7, <1>8
<1> DEFINE kept == PlanRecord \ ({"plan_digest"} \cup IF p.weight = None THEN {"weight"} ELSE {})
<1>10. model_dump(p) = [f \in kept |-> p[f]] /\ model_dump(blank) = [f \in kept |-> blank[f]]
  BY <1>5, <1>6, <1>9 DEF model_dump
<1>11. model_dump(p) = model_dump(blank)
  BY <1>7, <1>10
<1>12. p.plan_digest = model_dump(p)
  BY <1>5, <1>11 DEF digest
<1>13. /\ p.schema = (IF plan_.weight # None THEN "1.2" ELSE "1.0") /\ p.weight = plan_.weight
       /\ p.manifest = i.manifest.digest /\ p.mode = "feasibility" /\ p.execution = plan_.execution
       /\ p.activation = plan_.activation /\ p.split = split
       /\ p.stages = assignments_for(first, final, split, i.manifest.layers)
       /\ p.duplicated = plan_.duplicated /\ p.workload_digest = None /\ p.bundle_digest = None
  BY <1>3, <1>5 DEF PlanRecord, BaseFields, DigestFields
<1> QED BY <1>5, <1>12, <1>13 DEF IsPlacementPlan

\* The sweep runs the two workers of the plan in both orders.
LEMMA SweepPlacements ==
  ASSUME NEW plan_, NEW i, NEW first, NEW final, plan_.stages[1].worker = first,
         plan_.stages[2].worker = final, NEW p \in placements(plan_, i)
  PROVE  \E split \in Splits(i) : \/ p = placement(plan_, i, first, final, split)
                                  \/ p = placement(plan_, i, final, first, split)
<1> DEFINE names == <<first, final>>
<1>1. PICK order \in {names, Reverse(names)}, split \in 1..(i.manifest.layers - 1) :
        p = placement(plan_, i, order[1], order[2], split)
  BY DEF placements
<1>2. Reverse(names)[1] = final /\ Reverse(names)[2] = first
  BY DEF Reverse
<1>3. names[1] = first /\ names[2] = final
  OBVIOUS
<1> HIDE DEF names
<1> QED BY <1>1, <1>2, <1>3 DEF Splits

-----------------------------------------------------------------------------
(* The plan of the model *)

\* An evaluation without reasons has times.
LEMMA EvaluatedTimes ==
  ASSUME NEW reasons, NEW e, e = Evaluation(reasons)
  PROVE  /\ e.reasons = reasons
         /\ e.reasons = {} => e.performance.ttft \in Nat /\ e.performance.decode \in Nat /\ e.status = "measured"
BY DEF Evaluation, Timing

\* The evaluation of one placement of the two workers.
LEMMA EvaluationOfPlacement ==
  ASSUME WellFormed(in), Len(in.workers) = 2, in.workers[1].id # in.workers[2].id, Measured,
         NEW b, NEW a \in {1, 2}, NEW split \in Splits(in)
  PROVE  Evaluations(b)[<<in.workers[a].id, in.workers[3 - a].id, split>>]
           = evaluate(b, assignments_for(in.workers[a].id, in.workers[3 - a].id, split, in.manifest.layers))
<1> DEFINE names == {w.id : w \in ToSet(in.workers)}
           ids == {id \in names \X names \X (1..(in.manifest.layers - 1)) : id[1] # id[2]}
           first == in.workers[a].id
           final == in.workers[3 - a].id
           id == <<first, final, split>>
<1>1. Evaluations(b) = [x \in ids |-> evaluate(b, assignments_for(x[1], x[2], x[3], in.manifest.layers))]
  BY DEF Evaluations
<1>2. first \in names /\ final \in names /\ first # final
  <2>1. DOMAIN in.workers = {1, 2}
    BY TwoWorkers
  <2>2. ToSet(in.workers) = {in.workers[1], in.workers[2]}
    BY <2>1 DEF ToSet
  <2>3. in.workers[1].id \in names /\ in.workers[2].id \in names
    BY <2>2
  <2>4. (first = in.workers[1].id /\ final = in.workers[2].id) \/ (first = in.workers[2].id /\ final = in.workers[1].id)
    OBVIOUS
  <2> HIDE DEF names, first, final
  <2> QED BY <2>3, <2>4
<1>3. id \in ids /\ id[1] = first /\ id[2] = final /\ id[3] = split
  <2> HIDE DEF names, first, final
  <2> QED BY <1>2 DEF Splits
<1> HIDE DEF ids, id, first, final
<1>4. Evaluations(b)[id] = evaluate(b, assignments_for(id[1], id[2], id[3], in.manifest.layers))
  BY <1>1, <1>3
<1> QED BY <1>3, <1>4 DEF id, first, final

\* What the planner needs is there once it has not refused its inputs.
LEMMA InputsArePlannable ==
  ASSUME WellFormed(in), Refusal(in, bundle) = None
  PROVE  Plannable(in, Evaluations(bundle))
<1>1. Len(in.workers) = 2 /\ in.workers[1].id # in.workers[2].id
  BY NotRefused
<1>2. ASSUME in.settings.mode = "measured", NEW a \in {1, 2}, NEW split \in Splits(in), NEW found,
             found = Evaluations(bundle)[<<in.workers[a].id, in.workers[3 - a].id, split>>],
             found.reasons = {}
      PROVE  {found.performance.ttft, found.performance.decode} \subseteq Nat
  <2>1. Measured
    BY <1>2 DEF Measured
  <2>2. \E assignments : found = evaluate(bundle, assignments)
    BY <1>1, <1>2, <2>1, EvaluationOfPlacement
  <2>3. PICK reasons : found = Evaluation(reasons)
    BY <2>2 DEF evaluate
  <2>4. found.performance.ttft \in Nat /\ found.performance.decode \in Nat
    BY <1>2, <2>3, EvaluatedTimes
  <2> QED BY <2>4
<1> QED BY <1>1, <1>2 DEF Plannable

\* The plan that create_plan reports is the best placement's.
LEMMA PlanOfTheBest ==
  ASSUME WellFormed(in), NEW p, p = create_plan(in, bundle, Evaluations(bundle)).plan, p # None
  PROVE  /\ Refusal(in, bundle) = None
         /\ \E selected \in Best(in, Evaluations(bundle)) :
              p = DeploymentPlan(unsigned_plan(in, selected, bundle))
<1> DEFINE cs == raw_candidates(in, Evaluations(bundle))
<1>1. Refusal(in, bundle) = None
  BY DEF create_plan
<1>2. Feasible(cs) # {} /\ p = DeploymentPlan(unsigned_plan(in, Selected(cs), bundle))
  BY <1>1 DEF create_plan
<1>3. Plannable(in, Evaluations(bundle))
  BY <1>1, InputsArePlannable
<1>4. Selected(cs) \in Best(in, Evaluations(bundle))
  BY <1>2, <1>3, SelectedIsBest
<1> QED BY <1>1, <1>2, <1>4

\* What is known of it: who runs the stages, the split, and what its evaluation found.
LEMMA PlanOfTwoWorkers ==
  ASSUME WellFormed(in), NEW p, p = create_plan(in, bundle, Evaluations(bundle)).plan, p # None
  PROVE  \E a \in {1, 2}, split \in Splits(in) :
           /\ IsPlacementPlan(p, in, Worker(a).id, Worker(3 - a).id, split)
           /\ p.mode = in.settings.mode /\ p.activation = in.workload.activation
           /\ Measured => /\ p.workload_digest = in.workload /\ p.bundle_digest = bundle
                          /\ evaluate(bundle, p.stages).reasons = {}
<1>1. Refusal(in, bundle) = None
  BY PlanOfTheBest
<1>2. PICK selected \in Best(in, Evaluations(bundle)) : p = DeploymentPlan(unsigned_plan(in, selected, bundle))
  BY PlanOfTheBest
<1>3. selected \in Free(in, Evaluations(bundle)) /\ selected.reasons = {}
  BY <1>2 DEF Best, Free
<1>4. /\ Len(in.workers) = 2 /\ in.workers[1].id # in.workers[2].id
      /\ in.settings.mode = "measured" => bundle # None
  BY <1>1, NotRefused
<1>5. PICK a \in {1, 2}, split \in Splits(in) :
        selected = Placed(in, Evaluations(bundle), in.workers[a], in.workers[3 - a], split)
  BY <1>3 DEF Free, Placements
<1>6. PICK first, final : first = in.workers[a] /\ final = in.workers[3 - a]
  OBVIOUS
<1>7. selected = Placed(in, Evaluations(bundle), first, final, split)
  BY <1>5, <1>6
<1>8. /\ selected.first = first.id /\ selected.final = final.id /\ selected.split = split
      /\ selected.id = <<first.id, final.id, split>>
      /\ in.settings.mode = "measured" => Evaluations(bundle)[selected.id].reasons = {}
  BY <1>3, <1>7, PlacedFields
<1>9. first.id # final.id
  <2>1. (first = in.workers[1] /\ final = in.workers[2]) \/ (first = in.workers[2] /\ final = in.workers[1])
    BY <1>6
  <2> QED BY <1>4, <2>1
<1>10. /\ IsPlacementPlan(p, in, selected.first, selected.final, selected.split)
       /\ p.mode = in.settings.mode /\ p.activation = in.workload.activation
       /\ in.settings.mode = "measured" => p.workload_digest = in.workload /\ p.bundle_digest = bundle
  BY <1>2, <1>4, <1>8, <1>9, SignedIsPlacement
<1>11. IsPlacementPlan(p, in, first.id, final.id, split)
  BY <1>8, <1>10
<1>12. p.stages = assignments_for(first.id, final.id, split, in.manifest.layers)
  BY <1>11 DEF IsPlacementPlan
<1>13. Measured => evaluate(bundle, p.stages).reasons = {}
  <2>1. SUFFICES ASSUME Measured
                 PROVE  evaluate(bundle, p.stages).reasons = {}
    OBVIOUS
  <2>2. Evaluations(bundle)[<<in.workers[a].id, in.workers[3 - a].id, split>>]
          = evaluate(bundle, assignments_for(in.workers[a].id, in.workers[3 - a].id, split, in.manifest.layers))
    BY <1>4, <2>1, EvaluationOfPlacement
  <2>3. Evaluations(bundle)[<<first.id, final.id, split>>] = evaluate(bundle, p.stages)
    BY <1>6, <1>12, <2>2
  <2> QED BY <1>8, <2>1, <2>3 DEF Measured
<1>14. first = Worker(a) /\ final = Worker(3 - a)
  BY <1>6 DEF Worker
<1>15. Measured => p.workload_digest = in.workload /\ p.bundle_digest = bundle
  BY <1>10 DEF Measured
<1> QED BY <1>10, <1>11, <1>13, <1>14, <1>15

-----------------------------------------------------------------------------
(* The order of the workers *)

\* The inputs with the workers the other way round.
Turned(i) == [i EXCEPT !.workers = Reverse(@)]

\* Only the list of the workers is turned round.
LEMMA TurnedFields ==
  ASSUME NEW i, WellFormed(i)
  PROVE  /\ Turned(i).manifest = i.manifest /\ Turned(i).links = i.links /\ Turned(i).workload = i.workload
         /\ Turned(i).settings = i.settings /\ Turned(i).workers = Reverse(i.workers)
         /\ Turned(i) = [f \in {"manifest", "workers", "links", "workload", "settings"} |-> Turned(i)[f]]
<1>1. i = [f \in {"manifest", "workers", "links", "workload", "settings"} |-> i[f]]
  BY DEF WellFormed, IsRecord
<1> QED BY <1>1 DEF Turned

\* The list, turned round.
LEMMA ReversedWorkers ==
  ASSUME NEW i, WellFormed(i)
  PROVE  LET w == i.workers  r == Reverse(i.workers) IN
         /\ Len(r) = Len(w) /\ DOMAIN r = DOMAIN w /\ DOMAIN w = 1..Len(w) /\ Len(w) \in Nat
         /\ r = [k \in 1..Len(w) |-> r[k]] /\ \A k \in DOMAIN w : r[k] = w[Len(w) - k + 1]
<1> DEFINE w == i.workers
           r == Reverse(w)
<1>1. Len(w) \in Nat /\ w = [k \in 1..Len(w) |-> w[k]]
  BY DEF WellFormed, IsSequence, IsRecord
<1>2. PICK n \in Nat : n = Len(w)
  BY <1>1
<1>3. r = [k \in 1..n |-> w[(n - k) + 1]]
  BY <1>2 DEF Reverse
<1>4. DOMAIN w = 1..n /\ DOMAIN r = 1..n
  BY <1>1, <1>2, <1>3
<1> DEFINE S == {r[k] : k \in 1..n}
<1>5. r \in Seq(S)
  <2>1. \A k \in 1..n : r[k] \in S
    OBVIOUS
  <2> HIDE DEF S
  <2>2. r \in [1..n -> S]
    BY <1>3, <2>1
  <2> HIDE DEF r
  <2> QED BY <2>2, SeqDef
<1>6. Len(r) = n
  <2> HIDE DEF S, r
  <2> QED BY <1>4, <1>5
<1>7. r = [k \in 1..n |-> r[k]]
  BY <1>3
<1>8. \A k \in 1..n : r[k] = w[n - k + 1]
  BY <1>3
<1> HIDE DEF r, w
<1>9. /\ Len(r) = Len(w) /\ DOMAIN r = DOMAIN w /\ DOMAIN w = 1..Len(w) /\ Len(w) \in Nat
      /\ r = [k \in 1..Len(w) |-> r[k]] /\ \A k \in DOMAIN w : r[k] = w[Len(w) - k + 1]
  BY <1>2, <1>4, <1>6, <1>7, <1>8
<1> QED BY <1>9 DEF r, w

\* The inputs stay well formed.
LEMMA TurnedWellFormed ==
  ASSUME NEW i, WellFormed(i)
  PROVE  WellFormed(Turned(i))
<1>1. /\ Turned(i).manifest = i.manifest /\ Turned(i).links = i.links /\ Turned(i).workload = i.workload
      /\ Turned(i).settings = i.settings /\ Turned(i).workers = Reverse(i.workers)
      /\ IsRecord(Turned(i), {"manifest", "workers", "links", "workload", "settings"})
  BY TurnedFields DEF IsRecord
<1> DEFINE w == i.workers
           r == Reverse(i.workers)
<1>2. /\ Len(r) = Len(w) /\ DOMAIN r = DOMAIN w /\ DOMAIN w = 1..Len(w) /\ Len(w) \in Nat
      /\ r = [k \in 1..Len(w) |-> r[k]] /\ \A k \in DOMAIN w : r[k] = w[Len(w) - k + 1]
  BY ReversedWorkers
<1>3. IsSequence(r)
  BY <1>2 DEF IsSequence, IsRecord
<1>4. /\ \A k \in DOMAIN w : WellFormedWorker(w[k])
      /\ \A j, k \in DOMAIN w : w[j].endpoint = w[k].endpoint => j = k
  BY DEF WellFormed
<1> HIDE DEF r, w
<1>5. \A k \in DOMAIN r : WellFormedWorker(r[k])
  <2> TAKE k \in DOMAIN r
  <2>1. k \in DOMAIN w /\ Len(w) - k + 1 \in DOMAIN w
    BY <1>2
  <2> QED BY <1>2, <1>4, <2>1
<1>6. /\ WellFormedManifest(i.manifest) /\ WellFormedWorkload(i.workload) /\ WellFormedSettings(i.settings)
      /\ IsSequence(i.links) /\ \A k \in DOMAIN i.links : WellFormedLink(i.links[k])
  BY DEF WellFormed
<1>7. \A j, k \in DOMAIN r : r[j].endpoint = r[k].endpoint => j = k
  <2> TAKE j, k \in DOMAIN r
  <2>1. /\ j \in 1..Len(w) /\ k \in 1..Len(w)
        /\ r[j] = w[Len(w) - j + 1] /\ r[k] = w[Len(w) - k + 1]
    BY <1>2
  <2>2. Len(w) - j + 1 \in DOMAIN w /\ Len(w) - k + 1 \in DOMAIN w
    BY <1>2, <2>1
  <2> HAVE r[j].endpoint = r[k].endpoint
  <2>3. Len(w) - j + 1 = Len(w) - k + 1
    BY <1>4, <2>1, <2>2
  <2> QED BY <1>2, <2>1, <2>3
<1> QED BY <1>1, <1>3, <1>5, <1>6, <1>7 DEF WellFormed, r

\* Nothing that the inputs are refused for depends on the order.
LEMMA TurnedRefusal ==
  ASSUME NEW i, WellFormed(i), NEW b
  PROVE  Refusal(Turned(i), b) = Refusal(i, b)
<1>1. /\ Turned(i).manifest = i.manifest /\ Turned(i).workload = i.workload
      /\ Turned(i).settings = i.settings /\ Turned(i).workers = Reverse(i.workers)
  BY TurnedFields
<1> DEFINE w == i.workers
           r == Reverse(i.workers)
           t == Turned(i)
<1>2. /\ Len(r) = Len(w) /\ DOMAIN r = DOMAIN w /\ DOMAIN w = 1..Len(w) /\ Len(w) \in Nat
      /\ \A k \in DOMAIN w : r[k] = w[Len(w) - k + 1]
  BY ReversedWorkers
<1> HIDE DEF r, w, t
<1>3. ToSet(r) = ToSet(w)
  <2>1. \A k \in DOMAIN w : /\ Len(w) - k + 1 \in DOMAIN w /\ r[k] = w[Len(w) - k + 1]
                            /\ Len(w) - (Len(w) - k + 1) + 1 = k
    BY <1>2
  <2>2. \A k \in DOMAIN w : w[k] = r[Len(w) - k + 1]
    BY <2>1
  <2> QED BY <1>2, <2>1, <2>2 DEF ToSet
<1>4. Len(w) = 2 => r[1] = w[2] /\ r[2] = w[1]
  BY <1>2
<1>5. validate_workers(t.manifest, r, t.settings) = validate_workers(i.manifest, w, i.settings)
  <2>1. Len(r) # 2 <=> Len(w) # 2
    BY <1>2
  <2>2. CASE Len(w) # 2
    BY <2>1, <2>2 DEF validate_workers
  <2>3. CASE Len(w) = 2
    <3>1. r[1] = w[2] /\ r[2] = w[1] /\ Len(r) = 2
      BY <1>2, <1>4, <2>3
    <3> DEFINE bad(v) == \/ ~v.architecture \/ (i.settings.weight # None /\ ~v.mixed)
                         \/ i.settings.execution \notin v.dtypes
    <3>2. (\E k \in {1, 2} : bad(r[k])) <=> \E k \in {1, 2} : bad(w[k])
      <4> HIDE DEF bad
      <4> QED BY <3>1
    <3>3. r[1].id = r[2].id <=> w[1].id = w[2].id
      BY <3>1
    <3>4. t.settings = i.settings
      BY <1>1 DEF t
    <3> QED BY <2>3, <3>1, <3>2, <3>3, <3>4 DEF validate_workers
  <2> QED BY <2>2, <2>3
<1>6. t.workers = r /\ t.manifest = i.manifest /\ t.settings = i.settings /\ t.workload = i.workload
  BY <1>1 DEF r, t
<1> DEFINE s == i.settings
           refused == validate_workers(i.manifest, w, s) # None
           foreign == ToSet(w) # {e.worker : e \in ToSet(b.workers)}
           answer(x, y) ==
             CASE x -> "workers"
               [] s.weight # None /\ i.workload.kv # s.execution -> "dtypes"
               [] s.mode # "measured" /\ b # None -> "bundle"
               [] s.mode = "measured" /\ b = None -> "bundle"
               [] s.mode = "measured" /\ b # None /\
                    (y \/ s.execution # i.workload.kv \/ i.workload.chunk > 0) -> "bundle"
               [] OTHER -> None
<1>7. Refusal(i, b) = answer(validate_workers(i.manifest, w, s) # None,
                             ToSet(w) # {e.worker : e \in ToSet(b.workers)})
  BY DEF Refusal, w
<1>8. Refusal(t, b) = answer(validate_workers(t.manifest, r, t.settings) # None,
                             ToSet(r) # {e.worker : e \in ToSet(b.workers)})
  BY <1>6 DEF Refusal
<1> HIDE DEF answer
<1>9. Refusal(t, b) = Refusal(i, b)
  BY <1>3, <1>5, <1>7, <1>8
<1> QED BY <1>9 DEF t

\* Nor does a placement, once it is said who is first.
LEMMA TurnedPlaced ==
  ASSUME NEW i, WellFormed(i), NEW evaluation, NEW first, NEW final, NEW split
  PROVE  Placed(Turned(i), evaluation, first, final, split) = Placed(i, evaluation, first, final, split)
<1> DEFINE t == Turned(i)
<1>1. /\ t.manifest = i.manifest /\ t.links = i.links /\ t.workload = i.workload /\ t.settings = i.settings
  BY TurnedFields
<1> HIDE DEF t
<1>2. ASSUME NEW id, NEW l, NEW stages, NEW fits, NEW found
      PROVE  /\ FitReasons(t, first, final, l, stages) = FitReasons(i, first, final, l, stages)
             /\ Found(t, evaluation, id, l) = Found(i, evaluation, id, l)
             /\ Rated(t, id, stages, fits, found, l) = Rated(i, id, stages, fits, found, l)
  <2>1. FitReasons(t, first, final, l, stages) = FitReasons(i, first, final, l, stages)
    BY <1>1 DEF FitReasons
  <2>2. Found(t, evaluation, id, l) = Found(i, evaluation, id, l)
    BY <1>1 DEF Found
  <2>3. Rated(t, id, stages, fits, found, l) = Rated(i, id, stages, fits, found, l)
    BY <1>1 DEF Rated
  <2> QED BY <2>1, <2>2, <2>3
<1>3. ASSUME NEW id, NEW l, NEW stages
      PROVE  Candidate(t, evaluation, first, final, id, l, stages) = Candidate(i, evaluation, first, final, id, l, stages)
  BY <1>2 DEF Candidate
<1>4. Placed(t, evaluation, first, final, split) = Placed(i, evaluation, first, final, split)
  BY <1>1, <1>3 DEF Placed
<1> QED BY <1>4 DEF t

\* The placements are the same.
LEMMA TurnedBest ==
  ASSUME NEW i, NEW evaluation, Plannable(i, evaluation)
  PROVE  /\ Plannable(Turned(i), evaluation)
         /\ Free(Turned(i), evaluation) = Free(i, evaluation)
         /\ Best(Turned(i), evaluation) = Best(i, evaluation)
<1> DEFINE t == Turned(i)
<1>1. WellFormed(i) /\ WellFormed(t) /\ Len(i.workers) = 2 /\ i.workers[1].id # i.workers[2].id
  BY TurnedWellFormed DEF Plannable
<1>2. t.manifest = i.manifest /\ t.settings = i.settings /\ t.workers = Reverse(i.workers)
  BY <1>1, TurnedFields
<1>3. Len(t.workers) = 2 /\ t.workers[1] = i.workers[2] /\ t.workers[2] = i.workers[1]
  <2> DEFINE w == i.workers
             r == Reverse(i.workers)
  <2>1. /\ Len(r) = Len(w) /\ DOMAIN w = 1..Len(w)
        /\ \A k \in DOMAIN w : r[k] = w[Len(w) - k + 1]
    BY <1>1, ReversedWorkers
  <2> HIDE DEF r, w
  <2>2. Len(w) = 2 /\ t.workers = r
    BY <1>1, <1>2 DEF w, r
  <2>3. Len(r) = 2 /\ r[1] = w[2] /\ r[2] = w[1]
    BY <2>1, <2>2
  <2> QED BY <2>2, <2>3 DEF w
<1>4. \A a \in {1, 2} : 3 - a \in {1, 2} /\ 3 - (3 - a) = a /\ t.workers[a] = i.workers[3 - a]
  BY <1>3
<1>5. \A a \in {1, 2} : t.workers[3 - a] = i.workers[a]
  BY <1>4
<1>6. Splits(t) = Splits(i)
  BY <1>2 DEF Splits
<1>7. Plannable(t, evaluation)
  <2>1. ASSUME t.settings.mode = "measured", NEW a \in {1, 2}, NEW split \in Splits(t), NEW found,
               found = evaluation[<<t.workers[a].id, t.workers[3 - a].id, split>>], found.reasons = {}
        PROVE  {found.performance.ttft, found.performance.decode} \subseteq Nat
    <3>1. PICK c \in {1, 2} : c = 3 - a /\ a = 3 - c
      BY <1>4
    <3>2. t.workers[a].id = i.workers[c].id /\ t.workers[3 - a].id = i.workers[3 - c].id
      BY <1>4, <1>5, <3>1
    <3>3. found = evaluation[<<i.workers[c].id, i.workers[3 - c].id, split>>]
      BY <2>1, <3>2
    <3> QED BY <1>2, <1>6, <2>1, <3>3 DEF Plannable
  <2>2. t.workers[1].id # t.workers[2].id
    BY <1>1, <1>3
  <2> HIDE DEF t
  <2> QED BY <1>1, <1>3, <2>1, <2>2 DEF Plannable
<1>8. \A first, final, split : Placed(t, evaluation, first, final, split) = Placed(i, evaluation, first, final, split)
  BY <1>1, TurnedPlaced
<1> HIDE DEF t
<1>9. Placements(t, evaluation) = Placements(i, evaluation)
  <2>1. ASSUME NEW c \in Placements(t, evaluation)
        PROVE  c \in Placements(i, evaluation)
    <3>1. PICK a \in {1, 2}, split \in Splits(i) : c = Placed(t, evaluation, t.workers[a], t.workers[3 - a], split)
      BY <1>6 DEF Placements
    <3>2. PICK d \in {1, 2} : d = 3 - a /\ a = 3 - d
      BY <1>4
    <3>3. c = Placed(i, evaluation, i.workers[d], i.workers[3 - d], split)
      BY <1>4, <1>5, <1>8, <3>1, <3>2
    <3> QED BY <3>3 DEF Placements
  <2>2. ASSUME NEW c \in Placements(i, evaluation)
        PROVE  c \in Placements(t, evaluation)
    <3>1. PICK a \in {1, 2}, split \in Splits(t) : c = Placed(i, evaluation, i.workers[a], i.workers[3 - a], split)
      BY <1>6 DEF Placements
    <3>2. PICK d \in {1, 2} : d = 3 - a /\ a = 3 - d
      BY <1>4
    <3>3. c = Placed(t, evaluation, t.workers[d], t.workers[3 - d], split)
      BY <1>4, <1>5, <1>8, <3>1, <3>2
    <3> QED BY <3>3 DEF Placements
  <2> QED BY <2>1, <2>2
<1>10. Free(t, evaluation) = Free(i, evaluation)
  BY <1>9 DEF Free
<1>11. Best(t, evaluation) = Best(i, evaluation)
  BY <1>10 DEF Best
<1> QED BY <1>7, <1>10, <1>11 DEF t

\* The plan of the turned inputs is the same plan.
LEMMA TurnedPlan ==
  ASSUME WellFormed(in)
  PROVE  create_plan(Turned(in), bundle, Evaluations(bundle)).plan = create_plan(in, bundle, Evaluations(bundle)).plan
<1> DEFINE t == Turned(in)
           ev == Evaluations(bundle)
           cs == raw_candidates(in, ev)
           ds == raw_candidates(t, ev)
<1>1. Refusal(t, bundle) = Refusal(in, bundle)
  BY TurnedRefusal
<1>2. CASE Refusal(in, bundle) # None
  BY <1>1, <1>2 DEF create_plan
<1>3. CASE Refusal(in, bundle) = None
  <2>1. Plannable(in, ev)
    BY <1>3, InputsArePlannable
  <2>2. Plannable(t, ev) /\ Free(t, ev) = Free(in, ev) /\ Best(t, ev) = Best(in, ev)
    BY <2>1, TurnedBest
  <2>3. /\ Feasible(cs) = {} <=> Free(in, ev) = {}
        /\ Feasible(cs) # {} => Selected(cs) \in Best(in, ev)
    BY <2>1, SelectedIsBest
  <2>4. /\ Feasible(ds) = {} <=> Free(t, ev) = {}
        /\ Feasible(ds) # {} => Selected(ds) \in Best(t, ev)
    BY <2>2, SelectedIsBest
  <2> HIDE DEF t, ev
  <2>5. /\ create_plan(in, bundle, ev).plan = IF Feasible(cs) = {} THEN None
                                            ELSE DeploymentPlan(unsigned_plan(in, Selected(cs), bundle))
        /\ create_plan(t, bundle, ev).plan = IF Feasible(ds) = {} THEN None
                                           ELSE DeploymentPlan(unsigned_plan(t, Selected(ds), bundle))
    BY <1>1, <1>3 DEF create_plan
  <2> HIDE DEF cs, ds
  <2>6. Feasible(cs) = {} <=> Feasible(ds) = {}
    BY <2>2, <2>3, <2>4
  <2>7. Feasible(cs) # {} => Selected(cs) = Selected(ds)
    BY <2>1, <2>2, <2>3, <2>4, <2>6, OneBest
  <2>8. \A selected : unsigned_plan(t, selected, bundle) = unsigned_plan(in, selected, bundle)
    <3>1. t.manifest = in.manifest /\ t.workload = in.workload /\ t.settings = in.settings
      BY TurnedFields DEF t
    <3> QED BY <3>1 DEF unsigned_plan
  <2>9. create_plan(t, bundle, ev).plan = create_plan(in, bundle, ev).plan
    BY <2>5, <2>6, <2>7, <2>8
  <2> QED BY <2>9 DEF t, ev
<1> QED BY <1>2, <1>3

-----------------------------------------------------------------------------
(* The plan along a behaviour *)

WithPlan == Planned \cup {"unplanned", "refused"}

Supported == in.workload.concurrency = 1 /\ in.workload.activation = "F16"

\* The plan is the one that the planner reports for the inputs and the bundle, which do
\* not change any more; measured plans are of workloads that profiles support.
SelectionInv ==
  /\ in \in Inputs
  /\ pc \in WithPlan => plan = create_plan(in, bundle, Evaluations(bundle)).plan
  /\ pc \notin WithPlan => plan = None
  /\ pc \in Planned => plan # None
  /\ Measured /\ pc \notin {"memory", "abandoned"} => Supported
  /\ pc = "sent" /\ plan.activation = "F16" => accepted = <<TRUE, TRUE>>

\* What the evidence says depends on the inputs and the bundle alone.
LEMMA EvaluationsFrame ==
  ASSUME UNCHANGED <<in, bundle>>
  PROVE  Evaluations(bundle)' = Evaluations(bundle) /\ \A b, a : evaluate(b, a)' = evaluate(b, a)
<1>1. (\A k : Worker(k)' = Worker(k)) /\ Measured' = Measured
  BY DEF Worker, Measured
<1>2. \A p : Artifact(p)' = Artifact(p)
  BY DEF Artifact
<1>3. \A b, e, a, kind : Matches(b, e, a, kind)' = Matches(b, e, a, kind)
  BY DEF Matches
<1>4. \A b, e, a : WorkerReasons(b, e, a)' = WorkerReasons(b, e, a)
  <2> TAKE b, e, a
  <2> DEFINE memory == Matches(b, e, a, "memory")
             fits == {assess_fit(Artifact(p), e.capacity, e.host, e.device, "footprint-v1") : p \in memory}
  <2>1. fits' = fits
    BY <1>2, <1>3
  <2>2. WorkerReasons(b, e, a) = MatchReasons(memory, Matches(b, e, a, "compute"),
                                              Fresh(e.at, b.at, SnapshotAge), fits, e.capacity)
    BY DEF WorkerReasons
  <2>3. WorkerReasons(b, e, a)' = MatchReasons(memory', Matches(b, e, a, "compute")',
                                               Fresh(e.at, b.at, SnapshotAge), fits', e.capacity)
    BY DEF WorkerReasons
  <2> HIDE DEF fits
  <2> QED BY <1>3, <2>1, <2>2, <2>3
<1>5. \A b, a : LinkReasons(b, a)' = LinkReasons(b, a)
  BY <1>1 DEF LinkReasons
<1>6. \A b, a : evaluate(b, a)' = evaluate(b, a)
  <2> TAKE b, a
  <2> DEFINE worker == UNION {WorkerReasons(b, EvidenceOf(b, s.worker), s) : s \in ToSet(a)}
  <2>1. worker' = worker
    BY <1>4
  <2>2. evaluate(b, a) = Evaluation(worker \cup LinkReasons(b, a))
    BY DEF evaluate
  <2>3. evaluate(b, a)' = Evaluation(worker' \cup LinkReasons(b, a)')
    BY DEF evaluate
  <2> HIDE DEF worker
  <2> QED BY <1>5, <2>1, <2>2, <2>3
<1>7. Evaluations(bundle)' = Evaluations(bundle)
  <2> DEFINE names == {w.id : w \in ToSet(in.workers)}
             ids == {id \in names \X names \X (1..(in.manifest.layers - 1)) : id[1] # id[2]}
             asked == IF Measured THEN ids ELSE {}
  <2>1. asked' = asked
    BY <1>1
  <2>2. Evaluations(bundle) = [id \in asked |-> evaluate(bundle, assignments_for(id[1], id[2], id[3], in.manifest.layers))]
    BY DEF Evaluations
  <2>3. Evaluations(bundle)' = [id \in asked' |-> evaluate(bundle, assignments_for(id[1], id[2], id[3], in.manifest.layers))']
    BY DEF Evaluations
  <2> HIDE DEF asked
  <2>4. \A id : evaluate(bundle, assignments_for(id[1], id[2], id[3], in.manifest.layers))'
                  = evaluate(bundle, assignments_for(id[1], id[2], id[3], in.manifest.layers))
    BY <1>6
  <2> QED BY <2>1, <2>2, <2>3, <2>4
<1> QED BY <1>6, <1>7

\* The inputs, the bundle and the plan stay.
LEMMA SelectionFrame ==
  ASSUME SelectionInv, UNCHANGED <<in, bundle, plan>>, pc' \in WithPlan <=> pc \in WithPlan,
         pc' \in Planned => pc \in Planned,
         Measured /\ pc' \notin {"memory", "abandoned"} => pc \notin {"memory", "abandoned"} \/ Supported,
         pc' = "sent" => (pc = "sent" /\ accepted' = accepted)
                         \/ (plan.activation = "F16" => accepted' = <<TRUE, TRUE>>)
  PROVE  SelectionInv'
<1>1. (Measured' <=> Measured) /\ (Supported' <=> Supported) /\ in' = in /\ plan' = plan
  BY DEF Measured, Supported
<1>2. create_plan(in, bundle, Evaluations(bundle))' = create_plan(in, bundle, Evaluations(bundle))
  BY EvaluationsFrame
<1>3. pc' \in WithPlan => plan' = create_plan(in, bundle, Evaluations(bundle)).plan'
  BY <1>1, <1>2 DEF SelectionInv
<1> QED BY <1>1, <1>3 DEF SelectionInv

\* The planner reports the plan.
LEMMA SelectionPlan ==
  ASSUME SelectionInv, Plan
  PROVE  SelectionInv'
<1>1. /\ pc = "plan" /\ plan' = create_plan(in, bundle, Evaluations(bundle)).plan
      /\ pc' = (IF plan' = None THEN "unplanned" ELSE IF Measured THEN "activate" ELSE "send")
      /\ UNCHANGED <<in, bundle>>
  BY DEF Plan
<1>2. pc' \in WithPlan /\ pc' # "sent" /\ (pc' \in Planned => plan' # None)
  BY <1>1 DEF WithPlan, Planned
<1>3. (Measured' <=> Measured) /\ (Supported' <=> Supported)
  BY <1>1 DEF Measured, Supported
<1>4. create_plan(in, bundle, Evaluations(bundle))' = create_plan(in, bundle, Evaluations(bundle))
  BY <1>1, EvaluationsFrame
<1> QED BY <1>1, <1>2, <1>3, <1>4 DEF SelectionInv

\* A pair of equal values.
LEMMA PairOf ==
  ASSUME NEW x, NEW f, f = [k \in {1, 2} |-> f[k]], f[1] = x, f[2] = x
  PROVE  f = <<x, x>>
<1>1. {1, 2} = 1..2
  OBVIOUS
<1>2. f = [k \in 1..2 |-> x]
  BY <1>1
<1> QED BY <1>2

\* Every worker accepts the plan that is sent.
LEMMA SelectionSend ==
  ASSUME SelectionInv, Send
  PROVE  SelectionInv'
<1>1. /\ pc = "send" /\ pc' = "sent" /\ UNCHANGED <<in, bundle, plan>>
      /\ accepted' = [k \in 1..Len(plan.stages) |-> Accepts(plan, Worker(At(k)), k)]
  BY DEF Send
<1>2. plan.activation = "F16" => accepted' = <<TRUE, TRUE>>
  <2>1. SUFFICES ASSUME plan.activation = "F16"
                 PROVE  accepted' = <<TRUE, TRUE>>
    OBVIOUS
  <2>2. /\ WellFormed(in) /\ plan = create_plan(in, bundle, Evaluations(bundle)).plan /\ plan # None
    BY <1>1, InputAssumption DEF SelectionInv, WithPlan, Planned
  <2>3. PICK a \in {1, 2}, split \in Splits(in) :
          IsPlacementPlan(plan, in, Worker(a).id, Worker(3 - a).id, split)
    BY <2>2, PlanOfTwoWorkers
  <2>4. /\ Len(plan.stages) = 2
        /\ plan.stages[1].worker = Worker(a).id /\ plan.stages[2].worker = Worker(3 - a).id
    BY <2>3, Assignments DEF IsPlacementPlan
  <2>5. /\ Len(in.workers) = 2 /\ Worker(1).id # Worker(2).id
        /\ \A k \in {1, 2} : Suits(Worker(k), in)
    BY <2>2, PlanOfTheBest, NotRefused DEF Worker
  <2>6. \A k \in {1, 2} : At(k) \in {1, 2} /\ Worker(At(k)).id = plan.stages[k].worker
    <3> TAKE k \in {1, 2}
    <3>1. \E j \in {1, 2} : Worker(j).id = plan.stages[k].worker
      <4>1. 3 - a \in {1, 2}
        OBVIOUS
      <4> QED BY <2>4, <4>1
    <3> QED BY <3>1 DEF At
  <2> DEFINE accepts(k) == Accepts(plan, Worker(At(k)), k)
  <2>7. \A k \in {1, 2} : accepts(k)
    <3> TAKE k \in {1, 2}
    <3>1. PICK w : w = Worker(At(k))
      OBVIOUS
    <3>2. Suits(w, in) /\ plan.stages[k].worker = w.id
      BY <2>5, <2>6, <3>1
    <3>3. PICK first, final : first = Worker(a).id /\ final = Worker(3 - a).id
      OBVIOUS
    <3>4. Endpoints[first] # Endpoints[final] /\ IsPlacementPlan(plan, in, first, final, split)
      <4>1. first # final /\ first \in {Worker(1).id, Worker(2).id} /\ final \in {Worker(1).id, Worker(2).id}
        BY <2>5, <3>3
      <4> QED BY <2>2, <2>3, <2>5, <3>3, <4>1, EndpointsDiffer
    <3>5. Accepts(plan, w, k)
      BY <2>1, <2>2, <3>2, <3>4, WorkerAccepts DEF Accepts
    <3> QED BY <3>1, <3>5
  <2>8. \A k \in {1, 2} : accepts(k) = TRUE
    <3>1. \A k \in {1, 2} : accepts(k) \in BOOLEAN
      BY DEF Accepts, validate_plan
    <3> QED BY <2>7, <3>1
  <2>9. accepted' = [k \in 1..2 |-> accepts(k)]
    BY <1>1, <2>4
  <2> HIDE DEF accepts
  <2>10. accepted' = [k \in {1, 2} |-> accepts(k)]
    <3>1. 1..2 = {1, 2}
      OBVIOUS
    <3> QED BY <2>9, <3>1
  <2>11. /\ accepted' = [k \in {1, 2} |-> accepted'[k]]
         /\ accepted'[1] = accepts(1) /\ accepted'[2] = accepts(2)
    BY <2>10, Zenon
  <2>12. accepted'[1] = TRUE /\ accepted'[2] = TRUE
    BY <2>8, <2>11, Zenon
  <2> QED BY <2>11, <2>12, PairOf, Zenon
<1>3. pc \in WithPlan /\ pc' \in WithPlan /\ pc \in Planned
  BY <1>1 DEF WithPlan, Planned
<1> QED BY <1>1, <1>2, <1>3, SelectionFrame

\* A profile is only taken of a workload that is supported.
LEMMA SelectionProfiles ==
  ASSUME SelectionInv,
         \/ \E kind \in {"memory", "compute"}, completed \in BOOLEAN : Profile(kind, completed)
         \/ ProfileAgain \/ ProfileRefused
  PROVE  SelectionInv'
<1>1. ASSUME NEW kind \in {"memory", "compute"}, NEW completed \in BOOLEAN, Profile(kind, completed)
      PROVE  SelectionInv'
  <2>1. /\ pc = kind /\ pc' \in {"memory", "compute", "link"} /\ Accepted(stage)
        /\ UNCHANGED <<in, bundle, plan>>
    BY <1>1 DEF Profile, run_profile
  <2>2. Supported
    BY <2>1 DEF Accepted, supported_workload, Key, Supported
  <2>3. pc \notin WithPlan /\ pc' \notin WithPlan /\ pc' \notin Planned /\ pc' # "sent"
    BY <2>1 DEF WithPlan, Planned
  <2> QED BY <2>1, <2>2, <2>3, SelectionFrame
<1>2. CASE ProfileAgain
  <2>1. pc = "memory" /\ pc' = pc /\ UNCHANGED <<in, bundle, plan>>
    BY <1>2 DEF ProfileAgain, run_profile
  <2> QED BY <2>1, SelectionFrame
<1>3. CASE ProfileRefused
  <2>1. pc \in {"memory", "compute"} /\ pc' = "abandoned" /\ UNCHANGED <<in, bundle, plan>>
    BY <1>3 DEF ProfileRefused
  <2>2. pc \notin WithPlan /\ pc' \notin WithPlan /\ pc' \notin Planned
    BY <2>1 DEF WithPlan, Planned
  <2> QED BY <2>1, <2>2, SelectionFrame
<1> QED BY <1>1, <1>2, <1>3

\* The link run does not touch any of it.
LEMMA SelectionLink ==
  ASSUME SelectionInv, FlowInv, LinkStep
  PROVE  SelectionInv'
<1>1. UNCHANGED <<in, bundle, plan, accepted>>
  BY DEF LinkStep, LinkBegin, MonitorReads, MonitorAppends, LinkReply, LinkObserveAfter, LinkDecide,
         LinkSeal, LinkUnchanged
<1>2. pc' = pc \/ (pc = "link" /\ pc' \in {"setup", "abandoned"})
  <2>1. CASE LinkSeal
    BY <2>1 DEF LinkSeal, FlowInv
  <2>2. CASE LinkBegin \/ MonitorReads \/ MonitorAppends \/ LinkObserveAfter \/ LinkDecide
    BY <2>2 DEF LinkBegin, MonitorReads, MonitorAppends, LinkObserveAfter, LinkDecide
  <2>3. CASE LinkReply(TRUE) \/ LinkReply(FALSE)
    BY <2>3 DEF LinkReply
  <2> QED BY <2>1, <2>2, <2>3 DEF LinkStep
<1>3. pc' # pc => pc \notin WithPlan /\ pc' \notin WithPlan /\ pc' \notin Planned
  BY <1>2 DEF WithPlan, Planned
<1>4. CASE pc' = pc
  BY <1>1, <1>4, SelectionFrame
<1>5. CASE pc' # pc
  <2>1. pc' # "sent" /\ (pc' \notin {"memory", "abandoned"} => pc \notin {"memory", "abandoned"})
    BY <1>2, <1>5
  <2> QED BY <1>1, <1>3, <1>5, <2>1, SelectionFrame
<1> QED BY <1>4, <1>5

\* Nor does the making of the bundle, and there is no plan yet when it is sealed.
LEMMA SelectionBundle ==
  ASSUME SelectionInv, MeasureSetup \/ SnapshotPath \/ SnapshotWorker \/ Seal
  PROVE  SelectionInv'
<1>1. CASE MeasureSetup \/ SnapshotPath \/ SnapshotWorker
  <2>1. /\ pc \in {"setup", "path", "snapshot"} /\ pc' \in {"path", "snapshot", "seal"}
        /\ UNCHANGED <<in, bundle, plan>>
    BY <1>1 DEF MeasureSetup, SnapshotPath, SnapshotWorker
  <2>2. pc \notin WithPlan /\ pc' \notin WithPlan /\ pc' \notin Planned
    BY <2>1 DEF WithPlan, Planned
  <2> QED BY <2>1, <2>2, SelectionFrame
<1>2. CASE Seal
  <2>1. pc = "seal" /\ pc' \in {"plan", "abandoned"} /\ UNCHANGED <<in, plan>>
    BY <1>2 DEF Seal
  <2>2. pc \notin WithPlan /\ pc' \notin WithPlan /\ pc' \notin Planned
    BY <2>1 DEF WithPlan, Planned
  <2>3. (Measured' <=> Measured) /\ (Supported' <=> Supported)
    BY <2>1 DEF Measured, Supported
  <2> QED BY <2>1, <2>2, <2>3 DEF SelectionInv
<1> QED BY <1>1, <1>2

\* The questions of activation, the clock and the machines.
LEMMA SelectionRest ==
  ASSUME SelectionInv,
         \/ ActivateBegin \/ ActivateState \/ ActivateReport
         \/ Tick \/ (\E k \in {1, 2} : MachineChanges(k)) \/ Reroute \/ UNCHANGED vars
  PROVE  SelectionInv'
<1>1. CASE ActivateBegin \/ ActivateState \/ ActivateReport
  <2>1. /\ pc \in {"activate", "state", "report"} /\ pc' \in {"state", "report", "send", "refused"}
        /\ UNCHANGED <<in, bundle, plan>>
    BY <1>1 DEF ActivateBegin, ActivateState, ActivateReport
  <2>2. pc \in WithPlan /\ pc' \in WithPlan /\ pc \in Planned
    BY <2>1 DEF WithPlan, Planned
  <2> QED BY <2>1, <2>2, SelectionFrame
<1>2. CASE Tick \/ (\E k \in {1, 2} : MachineChanges(k)) \/ Reroute \/ UNCHANGED vars
  <2>1. UNCHANGED <<in, bundle, plan, pc, accepted>>
    BY <1>2 DEF Tick, MachineChanges, Reroute, vars
  <2> QED BY <2>1, SelectionFrame
<1> QED BY <1>1, <1>2

\* The inputs are planned with as they are.
LEMMA SelectionInvariant == Spec => []SelectionInv
<1>1. Init => SelectionInv
  BY DEF Init, SelectionInv, WithPlan, Planned, Measured
<1>2. ASSUME PlacementInv, SelectionInv, [Next]_vars
      PROVE  SelectionInv'
  <2>1. FlowInv
    BY <1>2 DEF PlacementInv
  <2> QED BY <1>2, <2>1, SelectionPlan, SelectionSend, SelectionProfiles, SelectionLink, SelectionBundle,
             SelectionRest DEF Next
<1> QED BY <1>1, <1>2, PlacementInvariant, PTL DEF Spec

\* The plan does not depend on the order in which the workers are configured, whatever
\* the scores are: there is one best placement, since no two of them agree in score and
\* identifier, and nothing else of the plan is read off the list (planner.py, create_plan).
THEOREM PlanIgnoresWorkerOrder == Spec => []PlanIsIndependentOfWorkerOrder
<1>1. ASSUME SelectionInv
      PROVE  PlanIsIndependentOfWorkerOrder
  <2>1. WellFormed(in)
    BY <1>1, InputAssumption DEF SelectionInv
  <2>2. create_plan(Turned(in), bundle, Evaluations(bundle)).plan
          = create_plan(in, bundle, Evaluations(bundle)).plan
    BY <2>1, TurnedPlan
  <2>3. pc \in {"send", "activate", "unplanned"} => plan = create_plan(in, bundle, Evaluations(bundle)).plan
    BY <1>1 DEF SelectionInv, WithPlan, Planned
  <2> QED BY <2>2, <2>3 DEF PlanIsIndependentOfWorkerOrder, Turned
<1> QED BY <1>1, SelectionInvariant, PTL

\* The worker accepts what the planner signs, for every well formed input: the stages
\* partition the layers, plan and manifest survive the wire, every field the planner
\* hashes is hashed by the worker, and a measured plan that was sent is in the scope of a
\* sweep exactly if its workload caches what it serves; the workers accept every placement
\* of the sweep too (control_service.cpp, validate_plan; wire.py; sweep.py, placements).
THEOREM PlansAreAccepted == Spec => []WorkersAcceptPlan
<1>1. ASSUME SelectionInv
      PROVE  WorkersAcceptPlan
  <2>1. SUFFICES ASSUME plan # None
                 PROVE  WorkersAcceptPlan
    BY DEF WorkersAcceptPlan
  <2>2. WellFormed(in) /\ plan = create_plan(in, bundle, Evaluations(bundle)).plan
    BY <1>1, <2>1, InputAssumption DEF SelectionInv
  <2>3. PICK a \in {1, 2}, split \in Splits(in) :
          /\ IsPlacementPlan(plan, in, Worker(a).id, Worker(3 - a).id, split)
          /\ plan.mode = in.settings.mode /\ plan.activation = in.workload.activation
          /\ Measured => /\ plan.workload_digest = in.workload /\ plan.bundle_digest = bundle
                         /\ evaluate(bundle, plan.stages).reasons = {}
    BY <2>1, <2>2, PlanOfTwoWorkers
  <2>4. validate_partition(plan)
    BY <2>2, <2>3, PlanIsPartition
  <2>5. deployment_plan_from_proto(deployment_plan_to_proto(plan)) = plan
    <3>1. plan.schema \in {"1.0", "1.1", "1.2"} /\ DOMAIN plan = PlanRecord /\ plan = [f \in DOMAIN plan |-> plan[f]]
      BY <2>3 DEF IsPlacementPlan
    <3> QED BY <3>1, PlanSurvives
  <2>6. model_manifest_from_proto(model_manifest_to_proto(in.manifest)) = in.manifest
    BY <2>2, ManifestSurvives DEF WellFormed
  <2>7. pc = "sent" /\ plan.activation = "F16" => accepted = <<TRUE, TRUE>>
    BY <1>1 DEF SelectionInv
  <2>8. Refusal(in, bundle) = None
    BY <2>1, <2>2, PlanOfTheBest
  <2>9. /\ Len(in.workers) = 2 /\ in.workers[1].id # in.workers[2].id /\ \A k \in {1, 2} : Suits(Worker(k), in)
        /\ Measured => in.settings.execution = in.workload.kv
    BY <2>8, NotRefused DEF Worker, Measured
  <2>10. /\ plan.manifest = in.manifest.digest /\ plan.execution = in.settings.execution
         /\ plan.weight = in.settings.weight
         /\ plan.duplicated = IF in.manifest.tied THEN {"token_embeddings"} ELSE {}
         /\ plan.mode = "measured" => plan.plan_digest = model_dump(plan)
         /\ plan.stages = assignments_for(Worker(a).id, Worker(3 - a).id, split, in.manifest.layers)
    BY <2>3 DEF IsPlacementPlan
  <2>11. /\ Len(plan.stages) = 2
         /\ plan.stages[1].worker = Worker(a).id /\ plan.stages[2].worker = Worker(3 - a).id
    BY <2>10, Assignments
  <2>12. pc = "sent" /\ Measured => Supported
    BY <1>1 DEF SelectionInv
  <2>13. pc = "sent" /\ Measured =>
           (scope(plan, in, bundle) <=> in.workload.cached = in.workload.prompt + in.workload.output)
    BY <2>3, <2>9, <2>10, <2>11, <2>12 DEF scope, Supported, Measured
  <2>14. ASSUME pc = "sent", Measured, NEW p \in placements(plan, in)
         PROVE  /\ validate_partition(p)
                /\ \A k, i \in {1, 2} : Worker(i).id = p.stages[k].worker => Accepts(p, Worker(i), k)
    <3>1. PICK first, final : first = Worker(a).id /\ final = Worker(3 - a).id /\ first # final
      <4>1. Worker(a).id # Worker(3 - a).id
        BY <2>9 DEF Worker
      <4> QED BY <4>1
    <3>2. PICK cut \in Splits(in) : \/ p = placement(plan, in, first, final, cut)
                                    \/ p = placement(plan, in, final, first, cut)
      BY <2>11, <2>14, <3>1, SweepPlacements
    <3>3. PICK one, two : /\ one # two /\ p = placement(plan, in, one, two, cut)
                           /\ one \in {Worker(1).id, Worker(2).id} /\ two \in {Worker(1).id, Worker(2).id}
      BY <3>1, <3>2
    <3>4. IsPlacementPlan(p, in, one, two, cut) /\ p.activation = plan.activation
      BY <2>2, <2>10, <3>2, <3>3, SweepIsPlacement
    <3>5. validate_partition(p)
      BY <2>2, <3>4, PlanIsPartition
    <3>6. ASSUME NEW k \in {1, 2}, NEW i \in {1, 2}, Worker(i).id = p.stages[k].worker
          PROVE  Accepts(p, Worker(i), k)
      <4>1. PICK w : w = Worker(i)
        OBVIOUS
      <4>2. Suits(w, in) /\ p.stages[k].worker = w.id /\ p.activation = "F16"
        BY <2>3, <2>9, <2>12, <2>14, <3>4, <3>6, <4>1 DEF Supported
      <4>3. Endpoints[one] # Endpoints[two]
        BY <2>2, <2>9, <3>3, EndpointsDiffer DEF Worker
      <4>4. Accepts(p, w, k)
        BY <2>2, <3>4, <4>2, <4>3, WorkerAccepts DEF Accepts
      <4> QED BY <4>1, <4>4
    <3> QED BY <3>5, <3>6
  <2> QED BY <2>4, <2>5, <2>6, <2>7, <2>13, <2>14 DEF WorkersAcceptPlan
<1> QED BY <1>1, SelectionInvariant, PTL

-----------------------------------------------------------------------------
(* What a refusal means *)

\* No machine has changed yet.
Pristine == \A k \in {1, 2} : world[k] = Untouched

\* The snapshot of a machine that has not changed.
AsStarted(e) ==
  /\ e.runtime = [device |-> 0, driver |-> 0, binary |-> 0] /\ e.host.available = 150
  /\ e.device # None => e.device.available = 200

Bundled == {"plan"} \cup Planned

\* Nothing was measured later than now.
ClockInv ==
  /\ (\A p \in profiles : p.at <= now) /\ link.at <= now
  /\ pc \in {"path", "snapshot", "seal"} => setup <= now
  /\ pc \in {"setup", "path", "snapshot", "seal"} => link.artifact.at = link.at

\* The bundle is that of the inputs and of the measurements.
SealedInv ==
  Measured /\ pc \in Bundled =>
    /\ bundle.manifest = in.manifest.digest /\ bundle.workload = in.workload
    /\ bundle.setup = setup /\ bundle.link.at = link.at
    /\ bundle.setup <= now /\ bundle.at <= now /\ \A p \in bundle.profiles : p.at <= now

\* As long as no machine has changed, the snapshots are of such machines.
StartedInv ==
  Pristine =>
    /\ \A i \in DOMAIN evidence : AsStarted(evidence[i])
    /\ Measured /\ pc \in Bundled => AsStarted(bundle.workers[1]) /\ AsStarted(bundle.workers[2])

ReasonInv ==
  /\ pc \in {"activate", "state", "report"} => Measured
  /\ ClockInv /\ SealedInv /\ StartedInv /\ RefusedForAReason

\* Neither the measurements nor the bundle change, the clock may go on, and a machine
\* may have changed.
LEMMA ReasonFrame ==
  ASSUME PlacementInv, ReasonInv, UNCHANGED <<in, profiles, setup, evidence, bundle>>,
         link'.at = link.at, now' \in Nat, now <= now', world' = world \/ ~Pristine',
         pc' \in {"activate", "state", "report"} => Measured,
         pc' \in {"path", "snapshot", "seal"} => pc \in {"path", "snapshot", "seal"},
         pc' \in {"setup", "path", "snapshot", "seal"} =>
           pc \in {"setup", "path", "snapshot", "seal"} /\ link'.artifact = link.artifact,
         Measured /\ pc' \in Bundled => pc \in Bundled,
         RefusedForAReason'
  PROVE  ReasonInv'
<1>0. Counters /\ LinkInv /\ FlowInv /\ ActivationInv
  BY DEF PlacementInv
<1>1. now \in Nat /\ (Measured' <=> Measured)
  BY ClockIsNat, <1>0 DEF Measured
<1>2. ClockInv'
  <2>1. \A p \in profiles : p.at \in Nat
    BY <1>0 DEF ActivationInv, ProfileFacts
  <2>2. link.at \in Nat
    BY <1>0 DEF LinkInv
  <2>3. pc \in {"path", "snapshot", "seal"} => setup \in Nat
    BY <1>0 DEF FlowInv
  <2> QED BY <1>1, <2>1, <2>2, <2>3 DEF ReasonInv, ClockInv
<1>3. SealedInv'
  <2>1. SUFFICES ASSUME Measured, pc \in Bundled
                 PROVE  SealedInv'
    BY <1>1 DEF SealedInv
  <2>2. BundleFacts
    BY <1>0, <2>1 DEF ActivationInv, Bundled
  <2>3. bundle.setup \in Nat /\ bundle.at \in Nat /\ \A p \in bundle.profiles : p.at \in Nat
    BY <2>2 DEF BundleFacts, ProfileFacts
  <2> QED BY <1>1, <2>1, <2>3 DEF ReasonInv, SealedInv
<1>4. StartedInv'
  <2>1. Pristine' => Pristine
    BY DEF Pristine
  <2> QED BY <1>1, <2>1 DEF ReasonInv, StartedInv, AsStarted
<1> QED BY <1>1, <1>2, <1>3, <1>4 DEF ReasonInv

\* A step before the bundle is sealed.
LEMMA ReasonEarly ==
  ASSUME ReasonInv, UNCHANGED <<world, evidence>>, pc' \notin Bundled \cup {"refused"}, ClockInv'
  PROVE  ReasonInv'
<1>1. pc' \notin {"activate", "state", "report"} /\ pc' # "refused" /\ pc' \notin Bundled
  BY DEF Bundled, Planned
<1>2. StartedInv'
  BY <1>1 DEF ReasonInv, StartedInv, Pristine, AsStarted
<1> QED BY <1>1, <1>2 DEF ReasonInv, SealedInv, RefusedForAReason

\* A profile is of now; the link run begins now, and its artifact says when; setup is
\* measured now.
LEMMA ReasonMeasuring ==
  ASSUME PlacementInv, ReasonInv,
         \/ \E kind \in {"memory", "compute"}, completed \in BOOLEAN : Profile(kind, completed)
         \/ ProfileAgain \/ ProfileRefused \/ LinkBegin \/ LinkSeal \/ MeasureSetup \/ SnapshotPath
  PROVE  ReasonInv'
<1>0. Counters /\ LinkInv /\ FlowInv /\ ActivationInv /\ now \in Nat /\ ClockInv
  BY ClockIsNat DEF PlacementInv, ReasonInv
<1>1. ASSUME NEW p, p.at = now, profiles' = profiles \cup {p}, UNCHANGED <<world, evidence, now, link>>,
             pc' \in {"memory", "compute", "link"}
      PROVE  ReasonInv'
  <2>1. ClockInv'
    BY <1>0, <1>1 DEF ClockInv
  <2> QED BY <1>1, <2>1, ReasonEarly DEF Bundled, Planned
<1>2. ASSUME NEW kind \in {"memory", "compute"}, NEW completed \in BOOLEAN, Profile(kind, completed)
      PROVE  ReasonInv'
  <2>1. /\ pc' \in {"memory", "compute", "link"} /\ UNCHANGED <<world, evidence, now, link>>
        /\ \E p : p.at = now /\ profiles' = profiles \cup {p}
    BY <1>2 DEF Profile, run_profile
  <2> QED BY <2>1, <1>1
<1>3. CASE ProfileAgain
  <2>1. /\ pc' \in {"memory", "compute", "link"} /\ UNCHANGED <<world, evidence, now, link>>
        /\ \E p : p.at = now /\ profiles' = profiles \cup {p}
    BY <1>3 DEF ProfileAgain, run_profile
  <2> QED BY <2>1, <1>1
<1>4. CASE ProfileRefused
  <2>1. pc' = "abandoned" /\ UNCHANGED <<world, evidence, now, link, profiles>>
    BY <1>4 DEF ProfileRefused
  <2>2. ClockInv'
    BY <1>0, <2>1 DEF ClockInv
  <2> QED BY <2>1, <2>2, ReasonEarly DEF Bundled, Planned
<1>5. CASE LinkBegin
  <2>1. pc = "link" /\ pc' = "link" /\ UNCHANGED <<world, evidence, now, profiles>> /\ link'.at = now
    BY <1>0, <1>5 DEF LinkBegin, LinkUnchanged, LinkInv, LinkFields
  <2>2. ClockInv'
    BY <1>0, <2>1 DEF ClockInv
  <2> QED BY <2>1, <2>2, ReasonEarly DEF Bundled, Planned
<1>6. CASE LinkSeal
  <2>1. /\ UNCHANGED <<world, evidence, now, profiles>> /\ link'.at = link.at
        /\ pc' = "abandoned" \/ (pc' = "setup" /\ link'.artifact.at = link.at)
    BY <1>0, <1>6 DEF LinkSeal, LinkUnchanged, LinkInv, LinkFields
  <2>2. ClockInv'
    BY <1>0, <2>1 DEF ClockInv
  <2> QED BY <2>1, <2>2, ReasonEarly DEF Bundled, Planned
<1>7. CASE MeasureSetup \/ SnapshotPath
  <2>1. /\ UNCHANGED <<world, evidence, now, profiles, link>> /\ pc' \in {"path", "snapshot"}
        /\ pc \in {"setup", "path"} /\ (setup' = now \/ (pc = "path" /\ setup' = setup))
    BY <1>7 DEF MeasureSetup, SnapshotPath
  <2>2. ClockInv'
    BY <1>0, <2>1 DEF ClockInv
  <2> QED BY <2>1, <2>2, ReasonEarly DEF Bundled, Planned
<1> QED BY <1>2, <1>3, <1>4, <1>5, <1>6, <1>7

\* The other steps of the link run and of its monitor thread, which may come late.
LEMMA ReasonLink ==
  ASSUME PlacementInv, ReasonInv,
         \/ MonitorReads \/ MonitorAppends \/ LinkReply(TRUE) \/ LinkReply(FALSE)
         \/ LinkObserveAfter \/ LinkDecide
  PROVE  ReasonInv'
<1>0. Counters /\ LinkInv /\ now \in Nat
  BY ClockIsNat DEF PlacementInv
<1>1. /\ UNCHANGED <<in, now, world, profiles, setup, evidence, bundle, asOf, pc>>
      /\ link'.at = link.at /\ link'.artifact = link.artifact
  <2>1. CASE MonitorReads
    BY <1>0, <2>1 DEF MonitorReads, LinkInv, LinkFields, LinkUnchanged
  <2>2. CASE MonitorAppends
    BY <1>0, <2>2 DEF MonitorAppends, LinkInv, LinkFields, LinkUnchanged
  <2>3. CASE LinkReply(TRUE) \/ LinkReply(FALSE)
    BY <1>0, <2>3 DEF LinkReply, LinkInv, LinkFields, LinkUnchanged
  <2>4. CASE LinkObserveAfter
    BY <1>0, <2>4 DEF LinkObserveAfter, LinkInv, LinkFields, LinkUnchanged
  <2>5. CASE LinkDecide
    BY <1>0, <2>5 DEF LinkDecide, LinkInv, LinkFields, LinkUnchanged
  <2> QED BY <2>1, <2>2, <2>3, <2>4, <2>5
<1>2. RefusedForAReason'
  BY <1>1 DEF ReasonInv, RefusedForAReason
<1>3. now <= now' /\ (pc' \in {"activate", "state", "report"} => Measured)
  BY <1>0, <1>1 DEF ReasonInv
<1> QED BY <1>0, <1>1, <1>2, <1>3, ReasonFrame

\* A snapshot is of the machine as it is; the bundle takes what was measured.
LEMMA ReasonBundle ==
  ASSUME PlacementInv, ReasonInv, SnapshotWorker \/ Seal
  PROVE  ReasonInv'
<1>0. /\ Counters /\ LinkInv /\ FlowInv /\ ActivationInv /\ now \in Nat /\ stage \in {1, 2}
      /\ ClockInv /\ StartedInv
  BY ClockIsNat DEF PlacementInv, ReasonInv, Counters
<1>1. CASE SnapshotWorker
  <2>1. /\ UNCHANGED <<world, now, profiles, link, setup>> /\ pc = "snapshot" /\ pc' \in {"snapshot", "seal"}
        /\ evidence' = Append(evidence, WorkerEvidence(stage))
    BY <1>1 DEF SnapshotWorker
  <2>2. ClockInv'
    BY <1>0, <2>1 DEF ClockInv
  <2>3. Pristine => AsStarted(WorkerEvidence(stage))
    <3>1. world[stage] = Untouched => AsStarted(WorkerEvidence(stage))
      BY DEF AsStarted, WorkerEvidence, HostBudget, DeviceBudget, host_available_bytes, Untouched
    <3> QED BY <1>0, <3>1 DEF Pristine
  <2>4. Pristine => \A i \in DOMAIN evidence' : AsStarted(evidence'[i])
    <3>1. PICK e : e = WorkerEvidence(stage)
      OBVIOUS
    <3>2. evidence = << >> \/ evidence = <<evidence[1]>>
      BY <1>0, <2>1 DEF FlowInv, OneSnapshot
    <3>3. \A i \in DOMAIN evidence' : evidence'[i] = e \/ (i \in DOMAIN evidence /\ evidence'[i] = evidence[i])
      <4>1. CASE evidence = << >>
        <5>1. evidence' = <<e>>
          BY <2>1, <3>1, <4>1
        <5> QED BY <5>1
      <4>2. CASE evidence = <<evidence[1]>>
        <5>1. PICK d : evidence = <<d>>
          BY <4>2
        <5>2. evidence' = <<d, e>>
          BY <2>1, <3>1, <5>1, AppendSecond
        <5> QED BY <5>1, <5>2
      <4> QED BY <3>2, <4>1, <4>2
    <3> QED BY <1>0, <2>3, <3>1, <3>3 DEF StartedInv
  <2>5. pc' \notin Bundled /\ pc' # "refused" /\ pc' \notin {"activate", "state", "report"} /\ (Pristine' <=> Pristine)
    BY <2>1 DEF Bundled, Planned, Pristine
  <2>6. StartedInv'
    BY <2>4, <2>5 DEF StartedInv, AsStarted
  <2> QED BY <2>2, <2>5, <2>6 DEF ReasonInv, SealedInv, RefusedForAReason
<1>2. CASE Seal /\ pc' = "abandoned"
  <2>1. UNCHANGED <<world, evidence, now, profiles, link>>
    BY <1>2 DEF Seal
  <2>2. ClockInv'
    BY <1>0, <1>2, <2>1 DEF ClockInv
  <2> QED BY <1>2, <2>1, <2>2, ReasonEarly DEF Bundled, Planned
<1>3. CASE Seal /\ pc' # "abandoned"
  <2>1. /\ UNCHANGED <<in, world, evidence, now, profiles, link, setup>> /\ pc = "seal" /\ pc' = "plan"
        /\ bundle' = [manifest |-> in.manifest.digest, workload |-> in.workload,
                      workers |-> evidence, profiles |-> profiles, link |-> link.artifact,
                      setup |-> setup, path |-> path, at |-> now, load |-> "idle"]
    BY <1>3 DEF Seal
  <2>2. /\ bundle'.manifest = in.manifest.digest /\ bundle'.workload = in.workload
        /\ bundle'.workers = evidence /\ bundle'.profiles = profiles /\ bundle'.link = link.artifact
        /\ bundle'.setup = setup /\ bundle'.at = now
    BY <2>1
  <2>3. ClockInv'
    BY <1>0, <2>1 DEF ClockInv
  <2>4. SealedInv'
    BY <1>0, <2>1, <2>2 DEF SealedInv, ClockInv
  <2>5. DOMAIN evidence = {1, 2}
    BY <1>0, <2>1 DEF FlowInv, TwoSnapshots
  <2>6. StartedInv'
    BY <1>0, <2>1, <2>2, <2>5 DEF StartedInv, Pristine, AsStarted
  <2> QED BY <2>1, <2>3, <2>4, <2>6 DEF ReasonInv, RefusedForAReason
<1> QED BY <1>1, <1>2, <1>3

\* Nothing is stale, and no profile has a second one.
NotAged(t) ==
  \A at \in {p.at : p \in bundle.profiles} \cup {link.at, setup, bundle.at} : ~(t - at > ProfileAge)
NoSecondProfile ==
  \A p, q \in bundle.profiles : p.kind = q.kind /\ p.assignment = q.assignment => p = q

\* The plan that is activated: of the inputs and the bundle, and with nothing against it.
LEMMA ActivatedPlan ==
  ASSUME PlacementInv, SelectionInv, ReasonInv, pc \in {"activate", "state", "report"}
  PROVE  /\ Measured /\ BundleFacts /\ PlanFacts
         /\ plan.mode = "measured" /\ plan.bundle_digest = bundle /\ plan.workload_digest = in.workload
         /\ plan.manifest = in.manifest.digest /\ plan.execution = in.workload.kv
         /\ plan.activation = in.workload.activation /\ plan.plan_digest = model_dump(plan)
         /\ Len(plan.stages) = 2 /\ plan.stages[2].end = in.manifest.layers
         /\ evaluate(bundle, plan.stages).status = "measured"
         /\ \A k \in {1, 2} : /\ plan.stages[k] = Stages[k]
                               /\ WorkerReasons(bundle, bundle.workers[k], Stages[k]) = {}
<1>1. Measured /\ BundleFacts /\ PlanFacts
  BY DEF ReasonInv, PlacementInv, ActivationInv, Planned
<1>2. WellFormed(in) /\ plan = create_plan(in, bundle, Evaluations(bundle)).plan /\ plan # None
  BY InputAssumption DEF SelectionInv, WithPlan, Planned
<1>3. PICK a \in {1, 2}, split \in Splits(in) :
        /\ IsPlacementPlan(plan, in, Worker(a).id, Worker(3 - a).id, split)
        /\ plan.mode = in.settings.mode /\ plan.activation = in.workload.activation
        /\ Measured => /\ plan.workload_digest = in.workload /\ plan.bundle_digest = bundle
                       /\ evaluate(bundle, plan.stages).reasons = {}
  BY <1>2, PlanOfTwoWorkers
<1>4. Refusal(in, bundle) = None
  BY <1>2, PlanOfTheBest
<1>5. in.settings.execution = in.workload.kv
  BY <1>1, <1>4, NotRefused DEF Measured
<1>6. /\ plan.mode = "measured" /\ plan.manifest = in.manifest.digest
      /\ plan.execution = in.settings.execution /\ plan.plan_digest = model_dump(plan)
      /\ plan.stages = assignments_for(Worker(a).id, Worker(3 - a).id, split, in.manifest.layers)
  BY <1>1, <1>3 DEF IsPlacementPlan, Measured
<1>7. Len(plan.stages) = 2 /\ plan.stages[2].end = in.manifest.layers
  <2>1. PICK s : s = plan.stages
    OBVIOUS
  <2>2. Len(s) = 2 /\ s[2].end = in.manifest.layers
    BY <1>6, <2>1 DEF assignments_for
  <2> QED BY <2>1, <2>2
<1>8. evaluate(bundle, plan.stages).status = "measured"
  <2>1. PICK reasons : evaluate(bundle, plan.stages) = Evaluation(reasons)
    BY DEF evaluate
  <2> QED BY <1>1, <1>3, <2>1, EvaluatedTimes
<1> QED BY <1>1, <1>3, <1>5, <1>6, <1>7, <1>8, MeasuredPlan

\* Without the clock, no reason to refuse the plan before a worker is asked.
LEMMA StaticChecksHold ==
  ASSUME PlacementInv, SelectionInv, ReasonInv, pc = "activate", NotAged(now)
  PROVE  StaticChecks(plan, bundle, now)
<1>1. /\ Measured /\ BundleFacts
      /\ plan.mode = "measured" /\ plan.bundle_digest = bundle /\ plan.workload_digest = in.workload
      /\ plan.manifest = in.manifest.digest /\ plan.execution = in.workload.kv
      /\ plan.activation = in.workload.activation /\ plan.plan_digest = model_dump(plan)
      /\ Len(plan.stages) = 2 /\ plan.stages[2].end = in.manifest.layers
      /\ evaluate(bundle, plan.stages).status = "measured"
  BY ActivatedPlan
<1>2. /\ bundle.manifest = in.manifest.digest /\ bundle.workload = in.workload
      /\ bundle.setup = setup /\ bundle.link.at = link.at
      /\ bundle.setup <= now /\ bundle.at <= now /\ \A p \in bundle.profiles : p.at <= now
  BY <1>1 DEF ReasonInv, SealedInv, Bundled, Planned
<1>3. now \in Nat /\ link.at <= now /\ ProfileAge \in Nat
  BY ClockIsNat, PlacementAssumption DEF PlacementInv, ReasonInv, ClockInv
<1>4. /\ bundle.at \in Nat /\ bundle.setup \in Nat /\ bundle.link.at \in Nat
      /\ \A p \in bundle.profiles : p.at \in Nat
  BY <1>1 DEF BundleFacts, ProfileFacts
<1>5. \A at \in Nat : at <= now /\ ~(now - at > ProfileAge) => Fresh(at, now, ProfileAge)
  BY <1>3 DEF Fresh
<1>6. /\ ~(now - bundle.at > ProfileAge) /\ ~(now - bundle.setup > ProfileAge)
      /\ ~(now - bundle.link.at > ProfileAge)
      /\ \A p \in bundle.profiles : ~(now - p.at > ProfileAge)
  BY <1>2 DEF NotAged
<1>7. /\ Fresh(bundle.at, now, ProfileAge) /\ Fresh(bundle.link.at, now, ProfileAge)
      /\ Fresh(bundle.setup, now, ProfileAge)
      /\ \A q \in bundle.profiles : Fresh(q.at, now, ProfileAge)
  BY <1>2, <1>3, <1>4, <1>5, <1>6
<1> QED BY <1>1, <1>2, <1>7 DEF StaticChecks

\* Nor is there one in the answer of a worker whose machine has not changed.
LEMMA QualificationIsKept ==
  ASSUME BundleFacts, PlanFacts, BundleHistory, Evaluated, NEW k \in {1, 2},
         WorkerReasons(bundle, bundle.workers[k], Stages[k]) = {},
         world[k] = Untouched, AsStarted(bundle.workers[k]), NoSecondProfile
  PROVE  QualificationHolds(k, world[k])
<1>1. PICK e : e = bundle.workers[k]
  OBVIOUS
<1>2. EvidenceFor(k) = e /\ plan.stages[k] = Stages[k]
  BY <1>1, AskedWorker DEF Evaluated
<1>3. /\ Describes(e, bundle.profiles, k) /\ e.runtime = [device |-> 0, driver |-> 0, binary |-> 0]
      /\ e.host.available = 150 /\ (e.device # None => e.device.available = 200)
  BY <1>1 DEF BundleHistory, AsStarted
<1>4. /\ world[k].device = 0 /\ world[k].driver = 0 /\ world[k].binary = 0 /\ world[k].free = 150
      /\ world[k].room = 200 /\ world[k].configured
  BY DEF Untouched
<1>5. e.compute.device = 0
  <2>1. PICK c \in bundle.profiles : c.assignment = Stages[k] /\ e.compute = c.env
    BY <1>3 DEF Describes, Idle
  <2>2. c.env.device \in {0, 1} /\ c.env.device <= world[k].device
    BY <2>1 DEF BundleHistory, HistoryOf
  <2> QED BY <1>4, <2>1, <2>2
<1>6. /\ Cardinality(Matches(bundle, e, Stages[k], "memory")) = 1
      /\ \A p \in Matches(bundle, e, Stages[k], "memory") :
           assess_fit(Artifact(p), e.capacity, e.host, e.device, "footprint-v1") = "safe"
  BY <1>1, NoWorkerReason
<1>7. PICK m \in Matches(bundle, e, Stages[k], "memory") : TRUE
  BY <1>6, OnlyElement
<1>8. /\ m \in bundle.profiles /\ m.kind = "memory" /\ m.assignment = Stages[k] /\ m.env = e.memory
  BY <1>7 DEF Matches
<1>9. ActivationProfiles(bundle, e, Stages[k]) = {m}
  BY <1>8 DEF ActivationProfiles, NoSecondProfile
<1>10. Cardinality({m}) = 1
  BY FS_Singleton
<1>11. [e.host EXCEPT !.available = 150] = e.host
  <2>1. PICK h : h = e.host
    OBVIOUS
  <2>2. IsBudget(h) /\ h.available = 150
    BY <1>3, <2>1 DEF Describes
  <2>3. [h EXCEPT !.available = 150] = h
    BY <2>2 DEF IsBudget
  <2> QED BY <2>1, <2>3
<1>12. (IF e.device = None THEN None ELSE [e.device EXCEPT !.available = 200]) = e.device
  <2>1. PICK d : d = e.device
    OBVIOUS
  <2>2. d # None => IsBudget(d) /\ d.available = 200
    BY <1>3, <2>1 DEF Describes
  <2>3. d # None => [d EXCEPT !.available = 200] = d
    BY <2>2 DEF IsBudget
  <2> QED BY <2>1, <2>3
<1>13. assess_fit(Artifact(m), e.capacity, e.host, e.device, "footprint-v1") = "safe"
  BY <1>6, <1>7
<1> QED BY <1>2, <1>3, <1>4, <1>5, <1>9, <1>10, <1>11, <1>12, <1>13 DEF QualificationHolds

\* What is a reason to refuse.
LEMMA ReasonsToRefuse ==
  ASSUME UNCHANGED <<bundle, setup, world, link>>,
         ~Pristine \/ ~NoSecondProfile \/ ~NotAged(asOf')
  PROVE  RefusedForAReason'
<1>1. CASE ~Pristine
  BY <1>1 DEF RefusedForAReason, Pristine, Untouched
<1>2. CASE ~NoSecondProfile
  BY <1>2 DEF RefusedForAReason, NoSecondProfile
<1>3. CASE ~NotAged(asOf')
  BY <1>3 DEF RefusedForAReason, NotAged
<1> QED BY <1>1, <1>2, <1>3

\* The planner, and the questions that activation asks.
LEMMA ReasonActivation ==
  ASSUME PlacementInv, MachineInv, SelectionInv, ReasonInv,
         Plan \/ ActivateBegin \/ ActivateState \/ ActivateReport \/ Send
  PROVE  ReasonInv'
<1>0. now \in Nat /\ stage \in {1, 2} /\ WorldInv
  BY ClockIsNat DEF PlacementInv, Counters, MachineInv
<1>1. UNCHANGED <<in, now, world, profiles, link, setup, evidence, bundle>>
  BY DEF Plan, ActivateBegin, ActivateState, ActivateReport, Send
<1>2. /\ pc \in {"plan", "activate", "state", "report", "send"}
      /\ pc' \in {"unplanned", "activate", "state", "report", "send", "sent", "refused"}
      /\ pc' \in {"activate", "state", "report"} => Measured
  <2>1. CASE Plan
    BY <2>1 DEF Plan
  <2>2. CASE ActivateBegin \/ ActivateState \/ ActivateReport
    BY <2>2 DEF ActivateBegin, ActivateState, ActivateReport, ReasonInv
  <2>3. CASE Send
    BY <2>3 DEF Send
  <2> QED BY <2>1, <2>2, <2>3
<1>3. RefusedForAReason'
  <2>1. SUFFICES ASSUME pc' = "refused", Pristine, NoSecondProfile, NotAged(asOf')
                 PROVE  FALSE
    BY <1>1, ReasonsToRefuse DEF RefusedForAReason
  <2>2. CASE ActivateBegin
    <3>1. pc = "activate" /\ asOf' = now /\ ~StaticChecks(plan, bundle, now)
      BY <2>1, <2>2 DEF ActivateBegin
    <3> QED BY <2>1, <3>1, StaticChecksHold
  <2>3. ASSUME pc \in {"state", "report"}
        PROVE  /\ BundleFacts /\ PlanFacts /\ BundleHistory /\ Evaluated /\ At(stage) = stage
               /\ WorkerReasons(bundle, bundle.workers[stage], Stages[stage]) = {}
               /\ world[stage] = Untouched /\ AsStarted(bundle.workers[stage])
    <3>1. /\ Measured /\ BundleFacts /\ PlanFacts
          /\ WorkerReasons(bundle, bundle.workers[stage], Stages[stage]) = {}
      BY <1>0, <2>3, ActivatedPlan
    <3>2. BundleHistory /\ Evaluated
      BY <2>3, <3>1 DEF MachineInv, AnswersInv, Planned
    <3>3. At(stage) = stage
      BY <1>0, <3>1, <3>2, AskedWorker
    <3>4. AsStarted(bundle.workers[1]) /\ AsStarted(bundle.workers[2])
      BY <2>1, <2>3, <3>1 DEF ReasonInv, StartedInv, Bundled, Planned
    <3>5. world[stage] = Untouched /\ AsStarted(bundle.workers[stage])
      BY <1>0, <2>1, <3>4 DEF Pristine
    <3> QED BY <3>1, <3>2, <3>3, <3>5
  <2>4. CASE ActivateState
    <3>1. pc = "state" /\ ~QualificationHolds(stage, world[At(stage)])
      BY <2>1, <2>4 DEF ActivateState
    <3>2. QualificationHolds(stage, world[stage])
      BY <1>0, <2>1, <2>3, <3>1, QualificationIsKept
    <3> QED BY <2>3, <3>1, <3>2
  <2>5. CASE ActivateReport
    <3>1. pc = "report" /\ world[At(stage)].loaded
      BY <2>1, <2>5 DEF ActivateReport
    <3>2. world[At(stage)] = Untouched
      BY <2>3, <3>1
    <3>3. Untouched.loaded = FALSE
      BY DEF Untouched
    <3> QED BY <3>1, <3>2, <3>3
  <2>6. CASE Plan \/ Send
    BY <2>1, <2>6 DEF Plan, Send
  <2> QED BY <2>2, <2>4, <2>5, <2>6
<1>4. pc \in Bundled /\ now <= now' /\ now' \in Nat /\ link'.at = link.at
  BY <1>0, <1>1, <1>2 DEF Bundled, Planned
<1> QED BY <1>1, <1>2, <1>3, <1>4, ReasonFrame

\* A machine that changed is no longer as it was at the start.
LEMMA ChangeIsSeen ==
  ASSUME WorldInv, NEW k \in {1, 2}, MachineChanges(k)
  PROVE  world'[k] # Untouched
<1> DEFINE w == world[k]
<1>1. DOMAIN world = {1, 2} /\ w \in Machines
  BY DEF WorldInv
<1>2. PICK v \in Changed(w) : world' = [world EXCEPT ![k] = v]
  BY OneChange
<1>3. world'[k] = v
  BY <1>1, <1>2
<1>4. None # 150 /\ None # 200
  <2>1. None \notin Int
    BY PlannerAssumption
  <2>2. 150 \in Int /\ 200 \in Int
    OBVIOUS
  <2> QED BY <2>1, <2>2
<1>5. \/ v.device = 1 \/ v.release = 1 \/ v.binary = 1 \/ v.helper = 1
      \/ v.free = 90 \/ v.free = None \/ v.loaded = TRUE
      \/ v.room = 90 \/ v.room = None \/ v.configured = FALSE
  <2>1. CASE v = [w EXCEPT !.device = 1] \/ v = [w EXCEPT !.release = 1]
    BY <1>1, <2>1 DEF Machines
  <2>2. CASE v = [w EXCEPT !.driver = 1, !.release = 1]
    BY <1>1, <2>2 DEF Machines
  <2>3. CASE v = [w EXCEPT !.binary = 1] \/ v = [w EXCEPT !.helper = 1]
    BY <1>1, <2>3 DEF Machines
  <2>4. CASE v = [w EXCEPT !.free = 90] \/ v = [w EXCEPT !.free = None]
    BY <1>1, <2>4 DEF Machines
  <2>5. CASE v = [w EXCEPT !.loaded = TRUE] \/ v = [w EXCEPT !.configured = FALSE]
    BY <1>1, <2>5 DEF Machines
  <2>6. CASE v = [w EXCEPT !.room = 90] \/ v = [w EXCEPT !.room = None]
    BY <1>1, <2>6 DEF Machines
  <2> QED BY <1>2, <2>1, <2>2, <2>3, <2>4, <2>5, <2>6 DEF Changed
<1> QED BY <1>3, <1>4, <1>5 DEF Untouched

\* The clock, the machines and the path.
LEMMA ReasonWorld ==
  ASSUME PlacementInv, MachineInv, ReasonInv,
         Tick \/ (\E k \in {1, 2} : MachineChanges(k)) \/ Reroute \/ UNCHANGED vars
  PROVE  ReasonInv'
<1>0. now \in Nat /\ WorldInv
  BY ClockIsNat DEF PlacementInv, MachineInv
<1>1. /\ UNCHANGED <<in, profiles, setup, evidence, bundle, asOf, pc, link>>
      /\ now' \in {now, now + 1}
  BY DEF Tick, MachineChanges, Reroute, vars
<1>2. world' = world \/ ~Pristine'
  <2>1. CASE \E k \in {1, 2} : MachineChanges(k)
    <3>1. PICK k \in {1, 2} : MachineChanges(k)
      BY <2>1
    <3>2. world'[k] # Untouched
      BY <1>0, <3>1, ChangeIsSeen
    <3> QED BY <3>2 DEF Pristine
  <2>2. CASE Tick \/ Reroute \/ UNCHANGED vars
    BY <2>2 DEF Tick, Reroute, vars
  <2> QED BY <2>1, <2>2
<1>3. RefusedForAReason'
  <2>1. CASE pc = "refused"
    <3>1. world' = world
      BY <2>1 DEF Tick, MachineChanges, Reroute, vars, Between, Busy
    <3> QED BY <1>1, <3>1 DEF ReasonInv, RefusedForAReason
  <2>2. CASE pc # "refused"
    BY <1>1, <2>2 DEF RefusedForAReason
  <2> QED BY <2>1, <2>2
<1>4. now <= now' /\ now' \in Nat /\ (pc' \in {"activate", "state", "report"} => Measured)
  BY <1>0, <1>1 DEF ReasonInv
<1> QED BY <1>1, <1>2, <1>3, <1>4, ReasonFrame

\* Activation refuses a plan only if a machine has changed, the bundle holds two profiles
\* of one kind and stage, or part of the evidence was too old when the clock was read
\* (activation.py, validate_activation): the planner and the activation read the same
\* evidence the same way.
THEOREM RefusalsHaveReasons == Spec => []RefusedForAReason
<1>1. Init => ReasonInv
  <2> SUFFICES ASSUME Init
               PROVE  ReasonInv
    OBVIOUS
  <2>1. /\ pc \in {"memory", "plan"} /\ (pc = "plan" => ~Measured) /\ now = 0 /\ link.at = 0
        /\ profiles = {} /\ evidence = << >>
    BY DEF Init, Measured
  <2>2. DOMAIN evidence = {}
    BY <2>1
  <2> QED BY <2>1, <2>2 DEF ReasonInv, ClockInv, SealedInv, StartedInv, RefusedForAReason, Bundled, Planned
<1>2. ASSUME PlacementInv, MachineInv, SelectionInv, ReasonInv, [Next]_vars
      PROVE  ReasonInv'
  BY <1>2, ReasonMeasuring, ReasonLink, ReasonBundle, ReasonActivation, ReasonWorld DEF Next, LinkStep
<1>3. ReasonInv => RefusedForAReason
  BY DEF ReasonInv
<1>4. Spec => []MachineInv
  BY InitMachines, NextMachines, PlacementInvariant, PTL DEF Spec
<1> QED BY <1>1, <1>2, <1>3, <1>4, PlacementInvariant, SelectionInvariant, PTL DEF Spec
=============================================================================
