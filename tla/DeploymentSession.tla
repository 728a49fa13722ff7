------------------------- MODULE DeploymentSession --------------------------
(***************************************************************************)
(* Controllers that load a plan on the workers, generate, and unload it    *)
(* (python/hllm_control/controller.py).  Each session is one thread of     *)
(* blocking calls with a timeout; several sessions may turn to the same    *)
(* workers.  A worker knows a plan, not a session: the plan_id is a digest *)
(* of what the plan says and its deployment_version is always 1, so the    *)
(* sessions of one plan, run side by side or one after the other, cannot   *)
(* be told apart.                                                          *)
(*                                                                         *)
(* A call can fail with its request lost, with its reply lost, or by its   *)
(* timeout while the handler still waits on the worker: handlers do not    *)
(* look at their context, so the request then takes effect later.  Workers *)
(* can restart and lose their table.  What ControlService says of a table  *)
(* is reduced here to the loaded plan and the sessions with active         *)
(* requests.  CancelRequest only makes a worker retire sooner what it may  *)
(* retire at any time (NRetire), and is left out.                          *)
(***************************************************************************)
EXTENDS Integers, Sequences, FiniteSets

CONSTANTS
  Sessions,     \* the sessions
  Plans,        \* the plans, each a plan_id and a deployment_version
  Assignments,  \* which plans the sessions may have been given
  Measured,     \* those with a profile bundle, whose activation is validated
  StageCount,   \* stages of a plan; stage 0 is the driver
  MaxRestarts,  \* bound: how often a worker restarts with a plan loaded
  None

ASSUME SessionAssumption ==
  /\ Measured \subseteq Sessions /\ StageCount \in Nat \ {0} /\ None \notin Plans
  /\ MaxRestarts \in Nat /\ Assignments \subseteq [Sessions -> Plans]

Stages == 0..(StageCount - 1)

VARIABLES
  plan,        \* the plan each session was created with
  at,          \* where each session is
  index,       \* the stage it is checking or loading
  loaded,      \* _loaded; the part still to be unloaded once it is closing
  reply,       \* its outstanding call: "none", "waiting", or the answer
  overdue,     \* sessions that have tried for five seconds to unload a stage
  called,      \* sessions that have called Generate
  wire,        \* calls no worker has handled yet
  table,       \* the plan loaded on each worker, or None
  busy,        \* sessions with an active request on each worker
  restarted,   \* history: <<s, w>> when w restarted and s knew its plan on it
  restarts,    \* history: how often workers have restarted
  taken,       \* history: <<s, w>> when another session unloaded it from under s
  unsettled    \* history: sessions that left a stage without an answer to its unload, or
               \* whose unload was handled before their load

client == <<plan, at, index, loaded, reply, overdue, called>>
worker == <<table, busy>>
history == <<restarts, restarted, taken, unsettled>>
vars == <<client, wire, worker, history>>

Call(type, s, w) == [type |-> type, s |-> s, w |-> w, awaited |-> TRUE]

\* Mutation: the driver is loaded first.
FirstStageDriver == 0

\* Stages are loaded in the reverse of their order.
FirstStage == StageCount - 1

LastStage(s) == index[s] = 0

Init ==
  /\ plan \in Assignments
  /\ at = [s \in Sessions |-> "new"]
  /\ index = [s \in Sessions |-> 0]
  /\ loaded = [s \in Sessions |-> <<>>]
  /\ reply = [s \in Sessions |-> "none"]
  /\ overdue = {} /\ called = {} /\ wire = {}
  /\ table = [w \in Stages |-> None]
  /\ busy = [w \in Stages |-> {}]
  /\ restarts = 0 /\ restarted = {} /\ taken = {} /\ unsettled = {}

-----------------------------------------------------------------------------
(* __enter__ *)

Go(s, place) == at' = [at EXCEPT ![s] = place]

\* What it has lost is of interest only until it closes.
BeginClosing(s) ==
  /\ Go(s, "closing")
  /\ restarted' = {x \in restarted : x[1] # s}
  /\ taken' = {x \in taken : x[1] # s}

Enter(s) ==
  /\ at[s] = "new"
  /\ IF s \in Measured
     THEN Go(s, "checking") /\ UNCHANGED index
     ELSE Go(s, "loading") /\ index' = [index EXCEPT ![s] = FirstStage]
  /\ UNCHANGED <<plan, loaded, reply, overdue, called, wire, worker, history>>

\* validate_activation() goes through the workers in stage order.  It refuses
\* for many reasons; the last one is a worker that is not idle and unloaded.
Check(s) ==
  /\ at[s] = "checking"
  /\ \/ Go(s, "closing") /\ UNCHANGED index
     \/ /\ table[index[s]] = None /\ busy[index[s]] = {}
        /\ IF index[s] = StageCount - 1
           THEN Go(s, "loading") /\ index' = [index EXCEPT ![s] = FirstStage]
           ELSE UNCHANGED at /\ index' = [index EXCEPT ![s] = @ + 1]
  /\ UNCHANGED <<plan, loaded, reply, overdue, called, wire, worker, history>>

SendLoad(s) ==
  /\ at[s] = "loading" /\ reply[s] = "none"
  /\ wire' = wire \cup {Call("load", s, index[s])}
  /\ reply' = [reply EXCEPT ![s] = "waiting"]
  /\ UNCHANGED <<plan, at, index, loaded, overdue, called, worker, history>>

\* An accepted stage is remembered; after the last one the session is open.
LoadAccepted(s) ==
  /\ at[s] = "loading" /\ reply[s] = "ok"
  /\ reply' = [reply EXCEPT ![s] = "none"]
  /\ loaded' = [loaded EXCEPT ![s] = Append(@, index[s])]
  /\ IF LastStage(s)
     THEN Go(s, "open") /\ UNCHANGED index
     ELSE UNCHANGED at /\ index' = [index EXCEPT ![s] = @ - 1]
  /\ UNCHANGED <<plan, overdue, called, wire, worker, history>>

LoadRejected(s) ==
  /\ at[s] = "loading" /\ reply[s] = "rejected"
  /\ reply' = [reply EXCEPT ![s] = "none"]
  /\ BeginClosing(s)
  /\ UNCHANGED <<plan, index, loaded, overdue, called, wire, worker, restarts, unsettled>>

\* The call of s fails: what it sent is lost, or was or will be handled.
Fails(s) ==
  /\ reply[s] # "none"
  /\ reply' = [reply EXCEPT ![s] = "none"]
  /\ \/ wire' = {m \in wire : m.s # s \/ ~m.awaited}
     \/ wire' = {[m EXCEPT !.awaited = @ /\ m.s # s] : m \in wire}

\* Mutation: only acknowledged stages are unloaded.
LoadLostForgotten(s) ==
  /\ at[s] = "loading"
  /\ Fails(s)
  /\ BeginClosing(s)
  /\ UNCHANGED <<plan, index, loaded, overdue, called, worker, restarts, unsettled>>

\* A lost response can conceal a successful load.
LoadLost(s) ==
  /\ at[s] = "loading"
  /\ Fails(s)
  /\ loaded' = [loaded EXCEPT ![s] = Append(@, index[s])]
  /\ BeginClosing(s)
  /\ UNCHANGED <<plan, index, overdue, called, worker, restarts, unsettled>>

-----------------------------------------------------------------------------
(* generate() and close() *)

Generate(s) ==
  /\ at[s] = "open" /\ s \notin called
  /\ called' = called \cup {s}
  /\ UNCHANGED <<plan, at, index, loaded, reply, overdue, wire, worker, history>>

Close(s) ==
  /\ at[s] = "open"
  /\ BeginClosing(s)
  /\ UNCHANGED <<plan, index, loaded, reply, overdue, called, wire, worker, restarts, unsettled>>

Unloading(s) == at[s] = "closing" /\ loaded[s] # <<>>
Current(s) == loaded[s][Len(loaded[s])]

\* On to the next stage, with five seconds of its own.
Proceed(s) ==
  /\ loaded' = [loaded EXCEPT ![s] = SubSeq(@, 1, Len(@) - 1)]
  /\ overdue' = overdue \ {s}

SendUnload(s) ==
  /\ Unloading(s) /\ reply[s] = "none"
  /\ wire' = wire \cup {Call("unload", s, Current(s))}
  /\ reply' = [reply EXCEPT ![s] = "waiting"]
  /\ UNCHANGED <<plan, at, index, loaded, overdue, called, worker, history>>

Unloaded(s) ==
  /\ Unloading(s) /\ reply[s] = "ok"
  /\ reply' = [reply EXCEPT ![s] = "none"]
  /\ Proceed(s)
  /\ UNCHANGED <<plan, at, index, called, wire, worker, history>>

\* Mutation: tries for ever.
OutOfTimeNever(s) == FALSE
OutOfTime(s) == s \in overdue

\* FAILED_PRECONDITION: a request is still active, or another plan is loaded.
UnloadRefused(s) ==
  /\ Unloading(s) /\ reply[s] = "refused"
  /\ reply' = [reply EXCEPT ![s] = "none"]
  /\ IF OutOfTime(s)
     THEN Proceed(s) /\ unsettled' = unsettled \cup {s}
     ELSE UNCHANGED <<loaded, overdue, unsettled>>
  /\ UNCHANGED <<plan, at, index, called, wire, worker, restarts, restarted, taken>>

\* Any other failure of the call is not retried.
UnloadLost(s) ==
  /\ Unloading(s)
  /\ Fails(s)
  /\ Proceed(s)
  /\ unsettled' = unsettled \cup {s}
  /\ UNCHANGED <<plan, at, index, called, worker, restarts, restarted, taken>>

Closed(s) ==
  /\ at[s] = "closing" /\ loaded[s] = <<>>
  /\ Go(s, "closed")
  /\ UNCHANGED <<plan, index, loaded, reply, overdue, called, wire, worker, history>>

\* Five seconds go by.
Overdue(s) ==
  /\ Unloading(s) /\ s \notin overdue
  /\ overdue' = overdue \cup {s}
  /\ UNCHANGED <<plan, at, index, loaded, reply, called, wire, worker, history>>

-----------------------------------------------------------------------------
(* The workers *)

Answer(m, what) ==
  /\ wire' = wire \ {m}
  /\ reply' = IF m.awaited THEN [reply EXCEPT ![m.s] = what] ELSE reply
  /\ UNCHANGED <<plan, at, index, loaded, overdue, called>>

\* The session knows that its plan is on w: it has been told so, or is being told.
Told(s, w) ==
  /\ at[s] \in {"loading", "open"}
  /\ \/ \E i \in DOMAIN loaded[s] : loaded[s][i] = w
     \/ at[s] = "loading" /\ reply[s] = "ok" /\ w = index[s]

\* The sessions that know the plan on w as theirs.
Holders(w) == {s \in Sessions : plan[s] = table[w] /\ Told(s, w)}

\* LoadStage.  A request equal to the one that loaded the stage is accepted, also
\* when it is another session's; any other is refused while a stage is loaded, and
\* a request with the same plan is another one when its endpoints are; otherwise the
\* stage is loaded or that fails.
HandleLoad(m) ==
  /\ m.type = "load"
  /\ \/ table[m.w] = plan[m.s] /\ Answer(m, "ok") /\ UNCHANGED table
     \/ Answer(m, "rejected") /\ UNCHANGED table
     \/ table[m.w] = None /\ Answer(m, "ok") /\ table' = [table EXCEPT ![m.w] = plan[m.s]]
  /\ UNCHANGED <<busy, history>>

\* Mutation: whatever is loaded is unloaded.
MatchesAny(m) == table[m.w] # None

\* deployment_matches()
Matches(m) == table[m.w] = plan[m.s]

\* UnloadStage: nothing loaded is fine, another plan or an active request is not.
HandleUnload(m) ==
  /\ m.type = "unload"
  /\ \/ table[m.w] = None /\ Answer(m, "ok") /\ UNCHANGED <<table, taken>>
     \/ /\ Matches(m) /\ busy[m.w] = {} /\ Answer(m, "ok")
        /\ table' = [table EXCEPT ![m.w] = None]
        /\ taken' = taken \cup (Holders(m.w) \X {m.w})
     \/ /\ table[m.w] # None /\ ~(Matches(m) /\ busy[m.w] = {})
        /\ Answer(m, "refused") /\ UNCHANGED <<table, taken>>
  /\ unsettled' = IF \E l \in wire : l.type = "load" /\ l.s = m.s /\ l.w = m.w
                  THEN unsettled \cup {m.s} ELSE unsettled
  /\ UNCHANGED <<busy, restarts, restarted>>

\* The Generate call of s reserves on the driver, which opens the next stage.
NReserve(s, w) ==
  /\ s \in called /\ table[w] = plan[s] /\ s \notin busy[w]
  /\ w > 0 => s \in busy[w - 1]
  /\ busy' = [busy EXCEPT ![w] = @ \cup {s}]
  /\ UNCHANGED <<client, wire, table, history>>

NRetire(s, w) ==
  /\ s \in busy[w]
  /\ busy' = [busy EXCEPT ![w] = @ \ {s}]
  /\ UNCHANGED <<client, wire, table, history>>

\* A worker restarts, with an empty table; calls it had not handled are lost.
Restart(w) ==
  /\ table[w] # None
  /\ restarts < MaxRestarts /\ restarts' = restarts + 1
  /\ restarted' = restarted \cup (Holders(w) \X {w})
  /\ table' = [table EXCEPT ![w] = None]
  /\ busy' = [busy EXCEPT ![w] = {}]
  /\ wire' = {m \in wire : m.w # w}
  /\ UNCHANGED <<client, taken, unsettled>>

SessionStep(s) ==
  \/ Enter(s) \/ Check(s) \/ SendLoad(s) \/ LoadAccepted(s) \/ LoadRejected(s) \/ LoadLost(s)
  \/ Generate(s) \/ Close(s) \/ SendUnload(s) \/ Unloaded(s) \/ UnloadRefused(s)
  \/ UnloadLost(s) \/ Closed(s) \/ Overdue(s)

Next ==
  \/ \E s \in Sessions : SessionStep(s)
  \/ \E m \in wire : HandleLoad(m) \/ HandleUnload(m)
  \/ \E s \in Sessions, w \in Stages : NReserve(s, w) \/ NRetire(s, w)
  \/ \E w \in Stages : Restart(w)

Spec == Init /\ [][Next]_vars

\* The session is one thread, which runs; its calls time out, and time passes.
\* Nothing is asked of the workers, and nobody has to open or close a session.
Running(s) ==
  \/ Check(s) \/ SendLoad(s) \/ LoadAccepted(s) \/ LoadRejected(s) \/ LoadLost(s)
  \/ SendUnload(s) \/ Unloaded(s) \/ UnloadRefused(s) \/ UnloadLost(s) \/ Closed(s)

Fairness == \A s \in Sessions : WF_vars(Running(s)) /\ WF_vars(Overdue(s))

FairSpec == Spec /\ Fairness

-----------------------------------------------------------------------------
(* Properties *)

\* Every variable has its type, and a session remembers each stage once.
TypeOK ==
  /\ plan \in [Sessions -> Plans]
  /\ at \in [Sessions -> {"new", "checking", "loading", "open", "closing", "closed"}]
  /\ index \in [Sessions -> Stages]
  /\ \A s \in Sessions :
       /\ loaded[s] \in Seq(Stages)
       /\ \A i, j \in DOMAIN loaded[s] : loaded[s][i] = loaded[s][j] => i = j
  /\ reply \in [Sessions -> {"none", "waiting", "ok", "rejected", "refused"}]
  /\ overdue \subseteq Sessions /\ called \subseteq Sessions
  /\ wire \subseteq [type : {"load", "unload"}, s : Sessions, w : Stages, awaited : BOOLEAN]
  /\ table \in [Stages -> Plans \cup {None}]
  /\ busy \in [Stages -> SUBSET Sessions]
  /\ restarts \in 0..MaxRestarts
  /\ restarted \subseteq Sessions \X Stages /\ taken \subseteq Sessions \X Stages
  /\ unsettled \subseteq Sessions

\* Another session was given the same plan.
Shared(s) == \E t \in Sessions \ {s} : plan[t] = plan[s]

\* The plan of s is on w, or was lost: to a restart of w after the session was told
\* of it or, only when the plan is shared, to the unload of another of its sessions.
OnOrLost(s, w) ==
  \/ table[w] = plan[s]
  \/ <<s, w>> \in restarted
  \/ <<s, w>> \in taken /\ Shared(s)

\* An open session has its plan on every worker that has not restarted since,
\* whatever the sessions of other plans load, unload or leave behind on the wire;
\* only another session of the same plan can have unloaded it.  (Every variable has
\* its type as well.)
OpenMeansLoaded ==
  /\ TypeOK
  /\ \A s \in Sessions, w \in Stages : at[s] = "open" => OnOrLost(s, w)

\* controller.py: "Downstream is ready before the driver can accept generation."
\* A stage that a session knows to be loaded finds the one behind it loaded too,
\* with the same exceptions.
DownstreamFirst ==
  \A s \in Sessions, w \in Stages :
    Told(s, w) /\ w + 1 \in Stages => OnOrLost(s, w + 1)

\* A plan is on a worker only while one of its sessions loads it, is open or is
\* closing, also when the response to a load was lost; unless a session of the plan
\* left a stage without an answer to its unload, or its unload overtook a load that
\* was still waiting on the worker.
ClosedMeansUnloaded ==
  \A w \in Stages : table[w] # None =>
    \E s \in Sessions :
      /\ plan[s] = table[w]
      /\ at[s] \in {"loading", "open", "closing"} \/ s \in unsettled

\* Entering and leaving a session end, however busy, slow or dead the workers are.
EverySessionReturns ==
  \A s \in Sessions : at[s] \in {"checking", "loading", "closing"} ~> at[s] \in {"open", "closed"}
=============================================================================
