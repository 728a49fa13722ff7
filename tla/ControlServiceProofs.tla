------------------------ MODULE ControlServiceProofs ------------------------
(***************************************************************************)
(* Proofs about ControlService: who owns a request, what the lifecycle log *)
(* reports and how much memory is used, for every number of requests,      *)
(* calls and addresses and for every size of a request.                    *)
(***************************************************************************)
EXTENDS ControlService, FiniteSetTheorems, WellFoundedInduction, TLAPS

-----------------------------------------------------------------------------
(* The inductive invariant. *)

Owning == Reserving \cup Executing

\* The types the argument needs.
Typed ==
  /\ deployment \in Deployments \cup {None}
  /\ active \in [Ids -> Objects \cup {None}]
  /\ allocating \in SUBSET Objects /\ running \in SUBSET Objects
  /\ sequence \in [Objects -> Deployments \cup {None}]
  /\ phase \in [Calls -> Phases]
  /\ executes \in [Calls -> BOOLEAN]
  /\ id \in [Calls -> Ids \cup {None}]
  /\ object \in [Calls -> Objects \cup {None}]
  /\ lease \in [Calls -> Deployments \cup {None}]

\* The table never lists an object twice.
Injective ==
  \A i, j \in Ids : active[i] # None /\ active[i] = active[j] => i = j

\* A listed object belongs to the loaded deployment, and has its sequence on it
\* unless it is still being allocated.
Listed ==
  \A i \in Ids : active[i] # None =>
    /\ deployment # None
    /\ active[i] \notin allocating => sequence[active[i]] = deployment

\* An object that is not listed has no sequence.
Unlisted ==
  \A o \in Objects : (\A i \in Ids : active[i] # o) => sequence[o] = None

\* A call that allocates owns a listed object flagged so, on the loaded deployment.
Reserves(c) ==
  phase[c] \in Reserving =>
    /\ id[c] \in Ids /\ object[c] \in Objects
    /\ active[id[c]] = object[c]
    /\ object[c] \in allocating /\ object[c] \notin running
    /\ lease[c] = deployment
    /\ sequence[object[c]] = IF phase[c] = "allocated" THEN deployment ELSE None

\* A call that executes owns a listed object flagged so, likewise.
Executes(c) ==
  phase[c] \in Executing =>
    /\ id[c] \in Ids /\ object[c] \in Objects
    /\ active[id[c]] = object[c]
    /\ object[c] \in running /\ object[c] \notin allocating
    /\ lease[c] = deployment

\* A call that has released holds an object that is not listed, and its address
\* cannot be reused while it does.
Released(c) ==
  phase[c] \in {"completed", "ended"} =>
    /\ id[c] \in Ids /\ object[c] \in Objects
    /\ \A i \in Ids : active[i] # object[c]

Owners == \A c \in Calls : Reserves(c) /\ Executes(c) /\ Released(c)

OwnershipInv == Typed /\ Injective /\ Listed /\ Unlisted /\ Owners /\ OneOwner

-----------------------------------------------------------------------------
(* Facts about prune_expired(). *)

\* The reaper takes entries nobody owns, with their sequences, and nothing else.
LEMMA PruneFacts ==
  ASSUME OwnershipInv
  PROVE  /\ PrunedActive \in [Ids -> Objects \cup {None}]
         /\ PrunedSequence \in [Objects -> Deployments \cup {None}]
         /\ \A i \in Ids : PrunedActive[i] = active[i] \/ PrunedActive[i] = None
         /\ \A i \in Ids : active[i] \in allocating \cup running => PrunedActive[i] = active[i]
         /\ \A i \in Ids : PrunedActive[i] # None =>
              PrunedSequence[PrunedActive[i]] = sequence[PrunedActive[i]]
         /\ \A o \in Objects : o \in allocating \cup running => PrunedSequence[o] = sequence[o]
         /\ \A o \in Objects : sequence[o] = None => PrunedSequence[o] = None
         /\ \A o \in Objects : (\A i \in Ids : PrunedActive[i] # o) => PrunedSequence[o] = None
<1> USE DEF OwnershipInv, Typed
<1>1. \A o \in Stale : o \notin running /\ o \notin allocating /\ o # None
  BY DEF Stale, Idle, Mapped
<1>2. /\ PrunedActive \in [Ids -> Objects \cup {None}]
      /\ PrunedSequence \in [Objects -> Deployments \cup {None}]
  BY DEF PrunedActive, PrunedSequence
<1>3. \A i \in Ids : PrunedActive[i] = IF active[i] \in Stale THEN None ELSE active[i]
  BY DEF PrunedActive
<1>4. \A o \in Objects : PrunedSequence[o] = IF o \in Stale THEN None ELSE sequence[o]
  BY DEF PrunedSequence
<1>5. \A i \in Ids : PrunedActive[i] # None =>
         PrunedSequence[PrunedActive[i]] = sequence[PrunedActive[i]]
  BY <1>2, <1>3, <1>4
<1>6. ASSUME NEW o \in Objects, \A i \in Ids : PrunedActive[i] # o
      PROVE  PrunedSequence[o] = None
  <2>1. CASE o \in Stale
    BY <2>1, <1>4
  <2>2. CASE o \notin Stale
    <3>1. \A i \in Ids : active[i] # o
      BY <2>2, <1>3, <1>6
    <3> QED BY <2>2, <3>1, <1>4 DEF Unlisted
  <2> QED BY <2>1, <2>2
<1> QED
  BY <1>1, <1>2, <1>3, <1>4, <1>5, <1>6

\* What pruning leaves is again a table of owned and consistent entries.
LEMMA PrunePreserves ==
  ASSUME OwnershipInv, PruneExpired,
         UNCHANGED <<deployment, allocating, running, callVars>>
  PROVE  OwnershipInv'
<1> USE DEF OwnershipInv, Typed, callVars
<1>1. active' = PrunedActive /\ sequence' = PrunedSequence
  BY DEF PruneExpired
<1>2. Typed'
  BY <1>1, PruneFacts
<1>3. Injective'
  BY <1>1, PruneFacts DEF Injective
<1>4. Listed'
  BY <1>1, PruneFacts DEF Listed
<1>5. Unlisted'
  BY <1>1, PruneFacts DEF Unlisted
<1>6. ASSUME NEW c \in Calls PROVE (Reserves(c) /\ Executes(c) /\ Released(c))'
  <2>1. Reserves(c)'
    BY <1>1, PruneFacts DEF Owners, Reserves, Reserving
  <2>2. Executes(c)'
    BY <1>1, PruneFacts DEF Owners, Executes, Executing
  <2>3. Released(c)'
    BY <1>1, PruneFacts, ControlAssumption DEF Owners, Released
  <2> QED BY <2>1, <2>2, <2>3
<1>7. OneOwner'
  BY DEF OneOwner, Reserving, Executing
<1> QED
  BY <1>2, <1>3, <1>4, <1>5, <1>6, <1>7 DEF Owners

-----------------------------------------------------------------------------
(* The actions that change the table. *)

\* UnloadStage finds nobody left in the table.
LEMMA UnloadPreserves ==
  ASSUME OwnershipInv, UnloadStage
  PROVE  OwnershipInv'
<1> USE DEF OwnershipInv, Typed, callVars
<1>1. /\ active' = PrunedActive /\ sequence' = PrunedSequence
      /\ \A i \in Ids : active'[i] = None
      /\ deployment' = None
      /\ UNCHANGED <<allocating, running, callVars>>
  BY DEF UnloadStage, PruneExpired
<1>2. \A c \in Calls : phase[c] \notin Owning
  BY <1>1, PruneFacts, ControlAssumption DEF Owning, Owners, Reserves, Executes
<1>3. Typed' /\ Injective' /\ Listed'
  BY <1>1, PruneFacts DEF Injective, Listed
<1>4. Unlisted'
  BY <1>1, PruneFacts DEF Unlisted
<1>5. Owners'
  BY <1>1, <1>2, ControlAssumption
     DEF Owners, Reserves, Executes, Released, Owning, Reserving, Executing
<1>6. OneOwner'
  BY <1>1 DEF OneOwner, Reserving, Executing
<1> QED
  BY <1>3, <1>4, <1>5, <1>6

\* LoadStage finds an empty table, so there is nothing to relate to the new
\* deployment.
LEMMA LoadPreserves ==
  ASSUME OwnershipInv, NEW d \in Deployments, LoadStage(d)
  PROVE  OwnershipInv'
<1> USE DEF OwnershipInv, Typed, callVars
<1>1. /\ active' = PrunedActive /\ sequence' = PrunedSequence
      /\ deployment = None /\ deployment' = d
      /\ UNCHANGED <<allocating, running, callVars>>
  BY DEF LoadStage, PruneExpired
<1>2. \A i \in Ids : active[i] = None /\ active'[i] = None
  BY <1>1, PruneFacts DEF Listed
<1>3. \A c \in Calls : phase[c] \notin Owning
  BY <1>2, ControlAssumption DEF Owning, Owners, Reserves, Executes
<1>4. Typed' /\ Injective' /\ Listed'
  BY <1>1, <1>2, PruneFacts DEF Injective, Listed
<1>5. Unlisted'
  BY <1>1, PruneFacts DEF Unlisted
<1>6. Owners'
  BY <1>1, <1>2, <1>3, ControlAssumption
     DEF Owners, Reserves, Executes, Released, Owning, Reserving, Executing
<1>7. OneOwner'
  BY <1>1 DEF OneOwner, Reserving, Executing
<1> QED
  BY <1>4, <1>5, <1>6, <1>7

\* reserve() lists an address that nothing refers to.
LEMMA ReservePreserves ==
  ASSUME OwnershipInv, NEW c \in Calls, NEW exec \in BOOLEAN, NEW i \in Ids,
         NEW sh \in Shapes, NEW o \in Objects, Reserve(c, exec, i, sh, o)
  PROVE  OwnershipInv'
<1> USE DEF OwnershipInv, Typed
<1>1. /\ phase[c] = "idle" /\ deployment # None /\ PrunedActive[i] = None
      /\ FreeObject(o)
      /\ active' = [PrunedActive EXCEPT ![i] = o]
      /\ allocating' = allocating \cup {o}
      /\ running' = running \ {o}
      /\ sequence' = PrunedSequence
      /\ phase' = [phase EXCEPT ![c] = "allocating"]
      /\ executes' = [executes EXCEPT ![c] = exec]
      /\ id' = [id EXCEPT ![c] = i]
      /\ object' = [object EXCEPT ![c] = o]
      /\ lease' = [lease EXCEPT ![c] = deployment]
      /\ deployment' = deployment
  BY DEF Reserve
<1>2. /\ o # None
      /\ \A j \in Ids : active[j] # o
      /\ \A b \in Calls : object[b] # o
      /\ sequence[o] = None
  BY <1>1, ControlAssumption DEF FreeObject, Mapped, Unlisted
<1>3. /\ \A j \in Ids : PrunedActive[j] # o
      /\ PrunedSequence[o] = None
  BY <1>2, PruneFacts
<1>4. Typed'
  BY <1>1, PruneFacts DEF Phases
<1>5. Injective'
  BY <1>1, <1>3, PruneFacts DEF Injective
<1>6. Listed'
  BY <1>1, <1>2, <1>3, PruneFacts DEF Listed
<1>7. Unlisted'
  BY <1>1, <1>3, PruneFacts, ControlAssumption DEF Unlisted
<1>8. ASSUME NEW b \in Calls PROVE (Reserves(b) /\ Executes(b) /\ Released(b))'
  <2>1. CASE b = c
    BY <1>1, <1>3, <2>1, PruneFacts DEF Reserves, Executes, Released, Reserving, Executing
  <2>2. CASE b # c
    <3>1. /\ phase'[b] = phase[b] /\ object'[b] = object[b] /\ id'[b] = id[b]
          /\ lease'[b] = lease[b] /\ object[b] # o
      BY <1>1, <1>2, <2>2
    <3>2. Reserves(b)'
      BY <1>1, <1>3, <3>1, PruneFacts, ControlAssumption DEF Owners, Reserves, Reserving
    <3>3. Executes(b)'
      BY <1>1, <1>3, <3>1, PruneFacts, ControlAssumption DEF Owners, Executes, Executing
    <3>4. Released(b)'
      BY <1>1, <1>3, <3>1, PruneFacts, ControlAssumption DEF Owners, Released
    <3> QED BY <3>2, <3>3, <3>4
  <2> QED BY <2>1, <2>2
<1>9. OneOwner'
  BY <1>1, <1>2 DEF OneOwner, Reserving, Executing
<1> QED
  BY <1>4, <1>5, <1>6, <1>7, <1>8, <1>9 DEF Owners

\* acquire() claims an entry that nobody owns.
LEMMA AcquirePreserves ==
  ASSUME OwnershipInv, NEW c \in Calls, NEW i \in Ids, NEW sh \in Shapes,
         AcquireReserved(c, i, sh)
  PROVE  OwnershipInv'
<1> USE DEF OwnershipInv, Typed
<1> DEFINE o == PrunedActive[i]
<1>1. /\ phase[c] = "idle" /\ deployment # None
      /\ o # None /\ o \notin allocating /\ o \notin running
      /\ active' = PrunedActive /\ sequence' = PrunedSequence
      /\ running' = running \cup {o}
      /\ phase' = [phase EXCEPT ![c] = "running"]
      /\ executes' = [executes EXCEPT ![c] = TRUE]
      /\ id' = [id EXCEPT ![c] = i]
      /\ object' = [object EXCEPT ![c] = o]
      /\ lease' = [lease EXCEPT ![c] = deployment]
      /\ UNCHANGED <<deployment, allocating>>
  BY DEF AcquireReserved, Claimable, PruneExpired
<1>2. o \in Objects /\ active[i] = o
  BY <1>1, PruneFacts
<1>3. \A b \in Calls : phase[b] \in Owning \cup {"completed", "ended"} => object[b] # o
  BY <1>1, <1>2 DEF Owning, Owners, Reserves, Executes, Released
<1>4. Typed'
  BY <1>1, <1>2, PruneFacts DEF Phases
<1>5. Injective' /\ Listed'
  BY <1>1, PruneFacts DEF Injective, Listed
<1>6. Unlisted'
  BY <1>1, PruneFacts DEF Unlisted
<1>7. ASSUME NEW b \in Calls PROVE (Reserves(b) /\ Executes(b) /\ Released(b))'
  <2>1. CASE b = c
    BY <1>1, <1>2, <2>1, PruneFacts DEF Reserves, Executes, Released, Reserving, Executing
  <2>2. CASE b # c
    <3>1. /\ phase'[b] = phase[b] /\ object'[b] = object[b] /\ id'[b] = id[b]
          /\ lease'[b] = lease[b]
      BY <1>1, <2>2
    <3>2. Reserves(b)'
      BY <1>1, <1>3, <3>1, PruneFacts DEF Owners, Reserves, Reserving, Owning
    <3>3. Executes(b)'
      BY <1>1, <3>1, PruneFacts DEF Owners, Executes, Executing
    <3>4. Released(b)'
      BY <1>1, <3>1, PruneFacts, ControlAssumption DEF Owners, Released
    <3> QED BY <3>2, <3>3, <3>4
  <2> QED BY <2>1, <2>2
<1>8. OneOwner'
  BY <1>1, <1>3 DEF OneOwner, Reserving, Executing, Owning
<1> QED
  BY <1>4, <1>5, <1>6, <1>7, <1>8 DEF Owners

\* An owner takes its entry out of the table: it is the only owner, and the entry
\* was listed nowhere else.
LEMMA RetirePreserves ==
  ASSUME OwnershipInv, NEW c \in Calls, phase[c] \in Owning,
         NEW place \in {"idle", "completed", "ended"},
         active' = [active EXCEPT ![id[c]] = None],
         sequence' = [sequence EXCEPT ![object[c]] = None],
         allocating' \in {allocating, allocating \ {object[c]}},
         running' \in {running, running \ {object[c]}},
         phase' = [phase EXCEPT ![c] = place],
         executes' \in [Calls -> BOOLEAN],
         \/ /\ place = "idle"
            /\ id' = [id EXCEPT ![c] = None]
            /\ object' = [object EXCEPT ![c] = None]
            /\ lease' = [lease EXCEPT ![c] = None]
         \/ UNCHANGED <<id, object, lease>>,
         deployment' = deployment
  PROVE  OwnershipInv'
<1> USE DEF OwnershipInv, Typed
<1> DEFINE o == object[c]
<1>1. id[c] \in Ids /\ o \in Objects /\ active[id[c]] = o /\ o # None
  BY ControlAssumption DEF Owners, Reserves, Executes, Owning
<1>2. \A j \in Ids : j # id[c] => active[j] # o
  BY <1>1 DEF Injective
<1>3. \A b \in Calls : b # c /\ phase[b] \in Owning \cup {"completed", "ended"} => object[b] # o
  BY <1>1 DEF OneOwner, Owning, Owners, Released
<1>4. Typed'
  BY <1>1 DEF Phases
<1>5. Injective'
  BY <1>1 DEF Injective
<1>6. Listed'
  BY <1>1, <1>2 DEF Listed
<1>7. Unlisted'
  BY <1>1, <1>2, ControlAssumption DEF Unlisted
<1>8. ASSUME NEW b \in Calls PROVE (Reserves(b) /\ Executes(b) /\ Released(b))'
  <2>1. CASE b = c
    <3>1. phase'[c] = place
      OBVIOUS
    <3>2. phase'[c] \notin Reserving \cup Executing
      BY <3>1 DEF Reserving, Executing
    <3>3. Released(c)'
      BY <3>1, <1>1, <1>2, ControlAssumption DEF Released
    <3> QED BY <2>1, <3>2, <3>3 DEF Reserves, Executes, Reserving, Executing
  <2>2. CASE b # c
    <3>1. /\ phase'[b] = phase[b] /\ object'[b] = object[b] /\ id'[b] = id[b]
          /\ lease'[b] = lease[b]
      BY <2>2
    <3>2. Reserves(b)'
      BY <1>1, <1>2, <1>3, <2>2, <3>1 DEF Owners, Reserves, Reserving, Owning
    <3>3. Executes(b)'
      BY <1>1, <1>2, <1>3, <2>2, <3>1 DEF Owners, Executes, Executing, Owning
    <3>4. Released(b)'
      BY <1>1, <3>1, ControlAssumption DEF Owners, Released
    <3> QED BY <3>2, <3>3, <3>4
  <2> QED BY <2>1, <2>2
<1>9. OneOwner'
  <2>1. \A b \in Calls : b # c => phase'[b] = phase[b] /\ object'[b] = object[b]
    OBVIOUS
  <2>2. phase'[c] \notin Reserving' \cup Executing'
    BY DEF Reserving, Executing
  <2> QED BY <2>1, <2>2 DEF OneOwner, Reserving, Executing
<1> QED
  BY <1>4, <1>5, <1>6, <1>7, <1>8, <1>9 DEF Owners

\* The end of an allocation that failed.
LEMMA FailedPreserves ==
  ASSUME OwnershipInv, NEW c \in Calls, AllocationFailed(c)
  PROVE  OwnershipInv'
<1> USE DEF OwnershipInv, Typed
<1>1. phase[c] = "unallocated"
  BY DEF AllocationFailed
<1>2. phase[c] \in Owning /\ object[c] \in Objects /\ sequence[object[c]] = None
  BY <1>1 DEF Owning, Reserving, Owners, Reserves
<1>3. sequence' = [sequence EXCEPT ![object[c]] = None]
  BY <1>2 DEF AllocationFailed
<1> QED
  BY <1>2, <1>3, RetirePreserves DEF AllocationFailed, RetireById, Leave

\* The end of an allocation whose request was stopped.
LEMMA StoppedPreserves ==
  ASSUME OwnershipInv, NEW c \in Calls, AllocationStopped(c)
  PROVE  OwnershipInv'
<1> USE DEF OwnershipInv, Typed
<1>1. phase[c] \in Owning
  BY DEF AllocationStopped, Owning, Reserving
<1> QED
  BY <1>1, RetirePreserves DEF AllocationStopped, RetireById, Leave

\* The allocation itself, which runs without the mutex.
LEMMA AllocatePreserves ==
  ASSUME OwnershipInv, NEW c \in Calls, Allocate(c)
  PROVE  OwnershipInv'
<1> USE DEF OwnershipInv, Typed
<1>1. /\ phase[c] = "allocating"
      /\ UNCHANGED <<deployment, active, allocating, running, executes, id, object, lease>>
      /\ \/ /\ sequence' = [sequence EXCEPT ![object[c]] = lease[c]]
            /\ phase' = [phase EXCEPT ![c] = "allocated"]
         \/ /\ phase' = [phase EXCEPT ![c] = "unallocated"]
            /\ sequence' = sequence
  BY DEF Allocate
<1>2. /\ id[c] \in Ids /\ object[c] \in Objects /\ active[id[c]] = object[c]
      /\ object[c] \in allocating /\ lease[c] = deployment /\ sequence[object[c]] = None
  BY <1>1 DEF Owners, Reserves, Reserving
<1>3. \A b \in Calls : b # c /\ phase[b] \in Owning => object[b] # object[c]
  BY <1>1 DEF OneOwner, Owning, Reserving
<1>4. Typed' /\ Injective'
  BY <1>1, <1>2 DEF Phases, Injective
<1>5. Listed' /\ Unlisted'
  BY <1>1, <1>2 DEF Listed, Unlisted
<1>6. ASSUME NEW b \in Calls PROVE (Reserves(b) /\ Executes(b) /\ Released(b))'
  <2>1. CASE b = c
    BY <1>1, <1>2, <2>1 DEF Owners, Reserves, Executes, Released, Reserving, Executing
  <2>2. CASE b # c
    BY <1>1, <1>2, <1>3, <2>2
       DEF Owners, Reserves, Executes, Released, Reserving, Executing, Owning
  <2> QED BY <2>1, <2>2
<1>7. OneOwner'
  BY <1>1 DEF OneOwner, Reserving, Executing
<1> QED
  BY <1>4, <1>5, <1>6, <1>7 DEF Owners

\* An allocation in time: the reservation is complete, and an execution handler
\* goes on to own it.
LEMMA KeptPreserves ==
  ASSUME OwnershipInv, NEW c \in Calls, AllocationKept(c)
  PROVE  OwnershipInv'
<1> USE DEF OwnershipInv, Typed
<1> DEFINE o == object[c]
<1>1. /\ phase[c] = "allocated"
      /\ allocating' = allocating \ {o}
      /\ UNCHANGED <<deployment, active, sequence>>
  BY DEF AllocationKept
<1>2. /\ id[c] \in Ids /\ o \in Objects /\ active[id[c]] = o
      /\ lease[c] = deployment /\ sequence[o] = deployment /\ o \notin running
  BY <1>1 DEF Owners, Reserves, Reserving
<1>3. \A b \in Calls : b # c /\ phase[b] \in Owning => object[b] # o
  BY <1>1 DEF OneOwner, Owning, Reserving
<1>4. Injective' /\ Unlisted'
  BY <1>1 DEF Injective, Unlisted
<1>5. Listed'
  BY <1>1, <1>2 DEF Listed
<1>6. CASE executes[c]
  <2>1. /\ running' = running \cup {o}
        /\ phase' = [phase EXCEPT ![c] = "running"]
        /\ lease' = [lease EXCEPT ![c] = deployment]
        /\ UNCHANGED <<executes, id, object>>
    BY <1>6 DEF AllocationKept
  <2>2. Typed'
    BY <1>1, <1>2, <2>1 DEF Phases
  <2>3. ASSUME NEW b \in Calls PROVE (Reserves(b) /\ Executes(b) /\ Released(b))'
    <3>1. CASE b = c
      BY <1>1, <1>2, <2>1, <3>1 DEF Reserves, Executes, Released, Reserving, Executing
    <3>2. CASE b # c
      BY <1>1, <1>3, <2>1, <3>2
         DEF Owners, Reserves, Executes, Released, Reserving, Executing, Owning
    <3> QED BY <3>1, <3>2
  <2>4. OneOwner'
    BY <1>1, <2>1 DEF OneOwner, Reserving, Executing
  <2> QED BY <1>4, <1>5, <2>2, <2>3, <2>4 DEF Owners
<1>7. CASE ~executes[c]
  <2>1. running' = running /\ Leave(c)
    BY <1>7 DEF AllocationKept
  <2>2. Typed'
    BY <1>1, <2>1 DEF Leave, Phases
  <2>3. ASSUME NEW b \in Calls PROVE (Reserves(b) /\ Executes(b) /\ Released(b))'
    <3>1. CASE b = c
      BY <2>1, <3>1 DEF Leave, Reserves, Executes, Released, Reserving, Executing
    <3>2. CASE b # c
      BY <1>1, <1>3, <2>1, <3>2
         DEF Leave, Owners, Reserves, Executes, Released, Reserving, Executing, Owning
    <3> QED BY <3>1, <3>2
  <2>4. OneOwner'
    BY <2>1 DEF Leave, OneOwner, Reserving, Executing
  <2> QED BY <1>4, <1>5, <2>2, <2>3, <2>4 DEF Owners
<1> QED
  BY <1>6, <1>7

\* CancelRequest takes an entry out of the table only if nobody owns it.
LEMMA CancelPreserves ==
  ASSUME OwnershipInv, NEW i \in Ids, CancelRequest(i)
  PROVE  OwnershipInv'
<1> USE DEF OwnershipInv, Typed
<1> DEFINE o == active[i]
<1>1. /\ o # None
      /\ active' = [active EXCEPT ![i] = IF Idle(o) THEN None ELSE o]
      /\ sequence' = [sequence EXCEPT ![o] = IF Idle(o) THEN None ELSE sequence[o]]
      /\ UNCHANGED <<deployment, allocating, running, phase, executes, id, object, lease>>
  BY DEF CancelRequest, callVars
<1>2. CASE ~Idle(o)
  <2>1. active' = active /\ sequence' = sequence
    BY <1>1, <1>2
  <2> QED
    BY <1>1, <2>1 DEF Injective, Listed, Unlisted, Owners, Reserves, Executes, Released,
                      OneOwner, Reserving, Executing
<1>3. CASE Idle(o)
  <2>1. o \in Objects /\ o \notin running /\ o \notin allocating
    BY <1>1, <1>3 DEF Idle
  <2>2. \A j \in Ids : j # i => active[j] # o
    BY <1>1 DEF Injective
  <2>3. \A b \in Calls : phase[b] \in Owning => object[b] # o /\ id[b] # i
    BY <2>1 DEF Owning, Owners, Reserves, Executes
  <2>4. Typed' /\ Injective'
    BY <1>1, <1>3 DEF Injective
  <2>5. Listed' /\ Unlisted'
    BY <1>1, <1>3, <2>1, <2>2, ControlAssumption DEF Listed, Unlisted
  <2>6. Owners'
    BY <1>1, <1>3, <2>1, <2>3, ControlAssumption
       DEF Owners, Reserves, Executes, Released, Reserving, Executing, Owning
  <2>7. OneOwner'
    BY <1>1 DEF OneOwner, Reserving, Executing
  <2> QED BY <2>4, <2>5, <2>6, <2>7
<1> QED
  BY <1>2, <1>3

\* An executing handler that releases finds its own entry in the table.
LEMMA ReleasePreserves ==
  ASSUME OwnershipInv, NEW c \in Calls, phase[c] \in Executing, NEW why,
         NEW place \in {"completed", "ended"},
         Release(c, why), phase' = [phase EXCEPT ![c] = place],
         UNCHANGED <<deployment, allocating, executes, id, object, lease>>
  PROVE  OwnershipInv'
<1>1. active[id[c]] = object[c]
  BY DEF OwnershipInv, Owners, Executes
<1>2. /\ active' = [active EXCEPT ![id[c]] = None]
      /\ sequence' = [sequence EXCEPT ![object[c]] = None]
      /\ running' = running \ {object[c]}
  BY <1>1 DEF Release
<1> QED
  BY <1>2, RetirePreserves DEF OwnershipInv, Typed, Owning

\* One that has released before finds nothing of its own there, even if its ID is
\* listed again.
LEMMA ReleaseAgain ==
  ASSUME OwnershipInv, NEW c \in Calls, phase[c] = "completed", NEW why, Release(c, why)
  PROVE  UNCHANGED <<active, sequence, running>>
BY DEF OwnershipInv, Owners, Released, Release

\* A handler that owns nothing changes its place or leaves.
LEMMA QuietPreserves ==
  ASSUME OwnershipInv, NEW c \in Calls, phase[c] \in {"completed", "ended"},
         UNCHANGED <<deployment, active, sequence, allocating, running>>,
         \/ Leave(c)
         \/ phase' = [phase EXCEPT ![c] = "ended"] /\ UNCHANGED <<executes, id, object, lease>>
  PROVE  OwnershipInv'
<1> USE DEF OwnershipInv, Typed, Leave
<1>1. Typed'
  BY DEF Phases
<1>2. Injective' /\ Listed' /\ Unlisted'
  BY DEF Injective, Listed, Unlisted
<1>3. ASSUME NEW b \in Calls PROVE (Reserves(b) /\ Executes(b) /\ Released(b))'
  <2>1. CASE b = c
    BY <2>1 DEF Owners, Reserves, Executes, Released, Reserving, Executing
  <2>2. CASE b # c
    BY <2>2 DEF Owners, Reserves, Executes, Released, Reserving, Executing
  <2> QED BY <2>1, <2>2
<1>4. OneOwner'
  BY DEF OneOwner, Reserving, Executing
<1> QED
  BY <1>1, <1>2, <1>3, <1>4 DEF Owners

\* A handler leaves on an exception.
LEMMA UnwindPreserves ==
  ASSUME OwnershipInv, NEW c \in Calls, Unwind(c)
  PROVE  OwnershipInv'
<1>1. /\ phase[c] \in {"running", "completed"}
      /\ phase' = [phase EXCEPT ![c] = "ended"]
      /\ UNCHANGED <<deployment, allocating, executes, id, object, lease>>
  BY DEF Unwind
<1>2. PICK why : Release(c, why)
  BY DEF Unwind
<1>3. CASE phase[c] = "running"
  BY <1>1, <1>2, <1>3, ReleasePreserves DEF Executing
<1>4. CASE phase[c] = "completed"
  BY <1>1, <1>2, <1>4, ReleaseAgain, QuietPreserves
<1> QED
  BY <1>1, <1>3, <1>4

\* A handler looks at its flags between two passes.
LEMMA CheckRunningPreserves ==
  ASSUME OwnershipInv, NEW c \in Calls, CheckRunning(c)
  PROVE  OwnershipInv'
<1> USE DEF OwnershipInv, Typed
<1>1. /\ phase[c] = "running" /\ phase' = [phase EXCEPT ![c] = "committing"]
      /\ UNCHANGED <<deployment, active, allocating, running, sequence, executes, id, object,
                     lease>>
  BY DEF CheckRunning, requestVars
<1>2. Typed' /\ Injective' /\ Listed' /\ Unlisted'
  BY <1>1 DEF Phases, Injective, Listed, Unlisted
<1>3. Owners'
  BY <1>1 DEF Owners, Reserves, Executes, Released, Reserving, Executing
<1>4. OneOwner'
  BY <1>1 DEF OneOwner, Reserving, Executing
<1> QED
  BY <1>2, <1>3, <1>4

\* Steps that touch neither the table nor a call's references.
LEMMA FramePreserves ==
  ASSUME OwnershipInv,
         UNCHANGED <<deployment, active, allocating, running, sequence, phase, executes, id,
                     object, lease>>
  PROVE  OwnershipInv'
BY DEF OwnershipInv, Typed, Injective, Listed, Unlisted, Owners, Reserves, Executes,
       Released, OneOwner, Reserving, Executing

\* The invariant holds at the start.
LEMMA InitOwnership == Init => OwnershipInv
BY DEF Init, OwnershipInv, Typed, Phases, Injective, Listed, Unlisted, Owners, Reserves,
       Executes, Released, OneOwner, Reserving, Executing

\* Every step keeps it.
LEMMA NextOwnership == OwnershipInv /\ [Next]_vars => OwnershipInv'
<1> SUFFICES ASSUME OwnershipInv, [Next]_vars PROVE OwnershipInv'
  OBVIOUS
<1>1. CASE UNCHANGED vars
  BY <1>1, FramePreserves DEF vars, requestVars, callVars
<1>2. CASE Prune
  BY <1>2, PrunePreserves DEF Prune
<1>3. CASE UnloadStage
  BY <1>3, UnloadPreserves
<1>4. ASSUME NEW d \in Deployments, LoadStage(d) PROVE OwnershipInv'
  BY <1>4, LoadPreserves
<1>5. ASSUME NEW c \in Calls, NEW i \in Ids, NEW sh \in Shapes, AcquireReserved(c, i, sh)
      PROVE  OwnershipInv'
  BY <1>5, AcquirePreserves
<1>6. ASSUME NEW c \in Calls, NEW i \in Ids, NEW sh \in Shapes, NEW exec \in BOOLEAN,
             NEW o \in Objects, Reserve(c, exec, i, sh, o)
      PROVE  OwnershipInv'
  BY <1>6, ReservePreserves
<1>7. ASSUME NEW c \in Calls, Allocate(c) PROVE OwnershipInv'
  BY <1>7, AllocatePreserves
<1>8. ASSUME NEW c \in Calls, AllocationFailed(c) PROVE OwnershipInv'
  BY <1>8, FailedPreserves
<1>9. ASSUME NEW c \in Calls, AllocationStopped(c) PROVE OwnershipInv'
  BY <1>9, StoppedPreserves
<1>10. ASSUME NEW c \in Calls, AllocationKept(c) PROVE OwnershipInv'
  BY <1>10, KeptPreserves
<1>11. ASSUME NEW c \in Calls, CheckRunning(c) PROVE OwnershipInv'
  BY <1>11, CheckRunningPreserves
<1>12. ASSUME NEW c \in Calls, Complete(c) PROVE OwnershipInv'
  BY <1>12, ReleasePreserves DEF Complete, Executing
<1>13. ASSUME NEW c \in Calls, Unwind(c) PROVE OwnershipInv'
  BY <1>13, UnwindPreserves
<1>14. ASSUME NEW c \in Calls, DropLease(c) PROVE OwnershipInv'
  BY <1>14, QuietPreserves DEF DropLease, requestVars
<1>15. ASSUME NEW c \in Calls, Watchdog(c) \/ Disconnect(c) PROVE OwnershipInv'
  BY <1>15, FramePreserves DEF Watchdog, Disconnect, requestVars
<1>16. ASSUME NEW i \in Ids, CancelRequest(i) PROVE OwnershipInv'
  BY <1>16, CancelPreserves
<1>17. ASSUME NEW o \in Objects, Expire(o) PROVE OwnershipInv'
  BY <1>17, FramePreserves DEF Expire, callVars
<1> QED
  BY <1>1, <1>2, <1>3, <1>4, <1>5, <1>6, <1>7, <1>8, <1>9, <1>10, <1>11, <1>12, <1>13,
     <1>14, <1>15, <1>16, <1>17 DEF Next

\* Every reachable state satisfies the inductive invariant.
THEOREM OwnershipInvariant == Spec => []OwnershipInv
<1>1. Init => OwnershipInv
  BY InitOwnership
<1>2. OwnershipInv /\ [Next]_vars => OwnershipInv'
  BY NextOwnership
<1> QED
  BY <1>1, <1>2, PTL DEF Spec

-----------------------------------------------------------------------------
(* What follows for the worker. *)

\* The request a handler is allocating or executing is never taken from under it,
\* by cancellation, expiry, unloading or a later request that reuses its ID.
THEOREM OwnedRequestsAreKept == Spec => []OwnedRequestsStay
<1>1. OwnershipInv => OwnedRequestsStay
  BY DEF OwnershipInv, Owners, Reserves, Executes, OwnedRequestsStay
<1> QED
  BY <1>1, OwnershipInvariant, PTL

\* No two calls ever own the same sequence.
THEOREM OwnersAreUnique == Spec => []OneOwner
<1>1. OwnershipInv => OneOwner
  BY DEF OwnershipInv
<1> QED
  BY <1>1, OwnershipInvariant, PTL

\* Whoever executes has a sequence of the deployment that is loaded.
THEOREM ExecutionIsOnTheLoadedStage == Spec => []ExecutesOnItsDeployment
<1>1. OwnershipInv => ExecutesOnItsDeployment
  BY ControlAssumption DEF OwnershipInv, Owners, Executes, Listed, ExecutesOnItsDeployment
<1> QED
  BY <1>1, OwnershipInvariant, PTL

\* No sequence outlives its entry in the table, so the table accounts for all of
\* the cache memory there is.
THEOREM AllSequencesAreAccounted == Spec => []SequencesAreAccounted
<1>1. OwnershipInv => SequencesAreAccounted
  <2> SUFFICES ASSUME OwnershipInv, NEW o \in Objects, sequence[o] # None
               PROVE  o \in Mapped
    BY DEF SequencesAreAccounted
  <2>1. PICK i \in Ids : active[i] = o
    BY DEF OwnershipInv, Unlisted
  <2> QED BY <2>1, ControlAssumption DEF Mapped
<1> QED
  BY <1>1, OwnershipInvariant, PTL

-----------------------------------------------------------------------------
(* Why requests retire. *)

\* The flags of the requests have their types, and so do the lifecycle events.
Flagged ==
  /\ shape \in [Objects -> Shapes \cup {None}] /\ expired \in SUBSET Objects
  /\ cause \in [Objects -> Causes] /\ disconnected \in SUBSET Calls
  /\ retired \in [Objects -> Reasons \cup {"none"}]

\* Only the clock records an expiry, and an entry that was told to stop is in the
\* hands of a call: one that nobody allocates or executes would have been retired.
CausesAreTrue ==
  /\ \A o \in Objects : cause[o] = "expired" => o \in expired
  /\ \A i \in Ids : active[i] # None /\ Idle(active[i]) => cause[active[i]] = "none"

WithinLimit == Cardinality(Mapped) <= maximum_active_requests

RetirementInv == OwnershipInv /\ Flagged /\ CausesAreTrue /\ WithinLimit

\* One step of RetirementsAreTrue.
TrueStep ==
  \A o \in Objects :
    /\ retired'[o] # "none" <=> (o \in Mapped /\ o \notin Mapped')
    /\ retired'[o] = "completed" => \E c \in Calls : object[c] = o /\ phase[c] = "committing"
    /\ retired'[o] = "cancelled" => cause'[o] = "cancelled"
    /\ retired'[o] = "expired" => o \in expired
    /\ retired'[o] = "failed" => cause'[o] = "none" /\ o \notin expired

\* What a step has to show; that its owners stay has been proved above.
StepOK == Flagged' /\ CausesAreTrue' /\ WithinLimit' /\ TrueStep

\* The listed objects are finitely many, one per listed ID.
LEMMA MappedFacts ==
  ASSUME OwnershipInv
  PROVE  /\ Mapped \subseteq Objects /\ None \notin Mapped /\ IsFiniteSet(Mapped)
         /\ Cardinality(Mapped) \in Nat
         /\ \A o \in Objects : o \in Mapped <=> \E i \in Ids : active[i] = o
         /\ \A i \in Ids : active[i] \in Mapped <=> active[i] # None
<1>1. Mapped \subseteq Objects /\ None \notin Mapped
  BY DEF Mapped, OwnershipInv, Typed
<1>2. IsFiniteSet(Mapped)
  BY <1>1, ControlAssumption, FS_Subset
<1>3. Cardinality(Mapped) \in Nat
  BY <1>2, FS_CardinalityType
<1>4. \A o \in Objects : o \in Mapped <=> \E i \in Ids : active[i] = o
  BY ControlAssumption DEF Mapped
<1>5. \A i \in Ids : active[i] \in Mapped <=> active[i] # None
  BY DEF Mapped
<1> QED BY <1>1, <1>2, <1>3, <1>4, <1>5

\* The same of the entries after a step.
LEMMA NewEntries ==
  ASSUME OwnershipInv'
  PROVE  /\ Mapped' \subseteq Objects
         /\ \A o \in Objects : o \in Mapped' <=> \E i \in Ids : active'[i] = o
<1>1. Mapped' \subseteq Objects
  BY DEF Mapped, OwnershipInv, Typed
<1>2. \A o \in Objects : o \in Mapped' <=> \E i \in Ids : active'[i] = o
  BY ControlAssumption DEF Mapped
<1> QED BY <1>1, <1>2

\* The table does not grow when entries leave it.
LEMMA Shrinks ==
  ASSUME OwnershipInv, WithinLimit, Mapped' \subseteq Mapped
  PROVE  WithinLimit'
<1>1. IsFiniteSet(Mapped) /\ Cardinality(Mapped) \in Nat
  BY MappedFacts
<1>2. IsFiniteSet(Mapped') /\ Cardinality(Mapped') <= Cardinality(Mapped)
  BY <1>1, FS_Subset
<1>3. Cardinality(Mapped') \in Nat
  BY <1>2, FS_CardinalityType
<1>4. maximum_active_requests \in Nat
  BY ControlAssumption
<1> QED BY <1>1, <1>2, <1>3, <1>4 DEF WithinLimit

\* A pruned entry is reported with its cause.
LEMMA PruneRetires ==
  ASSUME RetirementInv
  PROVE  /\ Stale \subseteq Mapped /\ Stale \subseteq expired
         /\ \A i \in Ids : PrunedActive[i] = IF active[i] \in Stale THEN None ELSE active[i]
         /\ PrunedCause \in [Objects -> Causes]
         /\ \A o \in Objects : PrunedCause[o] = "expired" => o \in expired
         /\ \A o \in Objects : PrunedCause[o] = "none" => cause[o] = "none"
         /\ \A i \in Ids : PrunedActive[i] # None /\ Idle(PrunedActive[i]) =>
              PrunedCause[PrunedActive[i]] = "none"
<1>1. Stale \subseteq Mapped /\ Stale \subseteq expired
  BY DEF Stale
<1>2. \A i \in Ids : PrunedActive[i] = IF active[i] \in Stale THEN None ELSE active[i]
  BY DEF PrunedActive
<1>3. PrunedCause \in [Objects -> Causes]
  BY DEF PrunedCause, RetirementInv, Flagged, Causes
<1>4. \A o \in Objects : PrunedCause[o] = "expired" => o \in expired
  BY DEF PrunedCause, RetirementInv, CausesAreTrue
<1>5. \A o \in Objects : PrunedCause[o] = "none" => cause[o] = "none"
  BY DEF PrunedCause
<1>6. ASSUME NEW i \in Ids, PrunedActive[i] # None, Idle(PrunedActive[i])
      PROVE  PrunedCause[PrunedActive[i]] = "none"
  <2>1. PrunedActive[i] = active[i] /\ active[i] \notin Stale /\ active[i] \in Mapped
        /\ active[i] \in Objects
    BY <1>2, <1>6, MappedFacts DEF RetirementInv
  <2>2. active[i] \notin expired
    BY <1>6, <2>1 DEF Stale
  <2>3. cause[active[i]] = "none"
    BY <1>6, <2>1 DEF RetirementInv, CausesAreTrue
  <2> QED BY <2>1, <2>2, <2>3 DEF PrunedCause
<1> QED BY <1>1, <1>2, <1>3, <1>4, <1>5, <1>6

\* prune_expired() retires the stale entries and nothing else.
LEMMA PruneStep ==
  ASSUME RetirementInv, PruneExpired, OwnershipInv', UNCHANGED <<shape, expired, allocating, disconnected>>,
         running' = running \/ \E o \in Objects : running' = running \cup {o}
  PROVE  StepOK
<1>1. active' = PrunedActive /\ cause' = PrunedCause /\ retired' = RetiredFor(Stale, "expired")
  BY DEF PruneExpired
<1>2. Flagged'
  BY <1>1, PruneRetires DEF RetirementInv, Flagged, RetiredFor, Reasons
<1>3. CausesAreTrue'
  <2>1. \A o \in Objects : cause'[o] = "expired" => o \in expired'
    BY <1>1, PruneRetires
  <2>2. ASSUME NEW i \in Ids, active'[i] # None, Idle(active[i])'
        PROVE  cause'[active'[i]] = "none"
    <3>1. Idle(PrunedActive[i])
      BY <1>1, <2>2 DEF Idle
    <3> QED BY <1>1, <2>2, <3>1, PruneRetires
  <2> QED BY <2>1, <2>2 DEF CausesAreTrue
<1>4. \A o \in Objects : o \in Mapped' <=> o \in Mapped /\ o \notin Stale
  <2>1. \A o \in Objects : o \in Mapped' <=> \E i \in Ids : PrunedActive[i] = o
    BY <1>1, NewEntries
  <2>2. \A o \in Objects : o \in Mapped <=> \E i \in Ids : active[i] = o
    BY MappedFacts DEF RetirementInv
  <2> QED BY <2>1, <2>2, PruneRetires, ControlAssumption
<1>5. WithinLimit'
  BY <1>4, NewEntries, Shrinks DEF RetirementInv
<1>6. TrueStep
  BY <1>1, <1>4, PruneRetires DEF TrueStep, RetiredFor
<1> QED BY <1>2, <1>3, <1>5, <1>6 DEF StepOK

\* One entry leaves the table, for a reason that is true of it.
LEMMA RemoveStep ==
  ASSUME RetirementInv, OwnershipInv', NEW i \in Ids, NEW o \in Objects, NEW why \in Reasons,
         active[i] = o, active' = [active EXCEPT ![i] = None], retired' = RetiredFor({o}, why),
         UNCHANGED <<shape, expired>>, disconnected' \in SUBSET Calls,
         cause' \in [Objects -> Causes], \A p \in Objects : cause'[p] = "expired" => p \in expired,
         \A p \in Objects : p # o => cause'[p] = cause[p],
         allocating' \in {allocating, allocating \ {o}}, running' \in {running, running \ {o}},
         why = "completed" => \E c \in Calls : object[c] = o /\ phase[c] = "committing",
         why = "cancelled" => cause'[o] = "cancelled", why = "expired" => o \in expired,
         why = "failed" => cause'[o] = "none" /\ o \notin expired
  PROVE  StepOK
<1>1. Flagged'
  BY DEF RetirementInv, Flagged, RetiredFor
<1>2. active \in [Ids -> Objects \cup {None}] /\ \A j \in Ids : j # i => active[j] # o
  BY ControlAssumption DEF RetirementInv, OwnershipInv, Typed, Injective
<1>3. CausesAreTrue'
  <2>1. ASSUME NEW j \in Ids, active'[j] # None, Idle(active[j])'
        PROVE  cause'[active'[j]] = "none"
    <3>1. j # i /\ active'[j] = active[j] /\ active[j] # o /\ active[j] \in Objects
      BY <1>2, <2>1
    <3>2. Idle(active[j])
      BY <2>1, <3>1 DEF Idle
    <3>3. cause[active[j]] = "none"
      BY <2>1, <3>1, <3>2 DEF RetirementInv, CausesAreTrue
    <3> QED BY <3>1, <3>3
  <2> QED BY <2>1 DEF CausesAreTrue
<1>4. \A p \in Objects : p \in Mapped' <=> p \in Mapped /\ p # o
  <2>1. \A p \in Objects : (\E j \in Ids : active'[j] = p) <=> (p # o /\ \E j \in Ids : active[j] = p)
    BY <1>2, ControlAssumption
  <2> QED BY <2>1, MappedFacts, NewEntries DEF RetirementInv
<1>5. WithinLimit'
  BY <1>4, NewEntries, Shrinks DEF RetirementInv
<1>6. o \in Mapped
  BY MappedFacts DEF RetirementInv
<1>7. TrueStep
  BY <1>4, <1>6 DEF TrueStep, RetiredFor, Reasons
<1> QED BY <1>1, <1>3, <1>5, <1>7 DEF StepOK

\* Nothing enters or leaves the table.
LEMMA StayStep ==
  ASSUME RetirementInv, active' = active, retired' = Silence, shape' = shape,
         expired' \in SUBSET Objects, disconnected' \in SUBSET Calls,
         cause' \in [Objects -> Causes], \A p \in Objects : cause'[p] = "expired" => p \in expired',
         \A i \in Ids : active[i] # None /\ active[i] \notin running' /\ active[i] \notin allocating'
                          => cause'[active[i]] = "none"
  PROVE  StepOK
<1>1. Flagged'
  BY DEF RetirementInv, Flagged, Silence
<1>2. CausesAreTrue'
  BY DEF CausesAreTrue, Idle
<1>3. Mapped' = Mapped
  BY DEF Mapped
<1>4. WithinLimit'
  BY <1>3 DEF RetirementInv, WithinLimit
<1>5. TrueStep
  BY <1>3 DEF TrueStep, Silence
<1> QED BY <1>1, <1>2, <1>4, <1>5 DEF StepOK

\* ... and nothing about what is in it.
LEMMA SilentStep ==
  ASSUME RetirementInv, UNCHANGED <<active, shape, cause, allocating, running>>, retired' = Silence,
         expired' \in SUBSET Objects, expired \subseteq expired', disconnected' \in SUBSET Calls
  PROVE  StepOK
<1>1. /\ cause' \in [Objects -> Causes] /\ \A p \in Objects : cause'[p] = "expired" => p \in expired'
      /\ \A i \in Ids : active[i] # None /\ active[i] \notin running' /\ active[i] \notin allocating'
                          => cause'[active[i]] = "none"
  BY DEF RetirementInv, Flagged, CausesAreTrue, Idle
<1> QED BY <1>1, StayStep

\* reserve() admits one more when there is room for it.
LEMMA ReserveTrue ==
  ASSUME RetirementInv, OwnershipInv', NEW c \in Calls, NEW exec \in BOOLEAN, NEW i \in Ids,
         NEW sh \in Shapes, NEW o \in Objects, Reserve(c, exec, i, sh, o)
  PROVE  StepOK
<1>1. /\ PrunedActive[i] = None /\ BelowLimit /\ FreeObject(o)
      /\ active' = [PrunedActive EXCEPT ![i] = o] /\ shape' = [shape EXCEPT ![o] = sh]
      /\ allocating' = allocating \cup {o} /\ running' = running \ {o}
      /\ expired' = expired \ {o} /\ cause' = [PrunedCause EXCEPT ![o] = "none"]
      /\ retired' = RetiredFor(Stale, "expired") /\ disconnected' = disconnected
  BY DEF Reserve
<1>2. o \notin Mapped /\ o \notin Stale
  BY <1>1, PruneRetires DEF FreeObject
<1>3. Flagged'
  BY <1>1, PruneRetires DEF RetirementInv, Flagged, RetiredFor, Reasons, Causes
<1>4. PrunedActive \in [Ids -> Objects \cup {None}] /\ PrunedCause \in [Objects -> Causes]
  BY PruneFacts, PruneRetires DEF RetirementInv
<1>5. \A p \in Objects : p \in Mapped' <=> p = o \/ (p \in Mapped /\ p \notin Stale)
  <2>1. \A p \in Objects : p \in Mapped' <=> p = o \/ \E j \in Ids : PrunedActive[j] = p
    BY <1>1, <1>4, NewEntries, ControlAssumption
  <2>2. \A p \in Objects : p \in Mapped <=> \E j \in Ids : active[j] = p
    BY MappedFacts DEF RetirementInv
  <2> QED BY <2>1, <2>2, PruneRetires, ControlAssumption
<1>6. CausesAreTrue'
  <2>1. \A p \in Objects : cause'[p] = "expired" => p \in expired'
    BY <1>1, <1>4, PruneRetires
  <2>2. ASSUME NEW j \in Ids, active'[j] # None, Idle(active[j])'
        PROVE  cause'[active'[j]] = "none"
    <3>1. active'[j] # o
      BY <1>1, <2>2 DEF Idle
    <3>2. active'[j] = PrunedActive[j] /\ PrunedActive[j] \in Objects
      BY <1>1, <1>4, <2>2, <3>1
    <3>3. Idle(PrunedActive[j])
      BY <1>1, <2>2, <3>1, <3>2 DEF Idle
    <3> QED BY <1>1, <1>4, <2>2, <3>1, <3>2, <3>3, PruneRetires
  <2> QED BY <2>1, <2>2 DEF CausesAreTrue
<1>7. WithinLimit'
  <2>1. Mapped' = (Mapped \ Stale) \cup {o}
    BY <1>5, NewEntries, MappedFacts DEF RetirementInv
  <2>2. IsFiniteSet(Mapped \ Stale)
    BY MappedFacts, FS_Subset DEF RetirementInv
  <2>3. Cardinality(Mapped \ Stale) \in Nat
    BY <2>2, FS_CardinalityType
  <2>4. Cardinality(Mapped') = Cardinality(Mapped \ Stale) + 1
    BY <1>2, <2>1, <2>2, FS_AddElement
  <2>5. Cardinality(Mapped \ Stale) < maximum_active_requests /\ maximum_active_requests \in Nat
    BY <1>1, ControlAssumption DEF BelowLimit
  <2>6. Cardinality(Mapped') <= maximum_active_requests
    BY <2>3, <2>4, <2>5
  <2> QED BY <2>6 DEF WithinLimit
<1>8. TrueStep
  BY <1>1, <1>2, <1>5, PruneRetires DEF TrueStep, RetiredFor
<1> QED BY <1>3, <1>6, <1>7, <1>8 DEF StepOK

\* The entry of a call that is allocating or executing.
LEMMA OwnEntry ==
  ASSUME RetirementInv, NEW c \in Calls, phase[c] \in Owning
  PROVE  /\ id[c] \in Ids /\ object[c] \in Objects /\ active[id[c]] = object[c]
         /\ phase[c] \in Executing => object[c] \in running
BY DEF RetirementInv, OwnershipInv, Owners, Reserves, Executes, Owning

\* An allocation that failed or was stopped.
LEMMA AllocationEndsTrue ==
  ASSUME RetirementInv, OwnershipInv', NEW c \in Calls, AllocationFailed(c) \/ AllocationStopped(c)
  PROVE  StepOK
<1>1. phase[c] \in Owning /\ UNCHANGED <<shape, running, cause, expired>>
      /\ allocating' = allocating \ {object[c]} /\ disconnected' = disconnected \ {c}
  BY DEF AllocationFailed, AllocationStopped, Leave, Owning, Reserving
<1>2. id[c] \in Ids /\ object[c] \in Objects /\ active[id[c]] = object[c]
  BY <1>1, OwnEntry
<1>3. /\ cause' \in [Objects -> Causes] /\ \A p \in Objects : cause'[p] = "expired" => p \in expired
      /\ disconnected' \in SUBSET Calls
  BY <1>1 DEF RetirementInv, Flagged, CausesAreTrue
<1>4. CASE AllocationFailed(c)
  <2>1. /\ active' = [active EXCEPT ![id[c]] = None]
        /\ retired' = RetiredFor({object[c]}, "allocation-failed")
    BY <1>2, <1>4 DEF AllocationFailed, RetireById
  <2>2. "allocation-failed" \in Reasons
    BY DEF Reasons
  <2> QED BY <1>1, <1>2, <1>3, <2>1, <2>2, RemoveStep
<1>5. CASE AllocationStopped(c)
  <2> DEFINE why == IF object[c] \in expired THEN "expired" ELSE "cancelled"
  <2>1. /\ active' = [active EXCEPT ![id[c]] = None] /\ retired' = RetiredFor({object[c]}, why)
        /\ cause[object[c]] # "none" \/ object[c] \in expired
    BY <1>2, <1>5 DEF AllocationStopped, RetireById, cancelled
  <2>2. why \in Reasons /\ why # "completed" /\ why # "failed" /\ (why = "expired" => object[c] \in expired)
    BY DEF Reasons
  <2>3. why = "cancelled" => cause'[object[c]] = "cancelled"
    BY <1>1, <1>2, <1>3, <2>1 DEF Causes
  <2> HIDE DEF why
  <2> QED BY <1>1, <1>2, <1>3, <2>1, <2>2, <2>3, RemoveStep
<1> QED BY <1>4, <1>5

\* An allocation that was kept: nobody told the request to stop.
LEMMA KeptTrue ==
  ASSUME RetirementInv, NEW c \in Calls, AllocationKept(c)
  PROVE  StepOK
<1> DEFINE o == object[c]
<1>1. /\ UNCHANGED <<active, shape, cause, expired>> /\ retired' = Silence /\ cause[o] = "none"
      /\ allocating' = allocating \ {o} /\ running' \in {running, running \cup {o}}
      /\ disconnected' \in {disconnected, disconnected \ {c}}
  BY DEF AllocationKept, Leave, cancelled
<1>2. /\ cause' \in [Objects -> Causes] /\ \A p \in Objects : cause'[p] = "expired" => p \in expired'
      /\ disconnected' \in SUBSET Calls /\ expired' \in SUBSET Objects
  BY <1>1 DEF RetirementInv, Flagged, CausesAreTrue
<1>3. ASSUME NEW i \in Ids, active[i] # None, active[i] \notin running', active[i] \notin allocating'
      PROVE  cause'[active[i]] = "none"
  BY <1>1, <1>3 DEF RetirementInv, CausesAreTrue, Idle
<1> QED BY <1>1, <1>2, <1>3, StayStep

\* stop() keeps the types, and touches one request.
LEMMA StopFacts ==
  ASSUME RetirementInv, NEW o \in Objects, NEW why \in {"cancelled", "expired"},
         why = "expired" => o \in expired
  PROVE  /\ Stop(o, why) \in [Objects -> Causes]
         /\ \A p \in Objects : Stop(o, why)[p] = "expired" => p \in expired
         /\ \A p \in Objects : p # o => Stop(o, why)[p] = cause[p]
         /\ Stop(o, why)[o] = IF cause[o] = "none" THEN why ELSE cause[o]
BY DEF RetirementInv, Flagged, CausesAreTrue, Stop, Causes

\* CancelRequest retires an idle request and marks a working one.
LEMMA CancelTrue ==
  ASSUME RetirementInv, OwnershipInv', NEW i \in Ids, CancelRequest(i)
  PROVE  StepOK
<1> DEFINE o == active[i]
<1>1. /\ o # None /\ cause' = Stop(o, "cancelled")
      /\ UNCHANGED <<shape, allocating, running, expired, disconnected>>
  BY DEF CancelRequest, callVars
<1>2. o \in Objects
  BY <1>1 DEF RetirementInv, OwnershipInv, Typed
<1>3. /\ cause' \in [Objects -> Causes] /\ \A p \in Objects : cause'[p] = "expired" => p \in expired
      /\ \A p \in Objects : p # o => cause'[p] = cause[p]
      /\ cause[o] = "none" => cause'[o] = "cancelled"
  BY <1>1, <1>2, StopFacts
<1>4. disconnected' \in SUBSET Calls /\ expired' \in SUBSET Objects
      /\ active \in [Ids -> Objects \cup {None}]
  BY <1>1 DEF RetirementInv, Flagged, OwnershipInv, Typed
<1>5. CASE Idle(o)
  <2>1. active' = [active EXCEPT ![i] = None] /\ retired' = RetiredFor({o}, "cancelled")
    BY <1>5 DEF CancelRequest
  <2>2. cause'[o] = "cancelled"
    BY <1>1, <1>3, <1>5 DEF RetirementInv, CausesAreTrue
  <2>3. "cancelled" \in Reasons
    BY DEF Reasons
  <2> QED BY <1>1, <1>2, <1>3, <1>4, <2>1, <2>2, <2>3, RemoveStep
<1>6. CASE ~Idle(o)
  <2>1. active' = active
    BY <1>4, <1>6 DEF CancelRequest
  <2>2. retired' = Silence
    BY <1>6 DEF CancelRequest, RetiredFor, Silence
  <2>3. ASSUME NEW j \in Ids, active[j] # None, active[j] \notin running', active[j] \notin allocating'
        PROVE  cause'[active[j]] = "none"
    <3>1. active[j] # o /\ Idle(active[j]) /\ active[j] \in Objects
      BY <1>1, <1>4, <1>6, <2>3 DEF Idle
    <3>2. cause[active[j]] = "none"
      BY <2>3, <3>1 DEF RetirementInv, CausesAreTrue
    <3> QED BY <1>3, <3>1, <3>2
  <2> QED BY <1>1, <1>3, <1>4, <2>1, <2>2, <2>3, StayStep
<1> QED BY <1>5, <1>6

\* release(kCompleted) by the handler that committed.
LEMMA CompleteTrue ==
  ASSUME RetirementInv, OwnershipInv', NEW c \in Calls, Complete(c)
  PROVE  StepOK
<1>1. phase[c] = "committing" /\ phase[c] \in Owning
      /\ UNCHANGED <<shape, allocating, cause, expired, disconnected>>
  BY DEF Complete, Owning, Executing
<1>2. id[c] \in Ids /\ object[c] \in Objects /\ active[id[c]] = object[c]
  BY <1>1, OwnEntry
<1>3. /\ active' = [active EXCEPT ![id[c]] = None] /\ running' = running \ {object[c]}
      /\ retired' = RetiredFor({object[c]}, "completed")
  BY <1>2 DEF Complete, Release
<1>4. /\ cause' \in [Objects -> Causes] /\ \A p \in Objects : cause'[p] = "expired" => p \in expired
      /\ disconnected' \in SUBSET Calls /\ "completed" \in Reasons
  BY <1>1 DEF RetirementInv, Flagged, CausesAreTrue, Reasons
<1> QED BY <1>1, <1>2, <1>3, <1>4, RemoveStep

\* What a handler or its watchdog records.
LEMMA OwnStopFacts ==
  ASSUME RetirementInv, NEW o \in Objects
  PROVE  /\ OwnStop(o) \in [Objects -> Causes]
         /\ \A p \in Objects : OwnStop(o)[p] = "expired" => p \in expired
         /\ \A p \in Objects : p # o => OwnStop(o)[p] = cause[p]
<1> DEFINE why == IF o \in expired THEN "expired" ELSE "cancelled"
<1>1. why \in {"cancelled", "expired"} /\ (why = "expired" => o \in expired)
  OBVIOUS
<1>2. OwnStop(o) = Stop(o, why)
  BY DEF OwnStop
<1> HIDE DEF why
<1> QED BY <1>1, <1>2, StopFacts

\* ~RequestGuard classifies a failure by what was recorded and by the clock; behind
\* kCompleted it finds nothing to release.
LEMMA UnwindTrue ==
  ASSUME RetirementInv, OwnershipInv', NEW c \in Calls, Unwind(c)
  PROVE  StepOK
<1> DEFINE o == object[c]
           why == FailureReason(o, cause'[o])
<1>1. /\ phase[c] \in {"running", "completed"} /\ cause' \in {cause, OwnStop(o)}
      /\ Release(c, why) /\ UNCHANGED <<shape, allocating, expired, disconnected>>
  BY DEF Unwind
<1>2. o \in Objects /\ id[c] \in Ids
  BY <1>1 DEF RetirementInv, OwnershipInv, Owners, Executes, Executing, Released
<1>3. /\ cause' \in [Objects -> Causes] /\ \A p \in Objects : cause'[p] = "expired" => p \in expired
      /\ \A p \in Objects : p # o => cause'[p] = cause[p]
  <2>1. CASE cause' = cause
    BY <2>1 DEF RetirementInv, Flagged, CausesAreTrue
  <2>2. CASE cause' = OwnStop(o)
    BY <1>2, <2>2, OwnStopFacts
  <2> QED BY <1>1, <2>1, <2>2
<1>4. disconnected' \in SUBSET Calls /\ expired' \in SUBSET Objects
  BY <1>1 DEF RetirementInv, Flagged
<1>5. /\ why \in Reasons /\ why # "completed"
      /\ why = "cancelled" => cause'[o] = "cancelled"
      /\ why = "expired" => o \in expired
      /\ why = "failed" => cause'[o] = "none" /\ o \notin expired
  BY <1>2, <1>3 DEF FailureReason, Reasons, Causes
<1>6. CASE phase[c] = "running"
  <2>1. active[id[c]] = o
    BY <1>6, OwnEntry DEF Owning, Executing
  <2>2. /\ active' = [active EXCEPT ![id[c]] = None] /\ running' = running \ {o}
        /\ retired' = RetiredFor({o}, why)
    BY <1>1, <2>1 DEF Release
  <2> HIDE DEF why
  <2> QED BY <1>1, <1>2, <1>3, <1>4, <1>5, <2>1, <2>2, RemoveStep
<1>7. CASE phase[c] = "completed"
  <2>1. \A i \in Ids : active[i] # o
    BY <1>7 DEF RetirementInv, OwnershipInv, Owners, Released
  <2>2. UNCHANGED <<active, running>> /\ retired' = Silence
    BY <1>1, <1>2, <2>1 DEF Release
  <2>3. ASSUME NEW i \in Ids, active[i] # None, active[i] \notin running', active[i] \notin allocating'
        PROVE  cause'[active[i]] = "none"
    <3>1. Idle(active[i]) /\ active[i] \in Objects
      BY <1>1, <2>2, <2>3 DEF Idle, RetirementInv, OwnershipInv, Typed
    <3>2. cause[active[i]] = "none"
      BY <2>3, <3>1 DEF RetirementInv, CausesAreTrue
    <3> QED BY <1>3, <2>1, <3>1, <3>2
  <2> QED BY <1>1, <1>3, <1>4, <2>2, <2>3, StayStep
<1> QED BY <1>1, <1>6, <1>7

\* The watchdog tells a request to stop that a handler is executing.
LEMMA WatchdogTrue ==
  ASSUME RetirementInv, NEW c \in Calls, Watchdog(c)
  PROVE  StepOK
<1> DEFINE o == object[c]
<1>1. /\ phase[c] = "running" /\ cause' = OwnStop(o) /\ retired' = Silence
      /\ disconnected' \in {disconnected, disconnected \cup {c}}
      /\ UNCHANGED <<active, shape, allocating, running, expired>>
  BY DEF Watchdog
<1>2. o \in Objects /\ o \in running
  BY <1>1, OwnEntry DEF Owning, Executing
<1>3. /\ cause' \in [Objects -> Causes] /\ \A p \in Objects : cause'[p] = "expired" => p \in expired
      /\ \A p \in Objects : p # o => cause'[p] = cause[p]
  BY <1>1, <1>2, OwnStopFacts
<1>4. disconnected' \in SUBSET Calls /\ expired' \in SUBSET Objects
  BY <1>1 DEF RetirementInv, Flagged
<1>5. ASSUME NEW i \in Ids, active[i] # None, active[i] \notin running', active[i] \notin allocating'
      PROVE  cause'[active[i]] = "none"
  <2>1. Idle(active[i]) /\ active[i] \in Objects /\ active[i] # o
    BY <1>1, <1>2, <1>5 DEF Idle, RetirementInv, OwnershipInv, Typed
  <2>2. cause[active[i]] = "none"
    BY <1>5, <2>1 DEF RetirementInv, CausesAreTrue
  <2> QED BY <1>3, <2>1, <2>2
<1> QED BY <1>1, <1>3, <1>4, <1>5, StayStep

\* The invariant holds at the start.
LEMMA InitRetirement == Init => RetirementInv
<1> SUFFICES ASSUME Init PROVE RetirementInv
  OBVIOUS
<1>1. OwnershipInv
  BY InitOwnership
<1>2. Flagged /\ CausesAreTrue
  BY DEF Init, Flagged, CausesAreTrue, Causes, Reasons, Silence
<1>3. Mapped = {}
  BY DEF Init, Mapped
<1>4. Cardinality({}) = 0 /\ maximum_active_requests \in Nat
  BY FS_EmptySet, ControlAssumption
<1>5. WithinLimit
  BY <1>3, <1>4 DEF WithinLimit
<1> QED BY <1>1, <1>2, <1>5 DEF RetirementInv

\* Every action keeps the invariant and tells the truth about who it retires.
LEMMA NextTrue ==
  ASSUME RetirementInv, Next
  PROVE  StepOK
<1>0. OwnershipInv'
  BY NextOwnership DEF RetirementInv
<1>1. CASE Prune \/ UnloadStage \/ \E d \in Deployments : LoadStage(d)
  BY <1>0, <1>1, PruneStep DEF Prune, UnloadStage, LoadStage, callVars
<1>2. ASSUME NEW c \in Calls, NEW i \in Ids, NEW sh \in Shapes, AcquireReserved(c, i, sh)
      PROVE  StepOK
  <2>1. PruneExpired /\ UNCHANGED <<shape, expired, allocating, disconnected>>
        /\ PrunedActive[i] # None /\ running' = running \cup {PrunedActive[i]}
    BY <1>2 DEF AcquireReserved
  <2>2. PrunedActive[i] \in Objects
    BY <2>1, PruneFacts DEF RetirementInv
  <2> QED BY <1>0, <2>1, <2>2, PruneStep
<1>3. ASSUME NEW c \in Calls, NEW i \in Ids, NEW sh \in Shapes, NEW exec \in BOOLEAN,
             NEW o \in Objects, Reserve(c, exec, i, sh, o)
      PROVE  StepOK
  BY <1>0, <1>3, ReserveTrue
<1>4. ASSUME NEW c \in Calls, AllocationFailed(c) \/ AllocationStopped(c) PROVE StepOK
  BY <1>0, <1>4, AllocationEndsTrue
<1>5. ASSUME NEW c \in Calls, AllocationKept(c) PROVE StepOK
  BY <1>5, KeptTrue
<1>6. ASSUME NEW c \in Calls, Allocate(c) \/ CheckRunning(c) \/ DropLease(c) \/ Disconnect(c)
      PROVE  StepOK
  <2>1. UNCHANGED <<active, shape, cause, allocating, running, expired>> /\ retired' = Silence
        /\ disconnected' \in {disconnected, disconnected \ {c}, disconnected \cup {c}}
    BY <1>6 DEF Allocate, CheckRunning, DropLease, Disconnect, Leave, requestVars
  <2>2. expired' \in SUBSET Objects /\ disconnected' \in SUBSET Calls
    BY <2>1 DEF RetirementInv, Flagged
  <2> QED BY <2>1, <2>2, SilentStep
<1>7. ASSUME NEW c \in Calls, Complete(c) PROVE StepOK
  BY <1>0, <1>7, CompleteTrue
<1>8. ASSUME NEW c \in Calls, Unwind(c) PROVE StepOK
  BY <1>0, <1>8, UnwindTrue
<1>9. ASSUME NEW c \in Calls, Watchdog(c) PROVE StepOK
  BY <1>9, WatchdogTrue
<1>10. ASSUME NEW i \in Ids, CancelRequest(i) PROVE StepOK
  BY <1>0, <1>10, CancelTrue
<1>11. ASSUME NEW o \in Objects, Expire(o) PROVE StepOK
  <2>1. /\ UNCHANGED <<active, shape, cause, allocating, running, disconnected>> /\ retired' = Silence
        /\ expired' = expired \cup {o}
    BY <1>11 DEF Expire, callVars
  <2>2. expired' \in SUBSET Objects /\ expired \subseteq expired' /\ disconnected' \in SUBSET Calls
    BY <2>1 DEF RetirementInv, Flagged
  <2> QED BY <2>1, <2>2, SilentStep
<1> QED
  BY <1>1, <1>2, <1>3, <1>4, <1>5, <1>6, <1>7, <1>8, <1>9, <1>10, <1>11 DEF Next

\* Every reachable state satisfies the invariant about flags, causes and the limit.
THEOREM RetirementInvariant == Spec => []RetirementInv
<1>1. RetirementInv /\ [Next]_vars => RetirementInv'
  <2> SUFFICES ASSUME RetirementInv, [Next]_vars PROVE RetirementInv'
    OBVIOUS
  <2>1. OwnershipInv'
    BY NextOwnership DEF RetirementInv
  <2>2. CASE Next
    BY <2>1, <2>2, NextTrue DEF RetirementInv, StepOK
  <2>3. CASE UNCHANGED vars
    <3>1. Flagged' /\ CausesAreTrue' /\ WithinLimit'
      BY <2>3 DEF RetirementInv, Flagged, CausesAreTrue, WithinLimit, Idle, Mapped, vars,
                  requestVars, callVars
    <3> QED BY <2>1, <3>1 DEF RetirementInv
  <2> QED BY <2>2, <2>3
<1> QED BY <1>1, InitRetirement, PTL DEF Spec

\* Every variable keeps its type, and the table never outgrows
\* maximum_active_requests: reserve() counts what the prune leaves before it admits.
THEOREM TableStaysWithinLimit == Spec => []TypeOK
<1>1. RetirementInv => TypeOK
  BY DEF RetirementInv, OwnershipInv, Typed, Flagged, WithinLimit, TypeOK
<1> QED BY <1>1, RetirementInvariant, PTL

\* The lifecycle log tells the truth: a request is reported retired exactly when it
\* leaves the table, and as completed, cancelled, expired or failed only if it was.
THEOREM RetirementsAreReported == Spec => RetirementsAreTrue
<1>1. RetirementInv /\ [Next]_vars => [TrueStep]_vars
  BY NextTrue DEF StepOK
<1> QED BY <1>1, RetirementInvariant, PTL DEF Spec, RetirementsAreTrue, TrueStep
-----------------------------------------------------------------------------
(* Sums over finite sets. *)

\* Every element of S has a size.
Sizes(bytes, S) == \A o \in S : bytes[o] \in Nat

\* S as a set of unit pieces: its cardinality is the sum of the sizes, a
\* definition of the sum without recursion.
Units(bytes, S) == UNION {{o} \X (1..bytes[o]) : o \in S}

\* A finite set of elements with sizes has finitely many pieces.
LEMMA UnitsAreFinite ==
  ASSUME NEW S, IsFiniteSet(S), NEW bytes, Sizes(bytes, S)
  PROVE  IsFiniteSet(Units(bytes, S))
<1> DEFINE at == [o \in S |-> {o} \X (1..bytes[o])]
           all == {{o} \X (1..bytes[o]) : o \in S}
<1>1. at \in Surjection(S, all)
  BY DEF Surjection
<1>2. IsFiniteSet(all)
  <2> HIDE DEF at, all
  <2> QED BY <1>1, FS_Surjection
<1>3. ASSUME NEW o \in S
      PROVE  IsFiniteSet({o} \X (1..bytes[o]))
  <2>1. IsFiniteSet({o})
    BY FS_Singleton
  <2>2. IsFiniteSet(1..bytes[o])
    BY FS_Interval DEF Sizes
  <2> QED BY <2>1, <2>2, FS_Product
<1>4. \A T \in all : IsFiniteSet(T)
  BY <1>3
<1> QED BY <1>2, <1>4, FS_UNION DEF Units

\* An element contributes as many pieces as its size.
LEMMA UnitsOfOneMore ==
  ASSUME NEW S, IsFiniteSet(S), NEW bytes, Sizes(bytes, S), NEW x \in S
  PROVE  Cardinality(Units(bytes, S)) = bytes[x] + Cardinality(Units(bytes, S \ {x}))
<1> DEFINE own == {x} \X (1..bytes[x])
           rest == Units(bytes, S \ {x})
<1>1. IsFiniteSet(S \ {x}) /\ Sizes(bytes, S \ {x}) /\ bytes[x] \in Nat
  BY FS_RemoveElement DEF Sizes
<1>2. IsFiniteSet(rest) /\ Cardinality(rest) \in Nat
  BY <1>1, UnitsAreFinite, FS_CardinalityType
<1>3. IsFiniteSet(1..bytes[x]) /\ Cardinality(1..bytes[x]) = bytes[x]
  BY <1>1, FS_Interval
<1>4. IsFiniteSet({x}) /\ Cardinality({x}) = 1
  BY FS_Singleton
<1>5. IsFiniteSet(own) /\ Cardinality(own) = 1 * bytes[x]
  BY <1>3, <1>4, FS_Product
<1>6. Units(bytes, S) = own \cup rest
  BY DEF Units
<1>7. own \cap rest = {}
  BY DEF Units
<1>8. Cardinality(own \cap rest) = 0
  BY <1>7, FS_EmptySet
<1> HIDE DEF own, rest
<1>9. Cardinality(own \cup rest) = Cardinality(own) + Cardinality(rest) - Cardinality(own \cap rest)
  BY <1>2, <1>5, FS_Union
<1> QED BY <1>1, <1>2, <1>5, <1>6, <1>8, <1>9 DEF rest

\* The sum that the model folds over a set counts the pieces.  The count satisfies
\* the recursive equation of the fold, so a function that satisfies it exists, and
\* two functions that do agree: a smallest subset where they differ is neither
\* empty nor has an element to take away.
LEMMA TotalCountsUnits ==
  ASSUME NEW S, IsFiniteSet(S), NEW bytes, Sizes(bytes, S)
  PROVE  Total(bytes, S) = Cardinality(Units(bytes, S))
<1> DEFINE some(s) == CHOOSE x \in s : TRUE
           body(g) == [s \in SUBSET S |-> IF s = {} THEN 0
                                          ELSE bytes[some(s)] + g[s \ {some(s)}]]
           sums == CHOOSE g : g = body(g)
           units == [s \in SUBSET S |-> Cardinality(Units(bytes, s))]
<1>1. Total(bytes, S) = sums[S]
  BY DEF Total, MapThenSumSet, MapThenFoldSet
<1>2. ASSUME NEW s \in SUBSET S, s # {}
      PROVE  /\ some(s) \in s /\ s \ {some(s)} \in SUBSET S
             /\ units[s] = bytes[some(s)] + units[s \ {some(s)}]
  <2>1. some(s) \in s
    BY <1>2
  <2>2. IsFiniteSet(s) /\ Sizes(bytes, s)
    BY FS_Subset DEF Sizes
  <2> HIDE DEF some
  <2> QED BY <2>1, <2>2, UnitsOfOneMore
<1>3. units[{}] = 0
  <2>1. Units(bytes, {}) = {}
    BY DEF Units
  <2> QED BY <2>1, FS_EmptySet
<1>4. units = body(units)
  <2> HIDE DEF some
  <2>1. \A s \in SUBSET S : units[s] = IF s = {} THEN 0 ELSE bytes[some(s)] + units[s \ {some(s)}]
    <3> HIDE DEF units
    <3> QED BY <1>2, <1>3
  <2>2. units = [s \in SUBSET S |-> units[s]]
    OBVIOUS
  <2> HIDE DEF units
  <2> QED BY <2>1, <2>2
<1>5. sums = body(sums)
  <2> HIDE DEF body, units
  <2> QED BY <1>4
<1>6. \A s \in SUBSET S : sums[s] = units[s]
  <2> DEFINE wrong == {s \in SUBSET S : sums[s] # units[s]}
  <2> SUFFICES ASSUME wrong # {}
               PROVE  FALSE
    BY DEF wrong
  <2>1. FiniteSubsetsOf(S) = SUBSET S
    BY FS_FiniteSubsetsOfFinite
  <2>2. PICK s \in wrong : \A t \in wrong : <<t, s>> \notin StrictSubsetOrdering(S)
    <3> HIDE DEF wrong
    <3>1. wrong \subseteq FiniteSubsetsOf(S)
      BY <2>1 DEF wrong
    <3> QED BY <3>1, FS_StrictSubsetOrderingWellFounded, WFMin
  <2>3. sums[s] = IF s = {} THEN 0 ELSE bytes[some(s)] + sums[s \ {some(s)}]
    <3> HIDE DEF some, sums
    <3> QED BY <1>5
  <2>4. CASE s = {}
    <3> HIDE DEF some, sums, units
    <3> QED BY <2>3, <2>4, <1>3
  <2>5. CASE s # {}
    <3> DEFINE t == s \ {some(s)}
    <3>1. /\ some(s) \in s /\ t \in SUBSET S
          /\ units[s] = bytes[some(s)] + units[t]
      <4> HIDE DEF some, units
      <4> QED BY <2>5, <1>2
    <3> HIDE DEF some
    <3>2. <<t, s>> \in StrictSubsetOrdering(S)
      BY <3>1 DEF StrictSubsetOrdering
    <3>3. sums[t] = units[t]
      <4> HIDE DEF t, units, sums
      <4> QED BY <3>1, <3>2, <2>2
    <3> HIDE DEF units, sums
    <3> QED BY <2>3, <2>5, <3>1, <3>3
  <2> QED BY <2>4, <2>5
<1> HIDE DEF sums, body
<1> QED BY <1>1, <1>6
\* A larger set, with the same sizes where both have one, has a larger sum.
LEMMA TotalGrows ==
  ASSUME NEW S, NEW T, T \subseteq S, IsFiniteSet(S), NEW f, NEW g,
         Sizes(f, T), Sizes(g, S), \A o \in T : f[o] = g[o]
  PROVE  Total(f, T) \in Nat /\ Total(g, S) \in Nat /\ Total(f, T) <= Total(g, S)
<1>1. IsFiniteSet(T)
  BY FS_Subset
<1>2. Total(f, T) = Cardinality(Units(f, T)) /\ Total(g, S) = Cardinality(Units(g, S))
  BY <1>1, TotalCountsUnits
<1>3. IsFiniteSet(Units(f, T)) /\ IsFiniteSet(Units(g, S))
  BY <1>1, UnitsAreFinite
<1>4. Units(f, T) \in SUBSET Units(g, S)
  BY DEF Units
<1>5. Cardinality(Units(f, T)) <= Cardinality(Units(g, S))
  BY <1>3, <1>4, FS_Subset
<1>6. Cardinality(Units(f, T)) \in Nat /\ Cardinality(Units(g, S)) \in Nat
  BY <1>3, FS_CardinalityType
<1> QED BY <1>2, <1>5, <1>6

\* A bounded set of natural numbers that is not empty has a maximum.
LEMMA BoundedMax ==
  ASSUME NEW A, A \subseteq Nat, A # {}, NEW n \in Nat, \A a \in A : a <= n
  PROVE  Max(A) \in A /\ \A a \in A : a <= Max(A)
<1> DEFINE bounds == {m \in Nat : \A a \in A : a <= m}
<1>1. PICK m \in bounds : \A k \in bounds : <<k, m>> \notin OpToRel(<, Nat)
  <2>1. bounds \subseteq Nat /\ bounds # {}
    OBVIOUS
  <2> HIDE DEF bounds
  <2> QED BY <2>1, NatLessThanWellFounded, WFMin
<1>2. \A k \in bounds : ~(k < m)
  BY <1>1, Zenon DEF OpToRel
<1>3. m \in A
  <2> SUFFICES ASSUME m \notin A
               PROVE  FALSE
    OBVIOUS
  <2>0. PICK b \in A : b \in Nat
    OBVIOUS
  <2>1. m - 1 \in Nat /\ \A a \in A : a <= m - 1
    <3>1. \A a \in A : a \in Nat /\ m \in Nat /\ a <= m /\ a # m
      OBVIOUS
    <3>2. \A a \in A : a <= m - 1
      BY <3>1
    <3> QED BY <2>0, <3>1, <3>2
  <2>2. m - 1 \in bounds /\ m - 1 < m
    BY <2>1
  <2> QED BY <1>2, <2>2
<1>4. \E x \in A : \A y \in A : x >= y
  BY <1>3
<1> QED BY <1>4 DEF Max

\* The entries that can be in one pass together.
Passes(S) == {T \in SUBSET S : Cardinality(T) <= PassRows}

\* largest_workspaces() is the workspace of some pass, and of no smaller one.
LEMMA LargestFacts ==
  ASSUME NEW S, IsFiniteSet(S), NEW ws, Sizes(ws, S)
  PROVE  /\ \E T \in Passes(S) : LargestWorkspaces(S, ws) = Total(ws, T)
         /\ \A T \in Passes(S) : Total(ws, T) <= LargestWorkspaces(S, ws)
         /\ LargestWorkspaces(S, ws) \in Nat
<1> DEFINE sums == {Total(ws, T) : T \in Passes(S)}
<1>1. \A T \in SUBSET S : Total(ws, T) \in Nat /\ Total(ws, S) \in Nat /\ Total(ws, T) <= Total(ws, S)
  BY TotalGrows DEF Sizes
<1>2. {} \in Passes(S)
  BY FS_EmptySet, ControlAssumption DEF Passes
<1>3. sums \subseteq Nat /\ sums # {} /\ Total(ws, S) \in Nat /\ \A a \in sums : a <= Total(ws, S)
  BY <1>1, <1>2 DEF Passes
<1>4. Max(sums) \in sums /\ \A a \in sums : a <= Max(sums)
  <2> HIDE DEF sums
  <2> QED BY <1>3, BoundedMax
<1>5. LargestWorkspaces(S, ws) = Max(sums)
  BY DEF LargestWorkspaces, Passes
<1> QED BY <1>3, <1>4, <1>5

\* More entries cannot need less workspace.
LEMMA LargestGrows ==
  ASSUME NEW S, NEW T, T \subseteq S, IsFiniteSet(S), NEW f, NEW g,
         Sizes(f, T), Sizes(g, S), \A o \in T : f[o] = g[o]
  PROVE  /\ LargestWorkspaces(T, f) \in Nat /\ LargestWorkspaces(S, g) \in Nat
         /\ LargestWorkspaces(T, f) <= LargestWorkspaces(S, g)
<1>1. IsFiniteSet(T)
  BY FS_Subset
<1>2. LargestWorkspaces(T, f) \in Nat /\ LargestWorkspaces(S, g) \in Nat
  BY <1>1, LargestFacts
<1>3. PICK P \in Passes(T) : LargestWorkspaces(T, f) = Total(f, P)
  BY <1>1, LargestFacts
<1>4. P \in Passes(S) /\ P \subseteq T /\ P \subseteq S
  BY DEF Passes
<1>5. IsFiniteSet(P) /\ Sizes(f, P) /\ Sizes(g, P) /\ \A o \in P : f[o] = g[o]
  BY <1>1, <1>4, FS_Subset DEF Sizes
<1>6. Total(f, P) <= Total(g, P) /\ Total(g, P) \in Nat
  BY <1>5, TotalGrows
<1>7. Total(g, P) <= LargestWorkspaces(S, g)
  BY <1>4, LargestFacts
<1> QED BY <1>2, <1>3, <1>6, <1>7

\* Nothing needs no memory.
LEMMA NothingIsFree ==
  ASSUME NEW f
  PROVE  Total(f, {}) = 0 /\ LargestWorkspaces({}, f) = 0
<1>1. IsFiniteSet({}) /\ Sizes(f, {})
  BY FS_EmptySet DEF Sizes
<1>2. Total(f, {}) = 0
  <2>1. Units(f, {}) = {}
    BY DEF Units
  <2> QED BY <1>1, <2>1, TotalCountsUnits, FS_EmptySet
<1>3. PICK T \in Passes({}) : LargestWorkspaces({}, f) = Total(f, T)
  BY <1>1, LargestFacts
<1>4. T = {}
  BY DEF Passes
<1> QED BY <1>2, <1>3, <1>4

-----------------------------------------------------------------------------
(* The memory of the requests in the table. *)

\* What a set of entries uses: all their caches and the workspace of one pass.
Caches(S, sizes) == [o \in S |-> CacheBytes(sizes[o])]
Workspaces(S, sizes) == [o \in S |-> WorkspaceBytes(sizes[o])]
Needs(S, sizes) == Total(Caches(S, sizes), S) + LargestWorkspaces(S, Workspaces(S, sizes))

\* Every entry has a shape, and the table fits beside the loaded weights.
Sized == \A o \in Mapped : shape[o] \in Shapes
TableFits == deployment # None => WeightBytes + Needs(Mapped, shape) <= Capacity

MemoryInv == RetirementInv /\ Sized /\ TableFits

\* Fewer entries of the same shapes need no more.
LEMMA FewerNeedLess ==
  ASSUME NEW S, NEW T, NEW U, T \subseteq S, U \subseteq S, IsFiniteSet(S), NEW f, NEW g,
         \A o \in S : g[o] \in Shapes, \A o \in T \cup U : f[o] = g[o]
  PROVE  /\ Needs(S, g) \in Nat
         /\ Total(Caches(T, f), T) + LargestWorkspaces(U, Workspaces(U, f)) \in Nat
         /\ Total(Caches(T, f), T) + LargestWorkspaces(U, Workspaces(U, f)) <= Needs(S, g)
<1>1. /\ Sizes(Caches(S, g), S) /\ Sizes(Caches(T, f), T)
      /\ \A o \in T : Caches(T, f)[o] = Caches(S, g)[o]
  BY ControlAssumption DEF Sizes, Caches
<1>2. /\ Sizes(Workspaces(S, g), S) /\ Sizes(Workspaces(U, f), U)
      /\ \A o \in U : Workspaces(U, f)[o] = Workspaces(S, g)[o]
  BY ControlAssumption DEF Sizes, Workspaces
<1>3. /\ Total(Caches(T, f), T) \in Nat /\ Total(Caches(S, g), S) \in Nat
      /\ Total(Caches(T, f), T) <= Total(Caches(S, g), S)
  BY <1>1, TotalGrows
<1>4. /\ LargestWorkspaces(U, Workspaces(U, f)) \in Nat /\ LargestWorkspaces(S, Workspaces(S, g)) \in Nat
      /\ LargestWorkspaces(U, Workspaces(U, f)) <= LargestWorkspaces(S, Workspaces(S, g))
  BY <1>2, LargestGrows
<1> QED BY <1>3, <1>4 DEF Needs

\* The table still fits when entries leave it.
LEMMA LeavingFits ==
  ASSUME MemoryInv, \A i \in Ids : active'[i] \in {active[i], None}, shape' = shape,
         deployment' \in {deployment, None}
  PROVE  Sized' /\ TableFits'
<1>1. Mapped' \subseteq Mapped
  BY DEF Mapped
<1>2. Sized'
  BY <1>1 DEF MemoryInv, Sized
<1>3. ASSUME deployment' # None
      PROVE  WeightBytes + Needs(Mapped', shape') <= Capacity
  <2>1. WeightBytes + Needs(Mapped, shape) <= Capacity /\ WeightBytes \in Nat /\ Capacity \in Nat
    BY <1>3, ControlAssumption DEF MemoryInv, TableFits
  <2>2. IsFiniteSet(Mapped)
    BY MappedFacts DEF MemoryInv, RetirementInv
  <2>3. Needs(Mapped', shape') \in Nat /\ Needs(Mapped, shape) \in Nat
        /\ Needs(Mapped', shape') <= Needs(Mapped, shape)
    BY <1>1, <2>2, FewerNeedLess DEF MemoryInv, Sized, Needs
  <2> QED BY <2>1, <2>3
<1> QED BY <1>2, <1>3 DEF TableFits

\* LoadStage finds an empty table and checks the weights.
LEMMA LoadingFits ==
  ASSUME MemoryInv, NEW d \in Deployments, LoadStage(d)
  PROVE  Sized' /\ TableFits'
<1>1. deployment = None /\ WeightBytes <= Capacity /\ active' = PrunedActive
  BY DEF LoadStage, PruneExpired
<1>2. \A i \in Ids : active[i] = None
  BY <1>1 DEF MemoryInv, RetirementInv, OwnershipInv, Listed
<1>3. \A i \in Ids : active'[i] = None
  BY <1>1, <1>2, PruneFacts DEF MemoryInv, RetirementInv
<1>4. Mapped' = {}
  BY <1>3 DEF Mapped
<1>5. Needs({}, shape') = 0
  BY NothingIsFree DEF Needs
<1>6. WeightBytes + Needs(Mapped', shape') <= Capacity
  BY <1>1, <1>4, <1>5, ControlAssumption
<1> QED BY <1>4, <1>6 DEF Sized, TableFits

\* reserve() checks exactly the table it leaves behind.
LEMMA ReservingFits ==
  ASSUME MemoryInv, OwnershipInv', NEW c \in Calls, NEW exec \in BOOLEAN, NEW i \in Ids,
         NEW sh \in Shapes, NEW o \in Objects, Reserve(c, exec, i, sh, o)
  PROVE  Sized' /\ TableFits'
<1>1. /\ PrunedActive[i] = None /\ FreeObject(o) /\ Fits(Mapped \ Stale, o, sh)
      /\ active' = [PrunedActive EXCEPT ![i] = o] /\ shape' = [shape EXCEPT ![o] = sh]
  BY DEF Reserve
<1>2. shape \in [Objects -> Shapes \cup {None}] /\ Mapped \subseteq Objects /\ o \notin Mapped
  BY <1>1, MappedFacts DEF MemoryInv, RetirementInv, Flagged, FreeObject
<1>3. Mapped' = (Mapped \ Stale) \cup {o}
  <2>1. PrunedActive \in [Ids -> Objects \cup {None}]
    BY PruneFacts DEF MemoryInv, RetirementInv
  <2>2. \A p \in Objects : p \in Mapped' <=> p = o \/ \E j \in Ids : PrunedActive[j] = p
    BY <1>1, <2>1, NewEntries, ControlAssumption
  <2>3. \A p \in Objects : p \in Mapped <=> \E j \in Ids : active[j] = p
    BY MappedFacts DEF MemoryInv, RetirementInv
  <2>4. \A p \in Objects : p \in Mapped' <=> p = o \/ (p \in Mapped /\ p \notin Stale)
    BY <2>2, <2>3, PruneRetires, ControlAssumption DEF MemoryInv
  <2> QED BY <1>2, <2>4, NewEntries
<1>4. Sized'
  BY <1>1, <1>2, <1>3 DEF MemoryInv, Sized
<1>5. /\ Caches(Mapped', shape') =
           [p \in (Mapped \ Stale) \cup {o} |-> CacheBytes(IF p = o THEN sh ELSE shape[p])]
      /\ Workspaces(Mapped', shape') =
           [p \in (Mapped \ Stale) \cup {o} |-> WorkspaceBytes(IF p = o THEN sh ELSE shape[p])]
  BY <1>1, <1>2, <1>3 DEF Caches, Workspaces
<1>6. WeightBytes + Total(Caches(Mapped', shape'), Mapped')
        + LargestWorkspaces(Mapped', Workspaces(Mapped', shape')) <= Capacity
  BY <1>1, <1>3, <1>5 DEF Fits
<1>7. IsFiniteSet(Mapped')
  BY <1>3, MappedFacts, FS_Subset, FS_AddElement DEF MemoryInv, RetirementInv
<1>8. WeightBytes + Needs(Mapped', shape') <= Capacity
  <2>1. /\ Sizes(Caches(Mapped', shape'), Mapped') /\ Sizes(Workspaces(Mapped', shape'), Mapped')
    BY <1>4, ControlAssumption DEF Sizes, Caches, Workspaces, Sized
  <2>2. /\ Total(Caches(Mapped', shape'), Mapped') \in Nat
        /\ LargestWorkspaces(Mapped', Workspaces(Mapped', shape')) \in Nat
    BY <1>7, <2>1, TotalGrows, LargestFacts
  <2> QED BY <1>6, <2>2, ControlAssumption DEF Needs
<1> QED BY <1>4, <1>8 DEF TableFits

\* Every step keeps the table within the memory it was given.
LEMMA NextMemory ==
  ASSUME MemoryInv, [Next]_vars, RetirementInv'
  PROVE  MemoryInv'
<1>1. OwnershipInv'
  BY DEF RetirementInv
<1>2. PruneExpired => \A i \in Ids : active'[i] \in {active[i], None}
  BY PruneFacts DEF PruneExpired, MemoryInv, RetirementInv
<1>3. active \in [Ids -> Objects \cup {None}]
  BY DEF MemoryInv, RetirementInv, OwnershipInv, Typed
<1>4. CASE Prune \/ UnloadStage
  BY <1>2, <1>4, LeavingFits DEF Prune, UnloadStage, MemoryInv
<1>5. ASSUME NEW d \in Deployments, LoadStage(d) PROVE MemoryInv'
  BY <1>5, LoadingFits DEF MemoryInv
<1>6. ASSUME NEW c \in Calls, NEW i \in Ids, NEW sh \in Shapes, AcquireReserved(c, i, sh)
      PROVE  MemoryInv'
  BY <1>2, <1>6, LeavingFits DEF AcquireReserved, MemoryInv
<1>7. ASSUME NEW c \in Calls, NEW i \in Ids, NEW sh \in Shapes, NEW exec \in BOOLEAN,
             NEW o \in Objects, Reserve(c, exec, i, sh, o)
      PROVE  MemoryInv'
  BY <1>1, <1>7, ReservingFits DEF MemoryInv
<1>8. ASSUME NEW c \in Calls, AllocationFailed(c) \/ AllocationStopped(c) PROVE MemoryInv'
  BY <1>3, <1>8, LeavingFits DEF AllocationFailed, AllocationStopped, RetireById, MemoryInv
<1>9. ASSUME NEW c \in Calls, Complete(c) \/ Unwind(c) PROVE MemoryInv'
  BY <1>3, <1>9, LeavingFits DEF Complete, Unwind, Release, MemoryInv
<1>10. ASSUME NEW c \in Calls,
              \/ Allocate(c) \/ AllocationKept(c) \/ CheckRunning(c) \/ DropLease(c)
              \/ Watchdog(c) \/ Disconnect(c)
       PROVE  MemoryInv'
  <2>1. UNCHANGED <<active, shape, deployment>>
    BY <1>10 DEF Allocate, AllocationKept, CheckRunning, DropLease, Watchdog, Disconnect, requestVars
  <2> QED BY <2>1, LeavingFits DEF MemoryInv
<1>11. ASSUME NEW i \in Ids, CancelRequest(i) PROVE MemoryInv'
  BY <1>3, <1>11, LeavingFits DEF CancelRequest, MemoryInv
<1>12. ASSUME NEW o \in Objects, Expire(o) PROVE MemoryInv'
  BY <1>12, LeavingFits DEF Expire, MemoryInv
<1>13. CASE UNCHANGED vars
  <2>1. UNCHANGED <<active, shape, deployment>>
    BY <1>13 DEF vars, requestVars
  <2> QED BY <2>1, LeavingFits DEF MemoryInv
<1> QED
  BY <1>4, <1>5, <1>6, <1>7, <1>8, <1>9, <1>10, <1>11, <1>12, <1>13 DEF Next

\* In every reachable state the requests in the table, with all their caches and the
\* workspace of the widest pass they can form, fit beside the loaded weights.
THEOREM MemoryInvariant == Spec => []MemoryInv
<1>1. Init => MemoryInv
  <2> SUFFICES ASSUME Init PROVE MemoryInv
    OBVIOUS
  <2>1. Sized /\ TableFits
    BY DEF Init, Sized, TableFits, Mapped
  <2> QED BY <2>1, InitRetirement DEF MemoryInv
<1>2. MemoryInv /\ [Next]_vars /\ RetirementInv' => MemoryInv'
  BY NextMemory
<1> QED BY <1>1, <1>2, RetirementInvariant, PTL DEF Spec

\* The worker never uses more than its capacity: reserve() checks the table against
\* the budget before it admits a request and releases the mutex, entries only leave
\* afterwards, and only entries have a sequence or execute.
THEOREM MemoryIsWithinCapacity == Spec => []MemoryWithinCapacity
<1>1. MemoryInv => MemoryWithinCapacity
  <2> SUFFICES ASSUME MemoryInv, deployment # None
               PROVE  LET held == {o \in Objects : sequence[o] # None}
                          executing == {object[c] : c \in {d \in Calls : phase[d] \in Executing}}
                      IN  WeightBytes + Total(Caches(held, shape), held)
                            + LargestWorkspaces(executing, Workspaces(executing, shape)) <= Capacity
    BY DEF MemoryWithinCapacity, Caches, Workspaces
  <2> DEFINE held == {o \in Objects : sequence[o] # None}
             executing == {object[c] : c \in {d \in Calls : phase[d] \in Executing}}
             caches == Total(Caches(held, shape), held)
             pass == LargestWorkspaces(executing, Workspaces(executing, shape))
  <2>1. held \subseteq Mapped
    BY MappedFacts DEF MemoryInv, RetirementInv, OwnershipInv, Unlisted
  <2>2. executing \subseteq Mapped
    BY MappedFacts, OwnEntry DEF MemoryInv, RetirementInv, Owning
  <2>3. IsFiniteSet(Mapped)
    BY MappedFacts DEF MemoryInv, RetirementInv
  <2>4. WeightBytes + Needs(Mapped, shape) <= Capacity /\ WeightBytes \in Nat /\ Capacity \in Nat
    BY ControlAssumption DEF MemoryInv, TableFits
  <2> HIDE DEF held, executing
  <2>5. caches + pass \in Nat /\ caches + pass <= Needs(Mapped, shape) /\ Needs(Mapped, shape) \in Nat
    BY <2>1, <2>2, <2>3, FewerNeedLess DEF MemoryInv, Sized
  <2>6. caches \in Nat /\ pass \in Nat
    <3>1. Sizes(Caches(held, shape), held) /\ Sizes(Workspaces(executing, shape), executing)
      BY <2>1, <2>2, ControlAssumption DEF Sizes, Caches, Workspaces, MemoryInv, Sized
    <3> QED BY <2>1, <2>2, <2>3, <3>1, FS_Subset, TotalGrows, LargestFacts
  <2> HIDE DEF caches, pass
  <2>7. WeightBytes + caches + pass <= Capacity
    BY <2>4, <2>5, <2>6
  <2> QED BY <2>7 DEF caches, pass, held, executing
<1> QED BY <1>1, MemoryInvariant, PTL
=============================================================================
