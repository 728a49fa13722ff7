------------------------- MODULE HttpServingProofs --------------------------
(***************************************************************************)
(* Proofs about HttpServing, for every set of requests, every concurrency, *)
(* every queue length and one or two stages.                               *)
(***************************************************************************)
EXTENDS HttpServing, FiniteSetTheorems, SequenceTheorems, TLAPS

-----------------------------------------------------------------------------
(* The admission queue. *)

\* acquire() appends a ticket nobody else has.
LEMMA AppendWaiter ==
  ASSUME NEW S, NEW q \in Seq(S), NEW r \in S, IsInjective(q), r \notin Range(q)
  PROVE  /\ Append(q, r) \in Seq(S)
         /\ Len(Append(q, r)) = Len(q) + 1
         /\ IsInjective(Append(q, r))
         /\ Range(Append(q, r)) = Range(q) \cup {r}
<1> DEFINE p == Append(q, r)
<1>1. /\ DOMAIN q = 1..Len(q) /\ DOMAIN p = 1..(Len(q) + 1) /\ Len(q) \in Nat
      /\ \A i \in 1..Len(q) : p[i] = q[i]
      /\ p[Len(q) + 1] = r
      /\ p \in Seq(S) /\ Len(p) = Len(q) + 1
  BY AppendProperties
<1>2. \A i \in 1..Len(q) : q[i] # r
  BY <1>1 DEF Range
<1>3. IsInjective(p)
  BY <1>1, <1>2 DEF IsInjective
<1>4. Range(p) \subseteq Range(q) \cup {r}
  BY <1>1 DEF Range
<1>5. ASSUME NEW i \in DOMAIN q PROVE q[i] \in Range(p)
  <2>1. i \in DOMAIN p /\ p[i] = q[i]
    BY <1>1
  <2> QED BY <2>1 DEF Range
<1>6. r \in Range(p)
  <2>1. Len(q) + 1 \in DOMAIN p
    BY <1>1
  <2> QED BY <1>1, <2>1 DEF Range
<1>7. Range(p) = Range(q) \cup {r}
  BY <1>4, <1>5, <1>6 DEF Range
<1> QED
  BY <1>1, <1>3, <1>7

\* waiters.remove(ticket), wherever the ticket is, shortens the queue by it.
LEMMA RemoveWaiter ==
  ASSUME NEW S, NEW q \in Seq(S), NEW i \in DOMAIN q, IsInjective(q)
  PROVE  /\ RemoveAt(q, i) \in Seq(S)
         /\ Len(RemoveAt(q, i)) = Len(q) - 1
         /\ IsInjective(RemoveAt(q, i))
         /\ Range(RemoveAt(q, i)) = Range(q) \ {q[i]}
<1> DEFINE front == SubSeq(q, 1, i - 1)
           back == SubSeq(q, i + 1, Len(q))
           p == RemoveAt(q, i)
           from(j) == IF j < i THEN j ELSE j + 1
           to(j) == IF j < i THEN j ELSE j - 1
<1>1. /\ DOMAIN q = 1..Len(q) /\ Len(q) \in Nat \ {0} /\ i \in 1..Len(q)
      /\ \A j \in 1..Len(q) : q[j] \in S
  OBVIOUS
<1>2. /\ front \in Seq(S) /\ Len(front) = i - 1
      /\ \A j \in 1..(i - 1) : front[j] = q[j]
  BY <1>1, SubSeqProperties
<1>3. /\ back \in Seq(S) /\ Len(back) = Len(q) - i
      /\ \A j \in 1..(Len(q) - i) : back[j] = q[i + j]
  BY <1>1, SubSeqProperties
<1>4. /\ p \in Seq(S) /\ Len(p) = Len(q) - 1
      /\ DOMAIN p = 1..(Len(q) - 1)
      /\ \A j \in DOMAIN p : from(j) \in DOMAIN q /\ from(j) # i /\ p[j] = q[from(j)]
  <2>1. p = front \o back
    BY DEF RemoveAt
  <2>2. p \in Seq(S) /\ Len(p) = (i - 1) + (Len(q) - i)
    BY <2>1, <1>2, <1>3, ConcatProperties
  <2>3. \A j \in 1..Len(p) : p[j] = IF j <= i - 1 THEN front[j] ELSE back[j - (i - 1)]
    BY <2>1, <1>2, <1>3, ConcatProperties
  <2>4. Len(p) = Len(q) - 1 /\ DOMAIN p = 1..(Len(q) - 1)
    BY <1>1, <2>2
  <2>5. ASSUME NEW j \in 1..(Len(q) - 1)
        PROVE  from(j) \in DOMAIN q /\ from(j) # i /\ p[j] = q[from(j)]
    <3>1. from(j) \in DOMAIN q /\ from(j) # i
      BY <1>1
    <3>2. p[j] = IF j <= i - 1 THEN front[j] ELSE back[j - (i - 1)]
      BY <2>3, <2>4
    <3>3. CASE j < i
      <4>1. j \in 1..(i - 1) /\ j <= i - 1
        BY <1>1, <3>3
      <4> QED BY <1>2, <3>1, <3>2, <3>3, <4>1
    <3>4. CASE ~(j < i)
      <4>1. j - (i - 1) \in 1..(Len(q) - i) /\ ~(j <= i - 1) /\ i + (j - (i - 1)) = j + 1
        BY <1>1, <3>4
      <4> QED BY <1>3, <3>1, <3>2, <3>4, <4>1
    <3> QED BY <3>3, <3>4
  <2> QED BY <2>2, <2>4, <2>5
<1> HIDE DEF p
<1>5. IsInjective(p)
  <2> SUFFICES ASSUME NEW j \in DOMAIN p, NEW l \in DOMAIN p, p[j] = p[l] PROVE j = l
    BY DEF IsInjective
  <2>1. from(j) = from(l)
    BY <1>4 DEF IsInjective
  <2> QED BY <1>1, <1>4, <2>1
<1>6. ASSUME NEW x \in Range(p) PROVE x \in Range(q) \ {q[i]}
  <2>1. PICK j \in DOMAIN p : x = p[j]
    BY DEF Range
  <2>2. from(j) \in DOMAIN q /\ from(j) # i /\ x = q[from(j)]
    BY <1>4, <2>1
  <2>3. x # q[i]
    BY <2>2 DEF IsInjective
  <2> QED BY <2>2, <2>3 DEF Range
<1>7. ASSUME NEW x \in Range(q), x # q[i] PROVE x \in Range(p)
  <2>1. PICK j \in DOMAIN q : x = q[j]
    BY DEF Range
  <2>2. to(j) \in DOMAIN p /\ from(to(j)) = j
    BY <1>1, <1>4, <1>7, <2>1
  <2>3. x = p[to(j)]
    BY <1>4, <2>1, <2>2
  <2> QED BY <2>2, <2>3 DEF Range
<1> QED BY <1>4, <1>5, <1>6, <1>7 DEF p

\* The head of the queue leaves it.
LEMMA PopWaiter ==
  ASSUME NEW S, NEW q \in Seq(S), q # <<>>, IsInjective(q)
  PROVE  /\ Tail(q) \in Seq(S)
         /\ Len(Tail(q)) = Len(q) - 1
         /\ IsInjective(Tail(q))
         /\ Range(Tail(q)) = Range(q) \ {Head(q)}
<1> DEFINE p == Tail(q)
<1>1. /\ DOMAIN q = 1..Len(q) /\ Len(q) \in Nat \ {0} /\ Head(q) = q[1]
      /\ p \in Seq(S) /\ Len(p) = Len(q) - 1
      /\ DOMAIN p = 1..(Len(q) - 1)
      /\ \A j \in DOMAIN p : j + 1 \in DOMAIN q /\ p[j] = q[j + 1]
  BY EmptySeq, HeadTailProperties
<1> HIDE DEF p
<1>2. IsInjective(p)
  BY <1>1 DEF IsInjective
<1>3. ASSUME NEW x \in Range(p) PROVE x \in Range(q) \ {q[1]}
  <2>1. PICK j \in DOMAIN p : x = p[j]
    BY DEF Range
  <2>2. j + 1 \in DOMAIN q /\ j + 1 # 1 /\ x = q[j + 1] /\ 1 \in DOMAIN q
    BY <1>1, <2>1
  <2>3. x # q[1]
    BY <2>2 DEF IsInjective
  <2> QED BY <2>2, <2>3 DEF Range
<1>4. ASSUME NEW x \in Range(q), x # q[1] PROVE x \in Range(p)
  <2>1. PICK j \in DOMAIN q : x = q[j]
    BY DEF Range
  <2>2. j - 1 \in DOMAIN p /\ p[j - 1] = q[j]
    BY <1>1, <1>4, <2>1
  <2> QED BY <2>1, <2>2 DEF Range
<1> QED BY <1>1, <1>2, <1>3, <1>4 DEF p

-----------------------------------------------------------------------------
(* Slots. *)

\* The places of a request that holds a slot: until events() has released it, and
\* possibly while the response is being closed.
Holding == {"admitted", "open", "calling", "retiring", "releasing"}

\* The inductive form of SlotsAreCounted: the queue holds each queued request once
\* and nobody else, and only a request between admission and the end of its
\* response can own a slot.
SlotInv ==
  /\ TypeOK /\ DOMAIN reports = Requests
  /\ IsInjective(waiters)
  /\ Range(waiters) = {r \in Requests : at[r] = "queued"}
  /\ \A r \in Requests : at[r] \in Holding => r \in owners
  /\ \A r \in owners : at[r] \in Holding \cup {"closing"}
  /\ active = Cardinality(owners)
  /\ active + Len(waiters) <= maximum + queued

\* A step that moves a request between places where it neither waits nor gains or
\* loses a slot.
LEMMA MoveSlots ==
  ASSUME SlotInv, TypeOK', DOMAIN reports' = Requests,
         NEW r \in Requests, NEW place, at' = [at EXCEPT ![r] = place],
         at[r] # "queued", place # "queued",
         place \in Holding => r \in owners,
         r \in owners => place \in Holding \cup {"closing"},
         UNCHANGED <<queued, waiters, active, owners>>
  PROVE  SlotInv'
BY DEF SlotInv, TypeOK

\* A step that moves nobody.
LEMMA StaySlots ==
  ASSUME SlotInv, TypeOK', DOMAIN reports' = Requests,
         UNCHANGED <<queued, at, waiters, active, owners>>
  PROVE  SlotInv'
BY DEF SlotInv

\* release_slot() gives back a slot exactly if the request owns one.
LEMMA FreeSlotFacts ==
  ASSUME SlotInv, NEW r \in Requests, FreeSlot(r)
  PROVE  /\ owners' = owners \ {r}
         /\ active' \in 0..maximum
         /\ active' = Cardinality(owners')
         /\ active' <= active
<1>1. IsFiniteSet(owners)
  BY ServingAssumption, FS_Subset DEF SlotInv, TypeOK
<1>2. active \in 0..maximum /\ maximum \in Nat /\ active = Cardinality(owners)
  BY ServingAssumption DEF SlotInv, TypeOK
<1>3. CASE r \in owners
  <2>1. owners' = owners \ {r} /\ active' = active - 1
    BY <1>3 DEF FreeSlot
  <2>2. Cardinality(owners \ {r}) = Cardinality(owners) - 1
    BY <1>1, <1>3, FS_RemoveElement
  <2>3. Cardinality(owners \ {r}) \in Nat
    BY <1>1, FS_RemoveElement, FS_CardinalityType
  <2> QED BY <1>2, <2>1, <2>2, <2>3
<1>4. CASE r \notin owners
  <2>1. owners' = owners /\ active' = active /\ owners \ {r} = owners
    BY <1>4 DEF FreeSlot
  <2> QED BY <1>2, <2>1
<1> QED BY <1>3, <1>4

\* A request enters the queue or is refused.
LEMMA ArriveSlots ==
  ASSUME SlotInv, NEW r \in Requests, Arrive(r)
  PROVE  SlotInv'
<1>1. at[r] = "new" /\ r \notin Range(waiters) /\ r \notin owners
  BY DEF Arrive, SlotInv, Holding
<1>2. CASE cleanupFailed \/ active + Len(waiters) >= maximum + queued
  <2>1. TypeOK'
    BY <1>2 DEF Arrive, Go, TypeOK, SlotInv, retireVars, clientVars, nativeVars
  <2>2. at' = [at EXCEPT ![r] = "done"] /\ UNCHANGED <<queued, waiters, active, owners, reports>>
    BY <1>2 DEF Arrive, Go, retireVars
  <2> QED BY <1>1, <2>1, <2>2, MoveSlots DEF Holding, SlotInv
<1>3. CASE ~(cleanupFailed \/ active + Len(waiters) >= maximum + queued)
  <2>1. at' = [at EXCEPT ![r] = "queued"] /\ waiters' = Append(waiters, r)
        /\ UNCHANGED <<queued, active, owners, reports>>
    BY <1>3 DEF Arrive, Go, retireVars
  <2>2. /\ waiters' \in Seq(Requests) /\ Len(waiters') = Len(waiters) + 1
        /\ IsInjective(waiters') /\ Range(waiters') = Range(waiters) \cup {r}
    <3>1. waiters \in Seq(Requests) /\ IsInjective(waiters)
      BY DEF SlotInv, TypeOK
    <3> QED BY <1>1, <2>1, <3>1, AppendWaiter, Zenon
  <2>3. TypeOK'
    BY <2>1, <2>2 DEF Arrive, TypeOK, SlotInv, retireVars, clientVars, nativeVars
  <2>4. active' + Len(waiters') <= maximum + queued'
    <3>1. Len(waiters) \in Nat /\ active \in Nat /\ maximum \in Nat /\ queued \in Nat
      BY ServingAssumption DEF SlotInv, TypeOK
    <3> QED BY <1>3, <2>1, <2>2, <3>1
  <2>5. Range(waiters') = {m \in Requests : at'[m] = "queued"}
    BY <2>1, <2>2 DEF SlotInv, TypeOK
  <2>6. /\ \A m \in Requests : at'[m] \in Holding => m \in owners'
        /\ \A m \in owners' : at'[m] \in Holding \cup {"closing"}
    BY <1>1, <2>1 DEF SlotInv, TypeOK, Holding
  <2> QED
    BY <2>1, <2>2, <2>3, <2>4, <2>5, <2>6 DEF SlotInv
<1> QED BY <1>2, <1>3

\* What the head of the queue leaves behind.
LEMMA AdmitQueue ==
  ASSUME SlotInv, NEW r \in Requests, Admit(r)
  PROVE  /\ waiters' \in Seq(Requests) /\ Len(waiters') = Len(waiters) - 1
         /\ IsInjective(waiters') /\ Range(waiters') = Range(waiters) \ {r}
<1>1. waiters \in Seq(Requests) /\ IsInjective(waiters)
  BY DEF SlotInv, TypeOK
<1>2. r \in Range(waiters)
  BY DEF SlotInv, Admit
<1>3. waiters # <<>>
  BY <1>2 DEF Range
<1>4. Head(waiters) = r /\ waiters' = Tail(waiters)
  BY DEF Admit, Turn
<1> QED
  BY <1>1, <1>3, <1>4, PopWaiter, Zenon

\* The head of the queue gets a slot.
LEMMA AdmitSlots ==
  ASSUME SlotInv, NEW r \in Requests, Admit(r)
  PROVE  SlotInv'
<1>1. at[r] = "queued" /\ r \notin owners /\ active < maximum /\ UNCHANGED <<queued, reports>>
  BY DEF Admit, SlotInv, Holding, Turn, retireVars
<1>2. /\ waiters' \in Seq(Requests) /\ Len(waiters') = Len(waiters) - 1
      /\ IsInjective(waiters') /\ Range(waiters') = Range(waiters) \ {r}
  BY AdmitQueue
<1>3. /\ Len(waiters) \in Nat /\ active \in 0..maximum /\ maximum \in Nat /\ queued \in Nat
      /\ active + Len(waiters) <= maximum + queued
  BY ServingAssumption DEF SlotInv, TypeOK
<1>4. CASE cleanupFailed
  <2>1. at' = [at EXCEPT ![r] = "done"] /\ active' = active /\ owners' = owners
    BY <1>4 DEF Admit, Go
  <2>2. TypeOK'
    BY <1>2, <2>1 DEF Admit, TypeOK, SlotInv, retireVars, clientVars, nativeVars
  <2>3. Range(waiters') = {m \in Requests : at'[m] = "queued"}
    BY <1>1, <1>2, <2>1 DEF SlotInv, TypeOK
  <2>4. /\ \A m \in Requests : at'[m] \in Holding => m \in owners'
        /\ \A m \in owners' : at'[m] \in Holding \cup {"closing"}
    BY <1>1, <2>1 DEF SlotInv, TypeOK, Holding
  <2>5. active' + Len(waiters') <= maximum + queued'
    BY <1>1, <1>2, <1>3, <2>1
  <2> QED
    BY <1>1, <1>2, <2>1, <2>2, <2>3, <2>4, <2>5 DEF SlotInv
<1>5. CASE ~cleanupFailed
  <2>1. /\ at' = [at EXCEPT ![r] = "admitted"] /\ active' = active + 1
        /\ owners' = owners \cup {r}
    BY <1>5 DEF Admit, Go
  <2>2. TypeOK'
    BY <1>1, <1>2, <1>3, <2>1 DEF Admit, TypeOK, SlotInv, retireVars, clientVars, nativeVars
  <2>3. Range(waiters') = {m \in Requests : at'[m] = "queued"}
    BY <1>1, <1>2, <2>1 DEF SlotInv, TypeOK
  <2>4. /\ \A m \in Requests : at'[m] \in Holding => m \in owners'
        /\ \A m \in owners' : at'[m] \in Holding \cup {"closing"}
    BY <1>1, <2>1 DEF SlotInv, TypeOK, Holding
  <2>5. active' + Len(waiters') <= maximum + queued'
    BY <1>1, <1>2, <1>3, <2>1
  <2>6. active' = Cardinality(owners')
    <3>1. IsFiniteSet(owners)
      BY ServingAssumption, FS_Subset DEF SlotInv, TypeOK
    <3> QED BY <1>1, <2>1, <3>1, FS_AddElement DEF SlotInv
  <2> QED
    BY <1>1, <1>2, <2>1, <2>2, <2>3, <2>4, <2>5, <2>6 DEF SlotInv
<1> QED BY <1>4, <1>5

\* A waiting request gives up, wherever in the queue it is.
LEMMA GiveUpSlots ==
  ASSUME SlotInv, NEW r \in Requests, GiveUp(r)
  PROVE  SlotInv'
<1>1. PICK i \in DOMAIN waiters : waiters[i] = r /\ waiters' = RemoveAt(waiters, i)
  BY DEF GiveUp
<1>2. /\ at[r] = "queued" /\ r \notin owners /\ at' = [at EXCEPT ![r] = "done"]
      /\ UNCHANGED <<queued, active, owners, reports>>
  BY DEF GiveUp, SlotInv, Holding, Go, retireVars
<1>3. /\ waiters' \in Seq(Requests) /\ Len(waiters') = Len(waiters) - 1
      /\ IsInjective(waiters') /\ Range(waiters') = Range(waiters) \ {r}
  <2>1. waiters \in Seq(Requests) /\ IsInjective(waiters)
    BY DEF SlotInv, TypeOK
  <2> QED BY <1>1, <2>1, RemoveWaiter, Zenon
<1>4. TypeOK'
  BY <1>2, <1>3 DEF GiveUp, TypeOK, SlotInv, retireVars, clientVars, nativeVars
<1>5. Range(waiters') = {m \in Requests : at'[m] = "queued"}
  BY <1>2, <1>3 DEF SlotInv, TypeOK
<1>6. /\ \A m \in Requests : at'[m] \in Holding => m \in owners'
      /\ \A m \in owners' : at'[m] \in Holding \cup {"closing"}
  BY <1>2 DEF SlotInv, TypeOK, Holding
<1>7. active' + Len(waiters') <= maximum + queued'
  <2>1. Len(waiters) \in Nat /\ active \in Nat /\ maximum \in Nat /\ queued \in Nat
    BY ServingAssumption DEF SlotInv, TypeOK
  <2> QED BY <1>2, <1>3, <2>1 DEF SlotInv
<1> QED
  BY <1>2, <1>3, <1>4, <1>5, <1>6, <1>7 DEF SlotInv

\* Both finally clauses.
LEMMA FreeSlots ==
  ASSUME SlotInv, NEW r \in Requests, Release(r) \/ Close(r)
  PROVE  SlotInv'
<1>1. FreeSlot(r) /\ at[r] \in {"releasing", "closing"}
  BY DEF Release, Close
<1>2. PICK place \in {"closing", "done"} : at' = [at EXCEPT ![r] = place]
  BY DEF Release, Close, Go
<1>3. UNCHANGED <<queued, streams, waiters, retireVars, clientVars, nativeVars>>
  BY DEF Release, Close
<1>4. /\ owners' = owners \ {r} /\ active' \in 0..maximum /\ active' = Cardinality(owners')
      /\ active' <= active
  BY <1>1, FreeSlotFacts
<1>5. TypeOK'
  BY <1>2, <1>3, <1>4 DEF SlotInv, TypeOK, retireVars, clientVars, nativeVars
<1>6. Range(waiters') = {m \in Requests : at'[m] = "queued"}
  BY <1>1, <1>2, <1>3 DEF SlotInv, TypeOK
<1>7. /\ \A m \in Requests : at'[m] \in Holding => m \in owners'
      /\ \A m \in owners' : at'[m] \in Holding \cup {"closing"}
  BY <1>1, <1>2, <1>4 DEF SlotInv, TypeOK, Holding
<1>8. active' + Len(waiters') <= maximum + queued'
  <2>1. Len(waiters) \in Nat /\ active \in Nat /\ maximum \in Nat /\ queued \in Nat
    BY ServingAssumption DEF SlotInv, TypeOK
  <2> QED BY <1>3, <1>4, <2>1 DEF SlotInv
<1> QED
  BY <1>3, <1>4, <1>5, <1>6, <1>7, <1>8 DEF SlotInv, retireVars

\* The tasks of admitted requests, up to their release.
LEMMA TaskSlots ==
  ASSUME SlotInv, NEW r \in Requests,
         \/ Begin(r) \/ Abandon(r) \/ Call(r) \/ Quit(r) \/ Finished(r) \/ Interrupt(r)
         \/ Conclude(r) \/ Unconfirmed(r)
  PROVE  SlotInv'
<1> USE DEF Go, LeaveRetire, serverVars, retireVars, clientVars, nativeVars, Holding
<1>1. \/ at' = at
      \/ \E place \in Holding \cup {"closing"} : at' = [at EXCEPT ![r] = place]
  BY DEF Begin, Abandon, Call, Quit, Finished, Interrupt, Conclude, Unconfirmed
<1>2. UNCHANGED <<queued, streams, waiters, active, owners>> /\ at[r] \in Holding
  BY DEF Begin, Abandon, Call, Quit, Finished, Interrupt, Conclude, Unconfirmed
<1>3. DOMAIN NoReports = {}
  BY DEF NoReports
<1>4. \/ reports' = reports \/ reports' = [reports EXCEPT ![r] = NoReports]
  BY DEF Begin, Abandon, Call, Quit, Finished, Interrupt, Conclude, Unconfirmed
<1>5. DOMAIN reports' = Requests /\ \A m \in Requests : DOMAIN reports'[m] \subseteq Stages
  BY <1>3, <1>4 DEF SlotInv, TypeOK
<1>6. /\ asked' \in [Requests -> SUBSET Stages] /\ confirmed' \subseteq Requests
      /\ cleanupFailed' \in BOOLEAN
  BY DEF Begin, Abandon, Call, Quit, Finished, Interrupt, Conclude, Unconfirmed, SlotInv, TypeOK
<1>7. /\ rpc' \in [Requests -> {"none", "flight", "serving", "completed", "failed"}]
      /\ quit' \subseteq Requests
      /\ UNCHANGED <<expired, gone, opening, on, started>>
  BY DEF Begin, Abandon, Call, Quit, Finished, Interrupt, Conclude, Unconfirmed, SlotInv, TypeOK
<1>8. TypeOK'
  BY <1>1, <1>2, <1>5, <1>6, <1>7 DEF SlotInv, TypeOK
<1>9. CASE at' = at
  BY <1>2, <1>5, <1>8, <1>9, StaySlots
<1>10. CASE \E place \in Holding \cup {"closing"} : at' = [at EXCEPT ![r] = place]
  <2>1. PICK place \in Holding \cup {"closing"} : at' = [at EXCEPT ![r] = place]
    BY <1>10
  <2>2. r \in owners /\ at[r] # "queued" /\ place # "queued"
    BY <1>2, <2>1 DEF SlotInv
  <2> QED BY <1>2, <1>5, <1>8, <2>1, <2>2, MoveSlots
<1> QED BY <1>1, <1>9, <1>10

-----------------------------------------------------------------------------
(* Retirement. *)

\* What makes a confirmation true of a request r that has produced a token.  Such a
\* request is on no worker it has left: its calls have all started, so its workers
\* only let go of it.  A report that did not list it therefore stays true until the
\* round is concluded, and after that.
RetireOf(r) ==
  /\ at[r] \in {"new", "queued", "admitted", "open"} => rpc[r] = "none"
  /\ opening[r] # "none" => 2 \in Stages
  /\ 1 \in on[r] => rpc[r] = "serving"
  /\ 2 \in on[r] => opening[r] = "done"
  /\ r \in started => rpc[r] \notin {"none", "flight"}
  /\ r \in started /\ 2 \in Stages => opening[r] = "done"
  /\ rpc[r] = "completed" => r \in started /\ on[r] = {}
  /\ at[r] # "retiring" => DOMAIN reports[r] = {}
  /\ r \in started => \A s \in DOMAIN reports[r] : ~reports[r][s] => s \notin on[r]
  /\ r \in confirmed => at[r] \in {"releasing", "closing", "done"}
  /\ r \in confirmed /\ r \in started => on[r] = {}

RetireInv == \A r \in Requests : RetireOf(r)

HttpInv == SlotInv /\ RetireInv

\* There are one or two stages, and the driver is the first.
LEMMA StageFacts ==
  /\ 1 \in Stages /\ Stages \subseteq {1, 2}
  /\ 2 \in Stages <=> Stages = 1..2
BY ServingAssumption

\* retire() asks and polls.
LEMMA PollSlots ==
  ASSUME SlotInv, NEW r \in Requests, NEW s \in Stages, AskCancel(r, s) \/ Report(r, s)
  PROVE  SlotInv'
<1> USE DEF serverVars, retireVars, clientVars, nativeVars
<1>1. CASE AskCancel(r, s)
  <2>1. TypeOK' /\ DOMAIN reports' = Requests
    BY <1>1 DEF AskCancel, SlotInv, TypeOK
  <2> QED BY <1>1, <2>1, StaySlots DEF AskCancel
<1>2. CASE Report(r, s)
  <2> DEFINE seen == [t \in DOMAIN reports[r] \cup {s} |->
                        IF t = s THEN s \in on[r] ELSE reports[r][t]]
  <2>1. reports' = [reports EXCEPT ![r] = seen]
    BY <1>2 DEF Report
  <2>2. DOMAIN seen \subseteq Stages
    BY DEF SlotInv, TypeOK
  <2> HIDE DEF seen
  <2>3. DOMAIN reports' = Requests /\ \A m \in Requests : DOMAIN reports'[m] \subseteq Stages
    BY <2>1, <2>2 DEF SlotInv, TypeOK
  <2>4. TypeOK'
    BY <1>2, <2>3 DEF Report, SlotInv, TypeOK
  <2> QED BY <1>2, <2>3, <2>4, StaySlots DEF Report
<1> QED BY <1>1, <1>2

\* The clients and the workers move no task.
LEMMA OtherSlots ==
  ASSUME SlotInv, RetireInv, NEW r \in Requests, NativeStep(r) \/ Expire(r) \/ Disconnect(r)
  PROVE  SlotInv'
<1> USE DEF serverVars, retireVars, clientVars, nativeVars
<1> SUFFICES TypeOK' /\ UNCHANGED <<serverVars, reports>>
  BY StaySlots DEF SlotInv
<1>1. CASE NStart(r)
  BY <1>1, StageFacts DEF NStart, SlotInv, TypeOK
<1>2. CASE NOpen(r)
  BY <1>2 DEF NOpen, SlotInv, TypeOK
<1>3. CASE NExecute(r)
  <2>1. 2 \in Stages
    BY <1>3 DEF NExecute, RetireInv, RetireOf
  <2> QED BY <1>3, <2>1 DEF NExecute, SlotInv, TypeOK
<1>4. CASE NToken(r)
  BY <1>4 DEF NToken, SlotInv, TypeOK
<1>5. CASE NLeave(r)
  BY <1>5 DEF NLeave, SlotInv, TypeOK
<1>6. CASE NEnd(r)
  BY <1>6 DEF NEnd, SlotInv, TypeOK
<1>7. CASE Expire(r) \/ Disconnect(r)
  BY <1>7 DEF Expire, Disconnect, SlotInv, TypeOK
<1> QED
  BY <1>1, <1>2, <1>3, <1>4, <1>5, <1>6, <1>7 DEF NativeStep

\* Every step keeps the slots counted.
LEMMA SlotStep ==
  ASSUME HttpInv, [Next]_vars
  PROVE  SlotInv'
<1> USE DEF HttpInv
<1>1. CASE UNCHANGED vars
  BY <1>1 DEF vars, serverVars, retireVars, clientVars, nativeVars, SlotInv, TypeOK
<1>2. ASSUME NEW r \in Requests, ServerStep(r) PROVE SlotInv'
  BY <1>2, ArriveSlots, AdmitSlots, GiveUpSlots, TaskSlots, FreeSlots, PollSlots DEF ServerStep
<1>3. ASSUME NEW r \in Requests, NativeStep(r) \/ Expire(r) \/ Disconnect(r) PROVE SlotInv'
  BY <1>3, OtherSlots
<1> QED
  BY <1>1, <1>2, <1>3 DEF Next

\* A step of one request does not touch what RetireOf says of another.
LEMMA RetireFrame ==
  ASSUME NEW m, RetireOf(m),
         at'[m] = at[m], reports'[m] = reports[m], opening'[m] = opening[m],
         on'[m] = on[m], rpc'[m] = rpc[m],
         m \in started' <=> m \in started, m \in confirmed' <=> m \in confirmed
  PROVE  RetireOf(m)'
BY DEF RetireOf

\* Where a task goes does not matter to RetireOf while it is neither retiring nor
\* confirmed before and after.
LEMMA RetireMove ==
  ASSUME SlotInv, RetireInv, NEW r \in Requests,
         \/ Arrive(r) \/ Admit(r) \/ GiveUp(r) \/ Begin(r) \/ Abandon(r) \/ Quit(r)
         \/ Release(r) \/ Close(r)
  PROVE  RetireInv'
<1> USE DEF retireVars, nativeVars, Go
<1>1. PICK place : /\ at' = [at EXCEPT ![r] = place]
                   /\ place # "retiring" /\ at[r] # "retiring"
                   /\ at[r] \in {"releasing", "closing", "done"} =>
                        place \in {"releasing", "closing", "done"}
                   /\ place \in {"new", "queued", "admitted", "open"} =>
                        at[r] \in {"new", "queued", "admitted", "open"}
  BY DEF Arrive, Admit, GiveUp, Begin, Abandon, Quit, Release, Close
<1>2. UNCHANGED <<retireVars, nativeVars>>
  BY DEF Arrive, Admit, GiveUp, Begin, Abandon, Quit, Release, Close
<1>3. RetireOf(r)'
  BY <1>1, <1>2 DEF RetireInv, RetireOf, SlotInv, TypeOK
<1>4. ASSUME NEW m \in Requests, m # r PROVE RetireOf(m)'
  BY <1>1, <1>2, <1>4, RetireFrame DEF RetireInv, SlotInv, TypeOK
<1> QED BY <1>3, <1>4 DEF RetireInv

\* The call is sent, ends by itself, or is interrupted.
LEMMA RetireCall ==
  ASSUME SlotInv, RetireInv, NEW r \in Requests, Call(r) \/ Finished(r) \/ Interrupt(r)
  PROVE  RetireInv'
<1> USE DEF retireVars, nativeVars, Go
<1>1. RetireOf(r) /\ (\A m \in Requests : RetireOf(m))
  BY DEF RetireInv
<1>2. CASE Call(r)
  <2>1. RetireOf(r)'
    BY <1>1, <1>2 DEF Call, RetireOf, SlotInv, TypeOK
  <2>2. ASSUME NEW m \in Requests, m # r PROVE RetireOf(m)'
    BY <1>1, <1>2, <2>2, RetireFrame DEF Call, SlotInv, TypeOK
  <2> QED BY <2>1, <2>2 DEF RetireInv
<1>3. CASE Finished(r)
  <2>1. RetireOf(r)'
    BY <1>1, <1>3 DEF Finished, RetireOf, SlotInv, TypeOK
  <2>2. ASSUME NEW m \in Requests, m # r PROVE RetireOf(m)'
    BY <1>1, <1>3, <2>2, RetireFrame DEF Finished, SlotInv, TypeOK
  <2> QED BY <2>1, <2>2 DEF RetireInv
<1>4. CASE Interrupt(r)
  <2>1. RetireOf(r)'
    BY <1>1, <1>4 DEF Interrupt, RetireOf, SlotInv, TypeOK
  <2>2. ASSUME NEW m \in Requests, m # r PROVE RetireOf(m)'
    BY <1>1, <1>4, <2>2, RetireFrame DEF Interrupt, SlotInv, TypeOK
  <2> QED BY <2>1, <2>2 DEF RetireInv
<1> QED BY <1>2, <1>3, <1>4

\* retire() itself: a report of a worker that does not list a started request
\* stays true, so a round in which none does is true when it is concluded.
LEMMA RetireRound ==
  ASSUME SlotInv, RetireInv, NEW r \in Requests,
         \/ \E s \in Stages : AskCancel(r, s) \/ Report(r, s)
         \/ Conclude(r) \/ Unconfirmed(r)
  PROVE  RetireInv'
<1> USE DEF serverVars, retireVars, nativeVars, Go, LeaveRetire
<1>1. RetireOf(r) /\ (\A m \in Requests : RetireOf(m))
  BY DEF RetireInv
<1>2. DOMAIN NoReports = {}
  BY DEF NoReports
<1>3. ASSUME NEW s \in Stages, AskCancel(r, s) PROVE RetireInv'
  BY <1>1, <1>3, RetireFrame DEF AskCancel, RetireInv
<1>4. ASSUME NEW s \in Stages, Report(r, s) PROVE RetireInv'
  <2> DEFINE seen == [t \in DOMAIN reports[r] \cup {s} |->
                        IF t = s THEN s \in on[r] ELSE reports[r][t]]
  <2>1. reports' = [reports EXCEPT ![r] = seen]
    BY <1>4 DEF Report
  <2>2. r \in started => \A t \in DOMAIN seen : ~seen[t] => t \notin on[r]
    BY <1>1 DEF RetireOf
  <2> HIDE DEF seen
  <2>3. RetireOf(r)'
    BY <1>1, <1>4, <2>1, <2>2 DEF Report, RetireOf, SlotInv, TypeOK
  <2>4. ASSUME NEW m \in Requests, m # r PROVE RetireOf(m)'
    BY <1>1, <1>4, <2>1, <2>4, RetireFrame DEF Report, SlotInv, TypeOK
  <2> QED BY <2>3, <2>4 DEF RetireInv
<1>5. CASE Conclude(r)
  <2>1. CASE NoneLists(r) /\ confirmed' = confirmed \cup {r}
             /\ at' = [at EXCEPT ![r] = "releasing"]
             /\ reports' = [reports EXCEPT ![r] = NoReports]
    <3>1. r \in started => on[r] = {}
      BY <1>1, <1>5, <2>1 DEF RetireOf, NoneLists, Conclude, SlotInv, TypeOK
    <3>2. RetireOf(r)'
      BY <1>1, <1>2, <1>5, <2>1, <3>1 DEF Conclude, RetireOf, SlotInv, TypeOK
    <3>3. ASSUME NEW m \in Requests, m # r PROVE RetireOf(m)'
      BY <1>1, <1>5, <2>1, <3>3, RetireFrame DEF Conclude, SlotInv, TypeOK
    <3> QED BY <3>2, <3>3 DEF RetireInv
  <2>2. CASE /\ reports' = [reports EXCEPT ![r] = NoReports]
             /\ UNCHANGED <<at, confirmed>>
    <3>1. RetireOf(r)'
      BY <1>1, <1>2, <1>5, <2>2 DEF Conclude, RetireOf, SlotInv, TypeOK
    <3>2. ASSUME NEW m \in Requests, m # r PROVE RetireOf(m)'
      BY <1>1, <1>5, <2>2, <3>2, RetireFrame DEF Conclude, SlotInv, TypeOK
    <3> QED BY <3>1, <3>2 DEF RetireInv
  <2> QED BY <1>5, <2>1, <2>2 DEF Conclude
<1>6. CASE Unconfirmed(r)
  <2>1. RetireOf(r)'
    BY <1>1, <1>2, <1>6 DEF Unconfirmed, RetireOf, SlotInv, TypeOK
  <2>2. ASSUME NEW m \in Requests, m # r PROVE RetireOf(m)'
    BY <1>1, <1>6, <2>2, RetireFrame DEF Unconfirmed, SlotInv, TypeOK
  <2> QED BY <2>1, <2>2 DEF RetireInv
<1> QED BY <1>3, <1>4, <1>5, <1>6

\* The workers: a started request only leaves them.
LEMMA RetireNative ==
  ASSUME SlotInv, RetireInv, NEW r \in Requests, NativeStep(r)
  PROVE  RetireInv'
<1> USE DEF serverVars, retireVars, nativeVars
<1>1. RetireOf(r) /\ (\A m \in Requests : RetireOf(m))
  BY DEF RetireInv
<1>2. ASSUME NEW m \in Requests, m # r PROVE RetireOf(m)'
  <2>1. /\ opening'[m] = opening[m] /\ on'[m] = on[m] /\ rpc'[m] = rpc[m]
        /\ m \in started' <=> m \in started
    BY <1>2 DEF NativeStep, NStart, NOpen, NExecute, NToken, NLeave, NEnd, SlotInv, TypeOK
  <2>2. UNCHANGED <<serverVars, retireVars>>
    BY DEF NativeStep, NStart, NOpen, NExecute, NToken, NLeave, NEnd
  <2> QED BY <1>1, <2>1, <2>2, RetireFrame
<1>3. RetireOf(r)'
  <2>1. CASE NStart(r)
    BY <1>1, <2>1 DEF NStart, RetireOf, SlotInv, TypeOK
  <2>2. CASE NOpen(r)
    BY <1>1, <2>2, StageFacts DEF NOpen, RetireOf, SlotInv, TypeOK
  <2>3. CASE NExecute(r)
    BY <1>1, <2>3 DEF NExecute, RetireOf, SlotInv, TypeOK
  <2>4. CASE NToken(r)
    BY <1>1, <2>4 DEF NToken, RetireOf, SlotInv, TypeOK
  <2>5. CASE NLeave(r)
    BY <1>1, <2>5 DEF NLeave, RetireOf, SlotInv, TypeOK
  <2>6. CASE NEnd(r)
    BY <1>1, <2>6 DEF NEnd, RetireOf, SlotInv, TypeOK
  <2> QED BY <2>1, <2>2, <2>3, <2>4, <2>5, <2>6 DEF NativeStep
<1> QED BY <1>2, <1>3 DEF RetireInv

\* Every step keeps what retire knows.
LEMMA RetireStep ==
  ASSUME HttpInv, [Next]_vars
  PROVE  RetireInv'
<1> USE DEF HttpInv
<1>1. CASE UNCHANGED <<serverVars, retireVars, nativeVars>>
  BY <1>1 DEF serverVars, retireVars, nativeVars, RetireInv, RetireOf
<1>2. ASSUME NEW r \in Requests, ServerStep(r) PROVE RetireInv'
  BY <1>2, RetireMove, RetireCall, RetireRound DEF ServerStep
<1>3. ASSUME NEW r \in Requests, NativeStep(r) PROVE RetireInv'
  BY <1>3, RetireNative
<1>4. ASSUME NEW r \in Requests, Expire(r) \/ Disconnect(r) PROVE RetireInv'
  BY <1>1, <1>4 DEF Expire, Disconnect
<1> QED
  BY <1>1, <1>2, <1>3, <1>4 DEF Next, vars

\* Both hold at the start.
LEMMA InitHttp == Init => HttpInv
<1> SUFFICES ASSUME Init PROVE SlotInv /\ RetireInv
  BY DEF HttpInv
<1>1. DOMAIN NoReports = {}
  BY DEF NoReports
<1>2. TypeOK /\ DOMAIN reports = Requests
  <2>1. DOMAIN reports = Requests /\ \A r \in Requests : DOMAIN reports[r] \subseteq Stages
    BY <1>1 DEF Init
  <2>2. 0 \in 0..maximum /\ waiters \in Seq(Requests)
    BY ServingAssumption DEF Init
  <2> QED BY <2>1, <2>2 DEF Init, TypeOK
<1>3. IsInjective(waiters) /\ Range(waiters) = {} /\ Len(waiters) = 0
  BY DEF Init, IsInjective, Range
<1>4. Cardinality(owners) = 0 /\ owners = {} /\ active = 0
  BY FS_EmptySet DEF Init
<1>5. SlotInv
  <2>1. \A r \in Requests : at[r] = "new"
    BY DEF Init
  <2>2. maximum + queued >= 0
    BY <1>2, ServingAssumption DEF TypeOK
  <2> QED BY <1>2, <1>3, <1>4, <2>1, <2>2 DEF SlotInv, Holding
<1>6. RetireInv
  BY <1>1 DEF Init, RetireInv, RetireOf
<1> QED BY <1>5, <1>6

\* So they always hold.
LEMMA HttpInvariant == Spec => []HttpInv
<1>1. HttpInv /\ [Next]_vars => HttpInv'
  BY SlotStep, RetireStep DEF HttpInv
<1> QED
  BY <1>1, InitHttp, PTL DEF Spec

\* Admission is exact for every number of requests, every concurrency and every
\* queue length: the count of active requests is the number of slots owned, both
\* finally clauses together give a slot back once, active and waiting requests
\* stay within the limits, and a task owns its slot until events() has released it.
THEOREM SlotsStayCounted == Spec => []SlotsAreCounted
<1>1. HttpInv => SlotsAreCounted
  BY DEF HttpInv, SlotInv, SlotsAreCounted, Holding
<1> QED
  BY <1>1, HttpInvariant, PTL

\* When retire() confirms the cleanup of a request that had produced a token, or
\* its stream completed, no worker lists the request, then or ever after.
THEOREM ConfirmationIsTrue == Spec => []ConfirmedMeansRetired
<1>1. HttpInv => ConfirmedMeansRetired
  BY DEF HttpInv, SlotInv, TypeOK, RetireInv, RetireOf, ConfirmedMeansRetired
<1> QED
  BY <1>1, HttpInvariant, PTL

\* Once a cleanup has failed no step of the server gives out a slot, not even to a
\* request that was already waiting for its turn.
THEOREM AdmissionFailsClosed == Spec => FailClosed
<1>1. [Next]_vars => [cleanupFailed => owners' \subseteq owners]_vars
  <2> SUFFICES ASSUME Next, cleanupFailed PROVE owners' \subseteq owners
    OBVIOUS
  <2> USE DEF serverVars, retireVars, clientVars, nativeVars
  <2>1. ASSUME NEW r \in Requests, ServerStep(r) PROVE owners' \subseteq owners
    BY <2>1 DEF ServerStep, Arrive, Admit, GiveUp, Begin, Abandon, Call, Quit, Finished,
       Interrupt, Release, Close, FreeSlot, AskCancel, Report, Conclude, Unconfirmed
  <2>2. ASSUME NEW r \in Requests, NativeStep(r) \/ Expire(r) \/ Disconnect(r)
        PROVE  owners' \subseteq owners
    BY <2>2 DEF NativeStep, NStart, NOpen, NExecute, NToken, NLeave, NEnd, Expire, Disconnect
  <2> QED BY <2>1, <2>2 DEF Next
<1> QED
  BY <1>1, PTL DEF Spec, FailClosed
=============================================================================
