------------------------ MODULE StageSchedulerProofs ------------------------
(***************************************************************************)
(* Proofs about StageScheduler, for every set of requests and every value  *)
(* of the two limits.                                                      *)
(***************************************************************************)
EXTENDS StageScheduler, FiniteSetTheorems, SequenceTheorems, TLAPS

-----------------------------------------------------------------------------
(* Facts about the helpers. *)

\* Erasing a ticket leaves a queue of requests.
LEMMA EraseType ==
  ASSUME NEW S, NEW q \in Seq(S), NEW i \in DOMAIN q
  PROVE  Erase(q, i) \in Seq(S)
<1>1. Len(q) \in Nat \ {0} /\ i \in 1..Len(q)
  OBVIOUS
<1>2. \A j \in 1..(Len(q) - 1) : (IF j < i THEN q[j] ELSE q[j + 1]) \in S
  BY <1>1
<1> QED
  BY <1>1, <1>2 DEF Erase

\* Popping the first n tickets leaves a queue of requests.
LEMMA PopType ==
  ASSUME NEW S, NEW q \in Seq(S), NEW n \in 1..Len(q)
  PROVE  SubSeq(q, n + 1, Len(q)) \in Seq(S)
<1>1. Len(q) \in Nat /\ n \in Nat
  OBVIOUS
<1>2. \A i \in (n + 1)..Len(q) : q[i] \in S
  BY <1>1
<1> QED
  BY <1>1, <1>2

\* The live tickets of a prefix can be counted.
LEMMA LiveCount ==
  ASSUME NEW q, NEW n \in Nat
  PROVE  /\ IsFiniteSet(Live(q, n))
         /\ Cardinality(Live(q, n)) \in Nat
         /\ Cardinality(Live(q, n)) <= n
         /\ Cardinality(Live(q, n)) = 0 <=> Live(q, n) = {}
<1>1. Live(q, n) \subseteq 1..n
  BY DEF Live
<1>2. IsFiniteSet(1..n) /\ Cardinality(1..n) = n
  BY FS_Interval
<1> QED
  BY <1>1, <1>2, FS_Subset, FS_CardinalityType, FS_EmptySet

\* The limit of a pass is a positive number when its queue is served at all, and
\* never lets the streak run past its maximum while a prefill waits.
LEMMA LimitBounds ==
  ASSUME TypeOK, NEW k \in Kinds, NextKind = k
  PROVE  /\ Limit(k) \in Nat \ {0}
         /\ k = "decode" /\ prefills # <<>> => streak + Limit(k) <= kMaximumDecodeStreak
BY SchedulerAssumption DEF TypeOK, Kinds, NextKind, Limit, Minimum

-----------------------------------------------------------------------------
(* Type correctness. *)

\* The history counters stay numbers.
LEMMA TrackType ==
  ASSUME NEW ov \in Nat, NEW de \in Nat, Track(ov, de)
  PROVE  overtaken' \in Nat /\ delayed' \in Nat
BY DEF Track

\* The types at the start.
LEMMA InitType == Init => TypeOK
BY SchedulerAssumption DEF Init, TypeOK, Kinds

\* A ticket is appended.
LEMMA SubmitType ==
  ASSUME TypeOK, NEW r \in Requests, NEW k \in Kinds, Submit(r, k)
  PROVE  TypeOK'
<1>1. prefills' \in Seq(Requests) /\ decodes' \in Seq(Requests)
  <2>1. Append(prefills, r) \in Seq(Requests) /\ Append(decodes, r) \in Seq(Requests)
    BY AppendProperties DEF TypeOK
  <2>2. \/ prefills' = Append(prefills, r) /\ decodes' = decodes
        \/ decodes' = Append(decodes, r) /\ prefills' = prefills
    BY DEF Submit
  <2> QED BY <2>1, <2>2 DEF TypeOK
<1>2. overtaken' \in Nat /\ delayed' \in Nat
  BY TrackType DEF Submit, TypeOK
<1> QED
  BY <1>1, <1>2 DEF Submit, TypeOK, stopVars

\* A caller takes its own ticket out of the queue.
LEMMA DropType ==
  ASSUME TypeOK, NEW r \in Requests, Drop(r)
  PROVE  TypeOK'
<1>1. prefills' \in Seq(Requests) /\ decodes' \in Seq(Requests)
  <2>1. PICK i \in DOMAIN QueueOf(kind[r]) :
          IF kind[r] = "prefill"
          THEN prefills' = Erase(prefills, i) /\ UNCHANGED decodes
          ELSE decodes' = Erase(decodes, i) /\ UNCHANGED prefills
    BY DEF Drop
  <2>2. CASE kind[r] = "prefill"
    BY <2>1, <2>2, EraseType DEF QueueOf, TypeOK
  <2>3. CASE kind[r] # "prefill"
    BY <2>1, <2>3, EraseType DEF QueueOf, TypeOK
  <2> QED BY <2>2, <2>3
<1>2. overtaken' \in Nat /\ delayed' \in Nat
  BY TrackType DEF Drop, TypeOK
<1> QED
  BY <1>1, <1>2 DEF Drop, EndRequest, TypeOK, Kinds

\* What a leader that pops n tickets does, one implication per case.
LeadStep(r, n) ==
  LET q == QueueOf(kind[r])
      live == Live(q, n)
      taken == Cardinality(live)
  IN  /\ taken \in Nat /\ taken <= Limit(kind[r])
      /\ taken = 0 <=> live = {}
      /\ claimed' = claimed \cup {q[i] : i \in 1..n}
      /\ answer' = [m \in Requests |->
                      IF m \in {q[i] : i \in (1..n) \ live} THEN StopAnswer(m)
                      ELSE answer[m]]
      /\ dispatch' = {q[i] : i \in live}
      /\ executing' = taken
      /\ kind[r] = "prefill" =>
           prefills' = SubSeq(q, n + 1, Len(q)) /\ decodes' = decodes
      /\ kind[r] = "decode" =>
           decodes' = SubSeq(q, n + 1, Len(q)) /\ prefills' = prefills
      /\ live = {} => pc' = pc /\ streak' = streak /\ Track(overtaken, delayed)
      /\ live # {} => pc' = [pc EXCEPT ![r] = "leading"]
      /\ live # {} /\ kind[r] = "prefill" => streak' = 0 /\ Track(0, delayed + 1)
      /\ live # {} /\ kind[r] = "decode" =>
           /\ streak' = Minimum(streak + taken, kMaximumDecodeStreak)
           /\ Track(overtaken + taken, 0)

\* A leader pops at least one ticket, and no more than the limits allow.
LEMMA LeadFacts ==
  ASSUME TypeOK, NEW r \in Requests, Lead(r)
  PROVE  \E n \in 1..Len(QueueOf(kind[r])) : LeadStep(r, n)
<1> DEFINE q == QueueOf(kind[r])
<1>1. q \in Seq(Requests) /\ kind[r] \in Kinds
  BY DEF TypeOK, QueueOf
<1>2. PICK n \in 1..Len(q) :
        LET live == Live(q, n)
            taken == Cardinality(live)
        IN
        /\ ClaimSize(q, Limit(kind[r]), n)
        /\ claimed' = claimed \cup {q[i] : i \in 1..n}
        /\ answer' = [m \in Requests |->
                        IF m \in {q[i] : i \in (1..n) \ live} THEN StopAnswer(m)
                        ELSE answer[m]]
        /\ IF kind[r] = "prefill"
           THEN prefills' = SubSeq(q, n + 1, Len(q)) /\ UNCHANGED decodes
           ELSE decodes' = SubSeq(q, n + 1, Len(q)) /\ UNCHANGED prefills
        /\ dispatch' = {q[i] : i \in live}
        /\ executing' = taken
        /\ IF live = {}
           THEN UNCHANGED <<pc, streak>> /\ Track(overtaken, delayed)
           ELSE /\ pc' = [pc EXCEPT ![r] = "leading"]
                /\ streak' = IF kind[r] = "prefill" THEN 0
                             ELSE Minimum(streak + taken, kMaximumDecodeStreak)
                /\ IF kind[r] = "prefill" THEN Track(0, delayed + 1)
                                          ELSE Track(overtaken + taken, 0)
  BY Zenon DEF Lead
<1>3. Cardinality(Live(q, n)) \in Nat /\ (Cardinality(Live(q, n)) = 0 <=> Live(q, n) = {})
  BY <1>1, LiveCount
<1>4. Cardinality(Live(q, n)) <= Limit(kind[r])
  BY <1>2 DEF ClaimSize
<1>5. kind[r] = "decode" => kind[r] # "prefill"
  OBVIOUS
<1>6. LeadStep(r, n)
  BY <1>2, <1>3, <1>4, <1>5, Zenon DEF LeadStep
<1> QED
  BY <1>6

\* A pass is claimed and dispatched.
LEMMA LeadType ==
  ASSUME TypeOK, NEW r \in Requests, Lead(r)
  PROVE  TypeOK'
<1> DEFINE q == QueueOf(kind[r])
<1>1. q \in Seq(Requests) /\ kind[r] \in Kinds
  BY DEF TypeOK, QueueOf
<1>2. PICK n \in 1..Len(q) : LeadStep(r, n)
  BY LeadFacts
<1>3. \A i \in 1..n : q[i] \in Requests
  BY <1>1
<1>4. prefills' \in Seq(Requests) /\ decodes' \in Seq(Requests)
  <2>1. SubSeq(q, n + 1, Len(q)) \in Seq(Requests)
    BY <1>1, PopType
  <2>2. \/ prefills' = SubSeq(q, n + 1, Len(q)) /\ decodes' = decodes
        \/ decodes' = SubSeq(q, n + 1, Len(q)) /\ prefills' = prefills
    BY <1>1, <1>2 DEF Kinds, LeadStep
  <2> QED BY <2>1, <2>2 DEF TypeOK
<1>5. claimed' \in SUBSET Requests /\ dispatch' \in SUBSET Requests
  BY <1>2, <1>3 DEF TypeOK, Live, LeadStep
<1>6. answer' \in [Requests -> Answers \cup {"none"}]
  <2>1. \A m \in Requests : StopAnswer(m) \in Answers \cup {"none"}
    BY DEF StopAnswer, Answers
  <2>2. \A m \in Requests : answer[m] \in Answers \cup {"none"}
    BY DEF TypeOK
  <2>3. answer' = [m \in Requests |->
                     IF m \in {q[i] : i \in (1..n) \ Live(q, n)} THEN StopAnswer(m)
                     ELSE answer[m]]
    BY <1>2 DEF LeadStep
  <2> QED BY <2>1, <2>2, <2>3
<1>7. overtaken' \in Nat /\ delayed' \in Nat
  BY <1>1, <1>2, TrackType DEF TypeOK, Kinds, LeadStep
<1>8. streak' \in 0..kMaximumDecodeStreak
  BY <1>1, <1>2, SchedulerAssumption DEF TypeOK, Kinds, Minimum, LeadStep
<1>9. pc' \in [Requests -> {"idle", "inside", "leading", "gone"}] /\ executing' \in Nat
  BY <1>2 DEF TypeOK, LeadStep
<1> QED
  BY <1>4, <1>5, <1>6, <1>7, <1>8, <1>9 DEF TypeOK, Lead, stopVars

\* Every step keeps the types.
LEMMA NextType == TypeOK /\ [Next]_vars => TypeOK'
<1> SUFFICES ASSUME TypeOK, [Next]_vars PROVE TypeOK'
  OBVIOUS
<1>1. CASE UNCHANGED vars
  BY <1>1 DEF TypeOK, vars, tickets, passVars, stopVars
<1>2. ASSUME NEW n \in 1..kMaximumDecodeBatch, Configure(n) PROVE TypeOK'
  BY <1>2 DEF TypeOK, Configure, tickets, passVars, stopVars
<1>3. ASSUME NEW r \in Requests, NEW k \in Kinds, Submit(r, k) PROVE TypeOK'
  BY <1>3, SubmitType
<1>4. ASSUME NEW r \in Requests, Drop(r) PROVE TypeOK'
  BY <1>4, DropType
<1>5. ASSUME NEW r \in Requests, Lead(r) PROVE TypeOK'
  BY <1>5, LeadType
<1>6. ASSUME NEW r \in Requests, Deliver(r) PROVE TypeOK'
  BY <1>6 DEF TypeOK, Deliver, Answers, stopVars
<1>7. ASSUME NEW r \in Requests, Return(r) PROVE TypeOK'
  BY <1>7 DEF TypeOK, Return, EndRequest, Kinds, passVars, stopVars
<1>8. ASSUME NEW r \in Requests, Cancel(r) PROVE TypeOK'
  BY <1>8 DEF TypeOK, Cancel, tickets, passVars
<1>9. ASSUME NEW r \in Requests, Expire(r) PROVE TypeOK'
  BY <1>9 DEF TypeOK, Expire, tickets, passVars
<1> QED
  BY <1>1, <1>2, <1>3, <1>4, <1>5, <1>6, <1>7, <1>8, <1>9 DEF Next

\* Every reachable state of the scheduler is well typed: the streak never leaves
\* its range and every queue holds requests.
THEOREM TypeCorrect == Spec => []TypeOK
<1>1. Init => TypeOK
  BY InitType
<1>2. TypeOK /\ [Next]_vars => TypeOK'
  BY NextType
<1> QED
  BY <1>1, <1>2, PTL DEF Spec

-----------------------------------------------------------------------------
(* Turns. *)

\* The inductive form of BoundedBypass: whatever has been run over the waiting
\* prefills is on the streak, and a decode that was passed over has the streak
\* on its side.
TurnsInv ==
  /\ overtaken <= streak
  /\ delayed <= 1
  /\ delayed = 1 => streak < kMaximumDecodeStreak
  /\ decodes = <<>> => delayed = 0

\* The turn taking of one claim.
LEMMA LeadTurns ==
  ASSUME TypeOK, TurnsInv, NEW r \in Requests, Lead(r)
  PROVE  TurnsInv'
<1> DEFINE q == QueueOf(kind[r])
<1>1. kind[r] \in Kinds /\ NextKind = kind[r]
  BY DEF TypeOK, Lead
<1>2. PICK n \in 1..Len(q) : LeadStep(r, n)
  BY LeadFacts
<1>3. Limit(kind[r]) \in Nat /\ (kind[r] = "decode" /\ prefills # <<>> =>
                                    streak + Limit(kind[r]) <= kMaximumDecodeStreak)
  BY <1>1, LimitBounds
<1>4. CASE Live(q, n) = {}
  BY <1>2, <1>4 DEF TurnsInv, LeadStep, Track, TypeOK
<1>5. CASE Live(q, n) # {} /\ kind[r] = "prefill"
  <2>1. decodes # <<>> => streak >= kMaximumDecodeStreak
    BY <1>1, <1>5 DEF NextKind
  <2>2. delayed = 0
    BY <2>1, SchedulerAssumption DEF TurnsInv, TypeOK
  <2>3. streak' = 0 /\ overtaken' = 0 /\ decodes' = decodes
    BY <1>2, <1>5 DEF LeadStep, Track
  <2>4. delayed' = IF decodes' = <<>> THEN 0 ELSE 1
    BY <1>2, <1>5, <2>2 DEF LeadStep, Track
  <2> QED
    BY <2>3, <2>4, SchedulerAssumption DEF TurnsInv
<1>6. CASE Live(q, n) # {} /\ kind[r] = "decode"
  <2> DEFINE taken == Cardinality(Live(q, n))
  <2>1. taken \in Nat /\ taken <= Limit(kind[r])
    BY <1>2 DEF LeadStep
  <2>2. /\ streak' = Minimum(streak + taken, kMaximumDecodeStreak)
        /\ overtaken' = IF prefills = <<>> THEN 0 ELSE overtaken + taken
        /\ delayed' = 0
    BY <1>2, <1>6 DEF LeadStep, Track
  <2>3. overtaken' <= streak'
    BY <1>3, <1>6, <2>1, <2>2, SchedulerAssumption DEF Minimum, TypeOK, TurnsInv
  <2> QED
    BY <2>2, <2>3 DEF TurnsInv
<1> QED
  BY <1>1, <1>4, <1>5, <1>6 DEF Kinds

\* Every step keeps the turns.
LEMMA NextTurns == TypeOK /\ TurnsInv /\ [Next]_vars => TurnsInv'
<1> SUFFICES ASSUME TypeOK, TurnsInv, [Next]_vars PROVE TurnsInv'
  OBVIOUS
<1> USE DEF TurnsInv
<1>1. CASE UNCHANGED vars
  BY <1>1 DEF vars, tickets, passVars
<1>2. ASSUME NEW n \in 1..kMaximumDecodeBatch, Configure(n) PROVE TurnsInv'
  BY <1>2 DEF Configure, tickets, passVars
<1>3. ASSUME NEW r \in Requests, NEW k \in Kinds, Submit(r, k) PROVE TurnsInv'
  BY <1>3 DEF Submit, Track, TypeOK
<1>4. ASSUME NEW r \in Requests, Drop(r) PROVE TurnsInv'
  BY <1>4 DEF Drop, Track, TypeOK
<1>5. ASSUME NEW r \in Requests, Lead(r) PROVE TurnsInv'
  BY <1>5, LeadTurns
<1>6. ASSUME NEW r \in Requests, Deliver(r) PROVE TurnsInv'
  BY <1>6 DEF Deliver
<1>7. ASSUME NEW r \in Requests, Return(r) PROVE TurnsInv'
  BY <1>7 DEF Return, passVars
<1>8. ASSUME NEW r \in Requests, Cancel(r) \/ Expire(r) PROVE TurnsInv'
  BY <1>8 DEF Cancel, Expire, tickets, passVars
<1> QED
  BY <1>1, <1>2, <1>3, <1>4, <1>5, <1>6, <1>7, <1>8 DEF Next

\* The turn-taking of next() and of the batch limit bounds both kinds of waiting,
\* whatever the batch size, the streak limit and the number of requests: at most
\* kMaximumDecodeStreak decode items overtake a waiting prefill, and at most one
\* prefill overtakes a waiting decode.
THEOREM BypassIsBounded == Spec => []BoundedBypass
<1>1. Init => TurnsInv
  BY SchedulerAssumption DEF Init, TurnsInv
<1>2. TypeOK /\ TurnsInv /\ [Next]_vars => TurnsInv'
  BY NextTurns
<1>3. TypeOK /\ TurnsInv => BoundedBypass
  BY SchedulerAssumption DEF TypeOK, TurnsInv, BoundedBypass
<1> QED
  BY <1>1, <1>2, <1>3, TypeCorrect, PTL DEF Spec

-----------------------------------------------------------------------------
(* Tickets. *)

\* No ticket is in a queue twice.
Injective(q) == \A i, j \in DOMAIN q : q[i] = q[j] => i = j

\* Submitting adds one ticket, a new one, at the back.
LEMMA AppendTickets ==
  ASSUME NEW S, NEW q \in Seq(S), NEW r \in S, Injective(q), r \notin Elements(q)
  PROVE  /\ Injective(Append(q, r))
         /\ Elements(Append(q, r)) = Elements(q) \cup {r}
<1> DEFINE p == Append(q, r)
<1>1. /\ DOMAIN q = 1..Len(q) /\ DOMAIN p = 1..(Len(q) + 1) /\ Len(q) \in Nat
      /\ \A i \in 1..Len(q) : p[i] = q[i]
      /\ p[Len(q) + 1] = r
  BY AppendProperties
<1>2. \A i \in 1..Len(q) : q[i] # r
  BY <1>1 DEF Elements
<1>3. Injective(p)
  BY <1>1, <1>2 DEF Injective
<1>4. Elements(p) = Elements(q) \cup {r}
  <2>1. \A x \in Elements(p) : x \in Elements(q) \cup {r}
    BY <1>1 DEF Elements
  <2>2. \A x \in Elements(q) : x \in Elements(p)
    <3> SUFFICES ASSUME NEW i \in DOMAIN q PROVE q[i] \in Elements(p)
      BY DEF Elements
    <3>1. i \in DOMAIN p /\ p[i] = q[i]
      BY <1>1
    <3> QED BY <3>1 DEF Elements
  <2>3. r \in Elements(p)
    <3>1. Len(q) + 1 \in DOMAIN p
      BY <1>1
    <3> QED BY <1>1, <3>1 DEF Elements
  <2> QED BY <2>1, <2>2, <2>3
<1> QED BY <1>3, <1>4

\* Erasing removes exactly the ticket at that place.
LEMMA EraseTickets ==
  ASSUME NEW S, NEW q \in Seq(S), NEW i \in DOMAIN q, Injective(q)
  PROVE  /\ Injective(Erase(q, i))
         /\ Elements(Erase(q, i)) = Elements(q) \ {q[i]}
<1> DEFINE p == Erase(q, i)
           from(j) == IF j < i THEN j ELSE j + 1
           to(j) == IF j < i THEN j ELSE j - 1
<1>1. /\ DOMAIN q = 1..Len(q) /\ Len(q) \in Nat \ {0} /\ i \in 1..Len(q)
      /\ DOMAIN p = 1..(Len(q) - 1)
      /\ \A j \in DOMAIN p : from(j) \in DOMAIN q /\ from(j) # i /\ p[j] = q[from(j)]
  BY DEF Erase
<1>2. \A j, l \in DOMAIN p : from(j) = from(l) => j = l
  BY <1>1
<1>3. Injective(p)
  <2> SUFFICES ASSUME NEW j \in DOMAIN p, NEW l \in DOMAIN p, p[j] = p[l] PROVE j = l
    BY DEF Injective
  <2>1. from(j) = from(l)
    BY <1>1 DEF Injective
  <2> QED BY <1>2, <2>1
<1>4. ASSUME NEW x \in Elements(p) PROVE x \in Elements(q) \ {q[i]}
  <2>1. PICK j \in DOMAIN p : x = p[j]
    BY DEF Elements
  <2>2. from(j) \in DOMAIN q /\ from(j) # i /\ x = q[from(j)]
    BY <1>1, <2>1
  <2>3. x # q[i]
    BY <2>2 DEF Injective
  <2> QED BY <2>2, <2>3 DEF Elements
<1>5. ASSUME NEW x \in Elements(q), x # q[i] PROVE x \in Elements(p)
  <2>1. PICK j \in DOMAIN q : x = q[j]
    BY DEF Elements
  <2>2. to(j) \in DOMAIN p /\ from(to(j)) = j
    BY <1>1, <1>5, <2>1
  <2>3. x = p[to(j)]
    BY <1>1, <2>1, <2>2
  <2> QED BY <2>2, <2>3 DEF Elements
<1> QED BY <1>3, <1>4, <1>5

\* Popping the first n tickets removes exactly those.
LEMMA PopTickets ==
  ASSUME NEW S, NEW q \in Seq(S), NEW n \in 1..Len(q), Injective(q)
  PROVE  /\ Injective(SubSeq(q, n + 1, Len(q)))
         /\ Elements(SubSeq(q, n + 1, Len(q))) = Elements(q) \ {q[i] : i \in 1..n}
<1> DEFINE p == SubSeq(q, n + 1, Len(q))
<1>1. /\ DOMAIN q = 1..Len(q) /\ Len(q) \in Nat /\ n \in Nat /\ n <= Len(q)
      /\ DOMAIN p = 1..(Len(q) - n)
      /\ \A j \in DOMAIN p : j + n \in DOMAIN q /\ p[j] = q[j + n]
  <2>1. Len(q) \in Nat /\ n \in 1..Len(q) /\ DOMAIN q = 1..Len(q)
    OBVIOUS
  <2>2. p = [j \in 1..(Len(q) - n) |-> q[j + n]]
    BY <2>1
  <2> QED BY <2>1, <2>2
<1>2. Injective(p)
  BY <1>1 DEF Injective
<1>3. ASSUME NEW x \in Elements(p) PROVE x \in Elements(q) \ {q[i] : i \in 1..n}
  <2>1. PICK j \in DOMAIN p : x = p[j]
    BY DEF Elements
  <2>2. j + n \in DOMAIN q /\ x = q[j + n] /\ j + n > n
    BY <1>1, <2>1
  <2>3. \A i \in 1..n : i \in DOMAIN q /\ i # j + n
    BY <1>1, <2>2
  <2>4. \A i \in 1..n : q[i] # x
    BY <2>2, <2>3 DEF Injective
  <2> QED BY <2>2, <2>4 DEF Elements
<1>4. ASSUME NEW x \in Elements(q), x \notin {q[i] : i \in 1..n} PROVE x \in Elements(p)
  <2>1. PICK j \in DOMAIN q : x = q[j]
    BY DEF Elements
  <2>2. j > n
    BY <1>1, <1>4, <2>1
  <2>3. j - n \in DOMAIN p /\ p[j - n] = q[j]
    BY <1>1, <2>2
  <2> QED BY <2>1, <2>3 DEF Elements
<1> QED BY <1>2, <1>3, <1>4

\* Where a ticket is, per request: a caller that is not in execute() has none; a
\* queued ticket is unclaimed and its caller waits; a caller inside execute() that
\* nobody claimed is in the queue of its kind; the claimed tickets without an
\* answer are exactly the running pass.
TicketInv ==
  /\ Injective(prefills) /\ Injective(decodes)
  /\ \A r \in Elements(prefills) : pc[r] = "inside" /\ kind[r] = "prefill" /\ r \notin claimed
  /\ \A r \in Elements(decodes) : pc[r] = "inside" /\ kind[r] = "decode" /\ r \notin claimed
  /\ \A r \in Requests :
       /\ pc[r] \in {"idle", "gone"} => r \notin claimed
       /\ pc[r] = "leading" => r \in claimed
       /\ r \notin claimed => answer[r] = "none"
       /\ pc[r] = "inside" /\ r \notin claimed => r \in Elements(QueueOf(kind[r]))
       /\ r \in dispatch <=> r \in claimed /\ answer[r] = "none"

\* The elements of a queue of requests are requests.
LEMMA QueuedAreRequests ==
  ASSUME TypeOK
  PROVE  Elements(prefills) \subseteq Requests /\ Elements(decodes) \subseteq Requests
BY DEF TypeOK, Elements

\* There is no ticket at the start.
LEMMA InitTickets == Init => TicketInv
BY DEF Init, TicketInv, Injective, Elements

\* A new ticket is in one queue, once.
LEMMA SubmitTickets ==
  ASSUME TypeOK, TicketInv, NEW r \in Requests, NEW k \in Kinds, Submit(r, k)
  PROVE  TicketInv'
<1>1. r \notin Elements(prefills) /\ r \notin Elements(decodes) /\ r \notin claimed
  BY DEF TicketInv, Submit
<1>2. \/ /\ k = "prefill" /\ prefills' = Append(prefills, r) /\ decodes' = decodes
         /\ Injective(prefills') /\ Elements(prefills') = Elements(prefills) \cup {r}
         /\ Injective(decodes') /\ Elements(decodes') = Elements(decodes)
      \/ /\ k = "decode" /\ decodes' = Append(decodes, r) /\ prefills' = prefills
         /\ Injective(decodes') /\ Elements(decodes') = Elements(decodes) \cup {r}
         /\ Injective(prefills') /\ Elements(prefills') = Elements(prefills)
  <2>1. /\ prefills \in Seq(Requests) /\ decodes \in Seq(Requests)
        /\ Injective(prefills) /\ Injective(decodes)
    BY DEF TypeOK, TicketInv
  <2>2. CASE k = "prefill"
    <3>1. prefills' = Append(prefills, r) /\ decodes' = decodes
      BY <2>2 DEF Submit
    <3>2. Injective(prefills') /\ Elements(prefills') = Elements(prefills) \cup {r}
      BY <1>1, <2>1, <3>1, AppendTickets, Zenon
    <3> QED BY <2>1, <2>2, <3>1, <3>2
  <2>3. CASE k = "decode"
    <3>1. decodes' = Append(decodes, r) /\ prefills' = prefills
      BY <2>3 DEF Submit
    <3>2. Injective(decodes') /\ Elements(decodes') = Elements(decodes) \cup {r}
      BY <1>1, <2>1, <3>1, AppendTickets, Zenon
    <3> QED BY <2>1, <2>3, <3>1, <3>2
  <2> QED BY <2>2, <2>3 DEF Kinds
<1>3. /\ pc' = [pc EXCEPT ![r] = "inside"] /\ kind' = [kind EXCEPT ![r] = k]
      /\ claimed' = claimed /\ answer' = answer /\ dispatch' = dispatch
  BY DEF Submit
<1> QED
  BY <1>1, <1>2, <1>3, QueuedAreRequests DEF TypeOK, TicketInv, QueueOf

\* A dropped ticket is nowhere.
LEMMA DropTickets ==
  ASSUME TypeOK, TicketInv, NEW r \in Requests, Drop(r)
  PROVE  TicketInv'
<1>1. PICK i \in DOMAIN QueueOf(kind[r]) :
        /\ QueueOf(kind[r])[i] = r
        /\ IF kind[r] = "prefill"
           THEN prefills' = Erase(prefills, i) /\ UNCHANGED decodes
           ELSE decodes' = Erase(decodes, i) /\ UNCHANGED prefills
  BY DEF Drop
<1>2. \/ /\ kind[r] = "prefill" /\ decodes' = decodes
         /\ Injective(prefills') /\ Elements(prefills') = Elements(prefills) \ {r}
         /\ Injective(decodes') /\ Elements(decodes') = Elements(decodes)
      \/ /\ kind[r] = "decode" /\ prefills' = prefills
         /\ Injective(decodes') /\ Elements(decodes') = Elements(decodes) \ {r}
         /\ Injective(prefills') /\ Elements(prefills') = Elements(prefills)
  <2>1. CASE kind[r] = "prefill"
    BY <1>1, <2>1, EraseTickets DEF QueueOf, TypeOK, TicketInv
  <2>2. CASE kind[r] = "decode"
    BY <1>1, <2>2, EraseTickets DEF QueueOf, TypeOK, TicketInv
  <2> QED BY <2>1, <2>2 DEF TypeOK, Kinds
<1>3. /\ pc' = [pc EXCEPT ![r] = "gone"] /\ kind' = [kind EXCEPT ![r] = "prefill"]
      /\ claimed' = claimed /\ answer' = answer /\ dispatch' = dispatch
      /\ pc[r] = "inside" /\ r \notin claimed
  BY DEF Drop, EndRequest
<1> QED
  BY <1>2, <1>3, QueuedAreRequests DEF TypeOK, TicketInv, QueueOf

\* Distinct places of a queue hold distinct tickets.
LEMMA PlacesCount ==
  ASSUME NEW q, NEW I \in SUBSET DOMAIN q, IsFiniteSet(I), Injective(q)
  PROVE  IsFiniteSet({q[i] : i \in I}) /\ Cardinality({q[i] : i \in I}) = Cardinality(I)
<1> DEFINE T == {q[i] : i \in I}
           f == [i \in I |-> q[i]]
<1>1. f \in Bijection(I, T)
  <2>1. f \in [I -> T] /\ \A t \in T : \E i \in I : f[i] = t
    OBVIOUS
  <2>2. \A i, j \in I : f[i] = f[j] => i = j
    BY DEF Injective
  <2> QED
    BY <2>1, <2>2 DEF Bijection, Injection, Surjection, IsInjective
<1>2. ExistsBijection(I, T)
  BY <1>1 DEF ExistsBijection
<1> QED
  BY <1>2, FS_Bijection

\* The tickets the leader r pops when it takes n, the members of its pass among
\* them, and the stopped ones it answers.
Popped(r, n) == {QueueOf(kind[r])[i] : i \in 1..n}
Members(r, n) == {QueueOf(kind[r])[i] : i \in Live(QueueOf(kind[r]), n)}
Refused(r, n) == {QueueOf(kind[r])[i] : i \in (1..n) \ Live(QueueOf(kind[r]), n)}

\* A leader removes what it pops from its queue and claims it, answers the stopped
\* tickets and runs the others; no ticket is among both.
LEMMA LeadSplit ==
  ASSUME TypeOK, TicketInv, NEW r \in Requests, NEW n \in 1..Len(QueueOf(kind[r])),
         LeadStep(r, n)
  PROVE  /\ Popped(r, n) = Members(r, n) \cup Refused(r, n)
         /\ Members(r, n) \cap Refused(r, n) = {}
         /\ Popped(r, n) \subseteq Elements(QueueOf(kind[r]))
         /\ QueueOf(kind[r])[1] \in Popped(r, n)
         /\ IsFiniteSet(Members(r, n))
         /\ Cardinality(Members(r, n)) = Cardinality(Live(QueueOf(kind[r]), n))
         /\ \/ /\ kind[r] = "prefill" /\ decodes' = decodes
               /\ Injective(prefills') /\ Injective(decodes')
               /\ Elements(prefills') = Elements(prefills) \ Popped(r, n)
               /\ Elements(decodes') = Elements(decodes)
            \/ /\ kind[r] = "decode" /\ prefills' = prefills
               /\ Injective(prefills') /\ Injective(decodes')
               /\ Elements(decodes') = Elements(decodes) \ Popped(r, n)
               /\ Elements(prefills') = Elements(prefills)
<1> DEFINE q == QueueOf(kind[r])
           live == Live(q, n)
<1>1. q \in Seq(Requests) /\ kind[r] \in Kinds /\ Injective(q)
  BY DEF TypeOK, QueueOf, TicketInv
<1>2. live \subseteq 1..n /\ 1..n \subseteq DOMAIN q /\ 1 \in 1..n /\ IsFiniteSet(live)
  <2>1. n \in Nat /\ n >= 1 /\ n <= Len(q) /\ DOMAIN q = 1..Len(q) /\ Len(q) \in Nat
    BY <1>1
  <2>2. IsFiniteSet(live)
    BY <2>1, LiveCount
  <2> QED BY <2>1, <2>2 DEF Live
<1>3. Popped(r, n) = Members(r, n) \cup Refused(r, n)
  BY <1>2 DEF Popped, Members, Refused
<1>4. Members(r, n) \cap Refused(r, n) = {}
  <2>1. ASSUME NEW x, x \in Members(r, n), x \in Refused(r, n) PROVE FALSE
    <3>1. PICK i \in live : x = q[i]
      BY <2>1 DEF Members
    <3>2. PICK j \in (1..n) \ live : x = q[j]
      BY <2>1 DEF Refused
    <3>3. i = j
      BY <1>1, <1>2, <3>1, <3>2 DEF Injective
    <3> QED BY <3>3
  <2> QED BY <2>1
<1>5. Popped(r, n) \subseteq Elements(q) /\ q[1] \in Popped(r, n)
  BY <1>2 DEF Popped, Elements
<1>6. IsFiniteSet(Members(r, n)) /\ Cardinality(Members(r, n)) = Cardinality(live)
  BY <1>1, <1>2, PlacesCount DEF Members
<1>7. /\ Injective(SubSeq(q, n + 1, Len(q)))
      /\ Elements(SubSeq(q, n + 1, Len(q))) = Elements(q) \ Popped(r, n)
  BY <1>1, PopTickets DEF Popped
<1>8. CASE kind[r] = "prefill"
  <2>1. q = prefills /\ prefills' = SubSeq(q, n + 1, Len(q)) /\ decodes' = decodes
    BY <1>8 DEF LeadStep, QueueOf
  <2> QED BY <1>3, <1>4, <1>5, <1>6, <1>7, <1>8, <2>1 DEF TicketInv
<1>9. CASE kind[r] = "decode"
  <2>1. q = decodes /\ decodes' = SubSeq(q, n + 1, Len(q)) /\ prefills' = prefills
    BY <1>9 DEF LeadStep, QueueOf
  <2> QED BY <1>3, <1>4, <1>5, <1>6, <1>7, <1>9, <2>1 DEF TicketInv
<1> QED
  BY <1>1, <1>8, <1>9 DEF Kinds

\* Popped tickets are members of the pass or are answered.
LEMMA LeadTickets ==
  ASSUME TypeOK, TicketInv, executing = 0 => dispatch = {}, NEW r \in Requests, Lead(r)
  PROVE  TicketInv'
<1> DEFINE q == QueueOf(kind[r])
<1>1. PICK n \in 1..Len(q) : LeadStep(r, n)
  BY LeadFacts
<1>2. /\ Popped(r, n) = Members(r, n) \cup Refused(r, n)
      /\ Members(r, n) \cap Refused(r, n) = {}
      /\ Popped(r, n) \subseteq Elements(q)
      /\ r \in Popped(r, n)
      /\ \/ /\ kind[r] = "prefill" /\ decodes' = decodes
            /\ Injective(prefills') /\ Injective(decodes')
            /\ Elements(prefills') = Elements(prefills) \ Popped(r, n)
            /\ Elements(decodes') = Elements(decodes)
         \/ /\ kind[r] = "decode" /\ prefills' = prefills
            /\ Injective(prefills') /\ Injective(decodes')
            /\ Elements(decodes') = Elements(decodes) \ Popped(r, n)
            /\ Elements(prefills') = Elements(prefills)
  BY <1>1, LeadSplit DEF Lead
<1>3. /\ kind' = kind
      /\ pc' = pc \/ pc' = [pc EXCEPT ![r] = "leading"]
      /\ claimed' = claimed \cup Popped(r, n)
      /\ dispatch' = Members(r, n)
      /\ dispatch = {}
  BY <1>1 DEF Lead, LeadStep, Popped, Members
<1>4. \A m \in Requests : IF m \in Refused(r, n) THEN answer'[m] # "none"
                                                 ELSE answer'[m] = answer[m]
  BY <1>1 DEF LeadStep, Refused, StopAnswer
<1>5. /\ Elements(q) \subseteq Requests
      /\ \A m \in Elements(q) : pc[m] = "inside" /\ kind[m] = kind[r] /\ m \notin claimed
                                /\ answer[m] = "none"
  BY QueuedAreRequests DEF QueueOf, TicketInv, TypeOK, Kinds
<1>6. \A m \in Elements(prefills') : pc'[m] = "inside" /\ kind'[m] = "prefill" /\ m \notin claimed'
  BY <1>2, <1>3, <1>5, QueuedAreRequests DEF TicketInv, TypeOK, QueueOf
<1>7. \A m \in Elements(decodes') : pc'[m] = "inside" /\ kind'[m] = "decode" /\ m \notin claimed'
  BY <1>2, <1>3, <1>5, QueuedAreRequests DEF TicketInv, TypeOK, QueueOf
<1>8. ASSUME NEW m \in Requests
      PROVE  /\ pc'[m] \in {"idle", "gone"} => m \notin claimed'
             /\ pc'[m] = "leading" => m \in claimed'
             /\ m \notin claimed' => answer'[m] = "none"
             /\ m \in dispatch' <=> m \in claimed' /\ answer'[m] = "none"
  BY <1>2, <1>3, <1>4, <1>5 DEF TicketInv, TypeOK
<1>9. ASSUME NEW m \in Requests, pc'[m] = "inside", m \notin claimed'
      PROVE  m \in Elements(QueueOf(kind[m])')
  BY <1>2, <1>3, <1>9 DEF TicketInv, TypeOK, QueueOf
<1>10. kind' = kind /\ Injective(prefills') /\ Injective(decodes')
  BY <1>2, <1>3
<1> QED
  BY <1>3, <1>6, <1>7, <1>8, <1>9, <1>10 DEF TicketInv, QueueOf

\* The members are answered together.
LEMMA DeliverTickets ==
  ASSUME TypeOK, TicketInv, NEW r \in Requests, Deliver(r)
  PROVE  TicketInv'
<1>1. PICK outcome \in {"ok", "error"} :
        answer' = [m \in Requests |-> IF m \in dispatch THEN outcome ELSE answer[m]]
  BY DEF Deliver
<1>2. /\ \A m \in Requests : IF m \in dispatch THEN answer'[m] # "none"
                                               ELSE answer'[m] = answer[m]
      /\ pc[r] = "leading" /\ pc' = [pc EXCEPT ![r] = "inside"]
      /\ kind' = kind /\ prefills' = prefills /\ decodes' = decodes
      /\ claimed' = claimed /\ dispatch' = {}
  BY <1>1 DEF Deliver
<1> QED
  BY <1>2, QueuedAreRequests DEF TypeOK, TicketInv, QueueOf

\* An answered caller leaves.
LEMMA ReturnTickets ==
  ASSUME TypeOK, TicketInv, NEW r \in Requests, Return(r)
  PROVE  TicketInv'
<1>1. /\ pc[r] = "inside" /\ answer[r] # "none" /\ r \in claimed
      /\ pc' = [pc EXCEPT ![r] = "idle"] \/ pc' = [pc EXCEPT ![r] = "gone"]
      /\ kind' = kind \/ kind' = [kind EXCEPT ![r] = "prefill"]
      /\ claimed' = claimed \ {r} /\ answer' = [answer EXCEPT ![r] = "none"]
      /\ prefills' = prefills /\ decodes' = decodes /\ dispatch' = dispatch
  BY DEF Return, EndRequest, passVars, TicketInv
<1> QED
  BY <1>1, QueuedAreRequests DEF TypeOK, TicketInv, QueueOf

\* A pass is no wider than the queue it is taken from allows.
LEMMA LimitWidth ==
  ASSUME TypeOK, NEW k \in Kinds, NextKind = k
  PROVE  /\ Limit(k) <= maxBatch
         /\ k = "prefill" \/ ~BatchSupported => Limit(k) = 1
BY SchedulerAssumption DEF TypeOK, Kinds, NextKind, Limit, Minimum

\* executing_ = 0 means that no pass is running.
LEMMA NoPassWhenIdle ==
  ASSUME TypeOK, OnePass, executing = 0
  PROVE  dispatch = {}
<1>1. IsFiniteSet(dispatch)
  BY SchedulerAssumption, FS_Subset DEF TypeOK
<1> QED
  BY <1>1, FS_EmptySet DEF OnePass

\* A claimed pass is the only one and within its width.
LEMMA LeadPass ==
  ASSUME TypeOK, TicketInv, OnePass, NEW r \in Requests, Lead(r)
  PROVE  OnePass'
<1> DEFINE q == QueueOf(kind[r])
<1>1. PICK n \in 1..Len(q) : LeadStep(r, n)
  BY LeadFacts
<1>2. /\ IsFiniteSet(Members(r, n))
      /\ Cardinality(Members(r, n)) = Cardinality(Live(q, n))
      /\ Members(r, n) \subseteq Elements(q)
  BY <1>1, LeadSplit
<1>3. /\ dispatch' = Members(r, n) /\ executing' = Cardinality(Live(q, n))
      /\ Cardinality(Live(q, n)) \in Nat
      /\ Cardinality(Live(q, n)) <= Limit(kind[r])
      /\ Cardinality(Live(q, n)) = 0 <=> Live(q, n) = {}
      /\ Live(q, n) = {} => pc' = pc
      /\ Live(q, n) # {} => pc' = [pc EXCEPT ![r] = "leading"]
      /\ kind' = kind /\ maxBatch' = maxBatch
  BY <1>1 DEF LeadStep, Members, Lead
<1>4. kind[r] \in Kinds /\ NextKind = kind[r] /\ executing = 0
  BY DEF TypeOK, Lead
<1>5. /\ Limit(kind[r]) \in Nat \ {0} /\ Limit(kind[r]) <= maxBatch
      /\ kind[r] = "prefill" \/ ~BatchSupported => Limit(kind[r]) = 1
  BY <1>4, LimitBounds, LimitWidth
<1>6. \A m \in Requests : pc[m] # "leading"
  BY <1>4, NoPassWhenIdle DEF OnePass
<1>7. /\ executing' = Cardinality(dispatch')
      /\ Cardinality(dispatch') <= maxBatch'
  BY <1>2, <1>3, <1>5 DEF TypeOK
<1>8. dispatch' = {} <=> Live(q, n) = {}
  BY <1>2, <1>3, FS_EmptySet
<1>9. /\ dispatch' = {} <=> \A m \in Requests : pc'[m] # "leading"
      /\ \A m, l \in Requests : pc'[m] = "leading" /\ pc'[l] = "leading" => m = l
  BY <1>3, <1>6, <1>8 DEF TypeOK
<1>10. ASSUME NEW m \in dispatch', kind'[m] = "prefill" \/ ~BatchSupported
       PROVE  dispatch' = {m}
  <2>1. kind[m] = kind[r]
    BY <1>2, <1>3, <1>4 DEF TicketInv, QueueOf, Kinds
  <2>2. Cardinality(dispatch') <= 1 /\ dispatch' # {}
    BY <1>2, <1>3, <1>5, <1>10, <2>1
  <2>3. Cardinality(dispatch') = 1
    BY <1>2, <1>3, <1>8, <2>2
  <2>4. PICK x : dispatch' = {x}
    BY <1>2, <1>3, <2>3, FS_Singleton
  <2> QED BY <2>4
<1> QED
  BY <1>7, <1>9, <1>10 DEF OnePass

\* One inductive invariant for the tickets and the pass: each half needs the other.
SchedulerInv == TypeOK /\ TicketInv /\ OnePass

\* Both halves at the start.
LEMMA InitScheduler == Init => SchedulerInv
<1> SUFFICES ASSUME Init PROVE OnePass
  BY InitType, InitTickets DEF SchedulerInv
<1> QED
  BY FS_EmptySet DEF Init, OnePass

\* Every step keeps both halves.
LEMMA NextScheduler == SchedulerInv /\ [Next]_vars => SchedulerInv'
<1> SUFFICES ASSUME TypeOK, TicketInv, OnePass, [Next]_vars PROVE TicketInv' /\ OnePass'
  BY NextType DEF SchedulerInv
<1>1. CASE UNCHANGED vars
  <2>1. TicketInv'
    BY <1>1 DEF TicketInv, vars, tickets, passVars, Injective, Elements, QueueOf
  <2>2. OnePass'
    BY <1>1 DEF OnePass, vars, tickets, passVars
  <2> QED BY <2>1, <2>2
<1>2. ASSUME NEW n \in 1..kMaximumDecodeBatch, Configure(n) PROVE TicketInv' /\ OnePass'
  <2>1. TicketInv'
    BY <1>2 DEF TicketInv, Configure, tickets, passVars, Injective, Elements, QueueOf
  <2>2. dispatch = {}
    BY <1>2, NoPassWhenIdle DEF Configure
  <2>3. OnePass'
    BY <1>2, <2>2, FS_EmptySet DEF OnePass, Configure, tickets, passVars
  <2> QED BY <2>1, <2>3
<1>3. ASSUME NEW r \in Requests, NEW k \in Kinds, Submit(r, k) PROVE TicketInv' /\ OnePass'
  <2>1. r \notin dispatch
    BY <1>3 DEF TicketInv, Submit
  <2>2. OnePass'
    BY <1>3, <2>1 DEF OnePass, Submit, TypeOK
  <2> QED BY <1>3, <2>2, SubmitTickets
<1>4. ASSUME NEW r \in Requests, Drop(r) PROVE TicketInv' /\ OnePass'
  <2>1. r \notin dispatch
    BY <1>4 DEF TicketInv, Drop
  <2>2. OnePass'
    BY <1>4, <2>1 DEF OnePass, Drop, EndRequest, TypeOK
  <2> QED BY <1>4, <2>2, DropTickets
<1>5. ASSUME NEW r \in Requests, Lead(r) PROVE TicketInv' /\ OnePass'
  BY <1>5, LeadTickets, LeadPass, NoPassWhenIdle
<1>6. ASSUME NEW r \in Requests, Deliver(r) PROVE TicketInv' /\ OnePass'
  <2>1. OnePass'
    BY <1>6, FS_EmptySet DEF OnePass, Deliver, TypeOK
  <2> QED BY <1>6, <2>1, DeliverTickets
<1>7. ASSUME NEW r \in Requests, Return(r) PROVE TicketInv' /\ OnePass'
  <2>1. r \notin dispatch
    BY <1>7 DEF TicketInv, Return
  <2>2. OnePass'
    BY <1>7, <2>1 DEF OnePass, Return, EndRequest, passVars, TypeOK
  <2> QED BY <1>7, <2>2, ReturnTickets
<1>8. ASSUME NEW r \in Requests, Cancel(r) \/ Expire(r) PROVE TicketInv' /\ OnePass'
  <2>1. UNCHANGED <<tickets, passVars, maxBatch>>
    BY <1>8 DEF Cancel, Expire
  <2>2. TicketInv'
    BY <2>1 DEF TicketInv, tickets, passVars, Injective, Elements, QueueOf
  <2>3. OnePass'
    BY <2>1 DEF OnePass, tickets, passVars
  <2> QED BY <2>2, <2>3
<1> QED
  BY <1>1, <1>2, <1>3, <1>4, <1>5, <1>6, <1>7, <1>8 DEF Next

\* So they always hold.
LEMMA SchedulerInvariant == Spec => []SchedulerInv
BY InitScheduler, NextScheduler, PTL DEF Spec

\* A ticket that a queue or a running pass points to belongs to a caller that is
\* still inside execute(), so the pointer into its stack is valid, for every
\* number of callers and every order of stops, claims and deliveries.
THEOREM TicketsAreAlive == Spec => []NoDanglingTicket
<1>1. TypeOK /\ TicketInv => NoDanglingTicket
  <2> SUFFICES ASSUME TypeOK, TicketInv PROVE NoDanglingTicket
    OBVIOUS
  <2>1. ASSUME NEW k \in Kinds, NEW i \in DOMAIN QueueOf(k)
        PROVE  LET r == QueueOf(k)[i] IN
               /\ pc[r] = "inside" /\ kind[r] = k /\ r \notin claimed /\ answer[r] = "none"
               /\ \A j \in DOMAIN QueueOf(k) : QueueOf(k)[j] = r => j = i
    <3>1. CASE k = "prefill"
      BY <2>1, <3>1, QueuedAreRequests DEF TicketInv, QueueOf, Injective, Elements
    <3>2. CASE k = "decode"
      BY <2>1, <3>2, QueuedAreRequests DEF TicketInv, QueueOf, Injective, Elements
    <3> QED BY <3>1, <3>2 DEF Kinds
  <2>2. \A r \in dispatch :
          pc[r] \in {"inside", "leading"} /\ r \in claimed /\ answer[r] = "none"
    BY DEF TicketInv, TypeOK
  <2> QED BY <2>1, <2>2 DEF NoDanglingTicket
<1> QED
  BY <1>1, SchedulerInvariant, PTL DEF SchedulerInv

\* Nobody is forgotten: a caller inside execute() without an answer is in the queue
\* of its kind, or is a member of the running pass and will be answered with it.
THEOREM TicketsAreKept == Spec => []NoLostTicket
<1>1. TypeOK /\ TicketInv => NoLostTicket
  BY DEF TypeOK, TicketInv, NoLostTicket
<1> QED
  BY <1>1, SchedulerInvariant, PTL DEF SchedulerInv

\* Passes exclude each other, have one leader, count their members exactly and are
\* never wider than the workspace configured for them, whatever the limits are.
THEOREM PassesAreExclusive == Spec => []OnePass
BY SchedulerInvariant, PTL DEF SchedulerInv

-----------------------------------------------------------------------------
(* Refinement of PassServer. *)

\* What the caller of r sees, without the function around it.
LEMMA ViewOf ==
  ASSUME TypeOK, TicketInv, NEW r \in Requests
  PROVE  /\ CallerView[r] = "idle" <=> pc[r] = "idle"
         /\ CallerView[r] = "gone" <=> pc[r] = "gone"
         /\ CallerView[r] = "answered" <=> answer[r] # "none"
         /\ CallerView[r] = "running" <=> r \in dispatch
         /\ CallerView[r] = "waiting" <=> pc[r] = "inside" /\ r \notin claimed
BY DEF CallerView, TypeOK, TicketInv

\* A step that leaves the tickets alone is not seen by any caller.
LEMMA ViewUnchanged ==
  ASSUME pc' = pc, claimed' = claimed, answer' = answer
  PROVE  CallerView' = CallerView
BY DEF CallerView

\* A submitted call arrives at the service.
LEMMA SubmitArrives ==
  ASSUME SchedulerInv, NEW r \in Requests, NEW k \in Kinds, Submit(r, k)
  PROVE  Passes!Arrive(r)
<1>1. CallerView[r] = "idle"
  BY ViewOf DEF SchedulerInv, Submit
<1>2. /\ pc' = [pc EXCEPT ![r] = "inside"] /\ claimed' = claimed /\ answer' = answer
      /\ r \notin claimed /\ answer[r] = "none"
  BY DEF Submit, SchedulerInv, TicketInv
<1>3. CallerView' = [CallerView EXCEPT ![r] = "waiting"]
  BY <1>2 DEF CallerView, SchedulerInv, TypeOK
<1> QED
  BY <1>1, <1>3 DEF Passes!Arrive

\* A dropped one is refused without a pass.
LEMMA DropWithdraws ==
  ASSUME SchedulerInv, NEW r \in Requests, Drop(r)
  PROVE  Passes!Withdraw(r)
<1>1. CallerView[r] = "waiting"
  BY ViewOf DEF SchedulerInv, Drop
<1>2. pc' = [pc EXCEPT ![r] = "gone"] /\ claimed' = claimed /\ answer' = answer
  BY DEF Drop, EndRequest
<1>3. CallerView' = [CallerView EXCEPT ![r] = "gone"]
  BY <1>2 DEF CallerView, SchedulerInv, TypeOK
<1> QED
  BY <1>1, <1>3 DEF Passes!Withdraw

\* The abstract specification counts members the way this one does.
LEMMA SameCardinality == \A S : Passes!Cardinality(S) = Cardinality(S)
BY Zenon DEF Passes!Cardinality, Cardinality

\* A claim forms a pass, or refuses stopped callers.
LEMMA LeadForms ==
  ASSUME SchedulerInv, NEW r \in Requests, Lead(r)
  PROVE  \E members, refused \in SUBSET Requests : Passes!Form(members, refused)
<1> USE DEF SchedulerInv
<1> DEFINE q == QueueOf(kind[r])
<1>1. PICK n \in 1..Len(q) : LeadStep(r, n)
  BY LeadFacts
<1> DEFINE members == Members(r, n)
           refused == Refused(r, n)
<1>2. /\ Popped(r, n) = members \cup refused /\ members \cap refused = {}
      /\ Popped(r, n) \subseteq Elements(q)
      /\ r \in Popped(r, n)
      /\ Cardinality(members) = Cardinality(Live(q, n))
  BY <1>1, LeadSplit DEF Lead
<1>3. /\ Elements(q) \subseteq Requests
      /\ \A m \in Elements(q) : pc[m] = "inside" /\ m \notin claimed /\ answer[m] = "none"
  BY QueuedAreRequests DEF QueueOf, TicketInv, TypeOK, Kinds
<1>4. members \in SUBSET Requests /\ refused \in SUBSET Requests
  BY <1>2, <1>3
<1>5. dispatch = {} /\ dispatch' = members
  BY <1>1, NoPassWhenIdle DEF Lead, LeadStep, Members
<1>6. Passes!Running = {} /\ members \subseteq Passes!Waiting /\ refused \subseteq Passes!Waiting
  BY <1>2, <1>3, <1>5, ViewOf DEF Passes!Running, Passes!Waiting
<1>7. Cardinality(members) <= kMaximumDecodeBatch
  <2>1. kind[r] \in Kinds /\ NextKind = kind[r]
    BY DEF TypeOK, Lead
  <2>2. Limit(kind[r]) \in Nat /\ Limit(kind[r]) <= maxBatch
    BY <2>1, LimitBounds, LimitWidth
  <2>3. Cardinality(members) \in Nat /\ Cardinality(members) <= Limit(kind[r])
    BY <1>1, <1>2 DEF LeadStep
  <2> QED BY <2>2, <2>3, SchedulerAssumption DEF TypeOK
<1>8. /\ pc' = pc \/ pc' = [pc EXCEPT ![r] = "leading"]
      /\ claimed' = claimed \cup Popped(r, n)
      /\ \A m \in Requests : IF m \in refused THEN answer'[m] # "none"
                                              ELSE answer'[m] = answer[m]
  BY <1>1 DEF LeadStep, Refused, StopAnswer, Popped
<1>9. ASSUME NEW m \in Requests
      PROVE  CallerView'[m] = IF m \in members THEN "running"
                              ELSE IF m \in refused THEN "answered" ELSE CallerView[m]
  BY <1>2, <1>3, <1>8 DEF CallerView, TypeOK
<1>10. CallerView' = [m \in Requests |-> IF m \in members THEN "running"
                                         ELSE IF m \in refused THEN "answered"
                                         ELSE CallerView[m]]
  BY <1>9 DEF CallerView
<1> HIDE DEF members, refused
<1>11. Passes!Form(members, refused)
  BY <1>2, <1>6, <1>7, <1>10, SameCardinality, Zenon DEF Passes!Form
<1> QED
  BY <1>4, <1>11

\* A delivery finishes the pass.
LEMMA DeliverFinishes ==
  ASSUME SchedulerInv, NEW r \in Requests, Deliver(r)
  PROVE  Passes!Finish
<1> USE DEF SchedulerInv
<1>1. Passes!Running = dispatch
  BY ViewOf DEF Passes!Running, TypeOK
<1>2. dispatch # {}
  BY DEF OnePass, Deliver
<1>3. PICK outcome \in {"ok", "error"} :
        answer' = [m \in Requests |-> IF m \in dispatch THEN outcome ELSE answer[m]]
  BY DEF Deliver
<1>4. ASSUME NEW m \in Requests
      PROVE  CallerView'[m] = IF m \in dispatch THEN "answered" ELSE CallerView[m]
  <2>1. /\ pc[r] = "leading" /\ pc' = [pc EXCEPT ![r] = "inside"] /\ claimed' = claimed
        /\ IF m \in dispatch THEN answer'[m] # "none" ELSE answer'[m] = answer[m]
    BY <1>3 DEF Deliver
  <2>2. m \in dispatch => pc[m] \in {"inside", "leading"}
    BY DEF TypeOK, TicketInv
  <2> QED BY <2>1, <2>2 DEF CallerView, TypeOK
<1>5. CallerView' = [m \in Requests |-> IF m \in dispatch THEN "answered" ELSE CallerView[m]]
  BY <1>4 DEF CallerView
<1> QED
  BY <1>1, <1>2, <1>5 DEF Passes!Finish

\* A return takes the answer.
LEMMA ReturnTakes ==
  ASSUME SchedulerInv, NEW r \in Requests, Return(r)
  PROVE  Passes!Take(r)
<1> USE DEF SchedulerInv
<1>1. CallerView[r] = "answered"
  BY ViewOf DEF Return
<1>2. PICK after \in {"idle", "gone"} : pc' = [pc EXCEPT ![r] = after]
  BY DEF Return, EndRequest
<1>3. CallerView' = [CallerView EXCEPT ![r] = after]
  BY <1>2 DEF CallerView, TypeOK, Return
<1> QED
  BY <1>1, <1>3 DEF Passes!Take

\* The scheduler implements the one-pass-at-a-time service for every set of
\* callers: queues, turns, leaders and claims are invisible, a pass takes waiting
\* callers only, answers them together, and nobody else is answered without one.
THEOREM RefinesPassServer == Spec => ImplementsPassServer
<1>1. Init => Passes!Init
  BY DEF Init, Passes!Init, CallerView
<1>2. SchedulerInv /\ [Next]_vars => [Passes!Next]_CallerView
  <2> SUFFICES ASSUME SchedulerInv, [Next]_vars
               PROVE  Passes!Next \/ CallerView' = CallerView
    OBVIOUS
  <2>1. CASE UNCHANGED vars
    BY <2>1, ViewUnchanged DEF vars, tickets
  <2>2. ASSUME NEW n \in 1..kMaximumDecodeBatch, Configure(n) PROVE CallerView' = CallerView
    BY <2>2, ViewUnchanged DEF Configure, tickets
  <2>3. ASSUME NEW r \in Requests, NEW k \in Kinds, Submit(r, k) PROVE Passes!Next
    BY <2>3, SubmitArrives DEF Passes!Next
  <2>4. ASSUME NEW r \in Requests, Drop(r) PROVE Passes!Next
    BY <2>4, DropWithdraws DEF Passes!Next
  <2>5. ASSUME NEW r \in Requests, Lead(r) PROVE Passes!Next
    BY <2>5, LeadForms DEF Passes!Next
  <2>6. ASSUME NEW r \in Requests, Deliver(r) PROVE Passes!Next
    BY <2>6, DeliverFinishes DEF Passes!Next
  <2>7. ASSUME NEW r \in Requests, Return(r) PROVE Passes!Next
    BY <2>7, ReturnTakes DEF Passes!Next
  <2>8. ASSUME NEW r \in Requests, Cancel(r) \/ Expire(r) PROVE CallerView' = CallerView
    BY <2>8, ViewUnchanged DEF Cancel, Expire, tickets
  <2> QED
    BY <2>1, <2>2, <2>3, <2>4, <2>5, <2>6, <2>7, <2>8 DEF Next
<1> QED
  BY <1>1, <1>2, SchedulerInvariant, PTL DEF Spec, ImplementsPassServer, Passes!Spec
=============================================================================
