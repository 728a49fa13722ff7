----------------------------- MODULE SweepProofs -----------------------------
(***************************************************************************)
(* Proofs about Sweep, for every set of placements, every shuffle, every   *)
(* frozen sweep and any number of invocations, crashes and interrupts.     *)
(***************************************************************************)
EXTENDS Sweep, FiniteSetTheorems, SequenceTheorems, TLAPS

\* A result that was written to its end.
Kept(j) == results[j] # None /\ ~Torn(j)

Saved == {j \in AllJobs : results[j] # None}

\* The sweep ends behind job j: a round is complete, and it is the last one or the
\* results so far decide.
Final(j) ==
  /\ Slot(j) = JobsPerRound
  /\ Round(j) = spec.maximum \/ (Round(j) >= spec.repetitions /\ summarize(1..j) # "inconclusive")

\* Every job before j has a result, and none of them was the last.
Reached(j) == \A i \in 1..(j - 1) : Kept(i) /\ ~Final(i)

\* What Save lets onto the disk.
Earned(r) ==
  validate_result(r) /\ (r.status = "measured" => r.owned /\ r.clean)

DiskInv ==
  /\ results \in [AllJobs -> Results \cup {None}] /\ DOMAIN evidence = AllJobs
  /\ \A j \in AllJobs : results[j] # None =>
       j \in Jobs /\ Reached(j) /\ (Kept(j) => Earned(results[j]))

Attempting ==
  {"probe", "serve", "load", "generate", "health", "unload", "unwind", "evidence", "save"}

ControllerInv ==
  /\ spec \in Specs /\ job \in Jobs /\ stage \in Workers
  /\ invocation \in 0..MaxInvocations /\ faults \in 0..MaxFaults
  /\ ~AtRest => Reached(job) /\ invocation # 0
  /\ pc \in Attempting => results[job] = None
  /\ pc \in {"next", "executed"} => Kept(job)
  /\ pc = "executed" => \A j \in AllJobs : j > job => results[j] = None

Attempts ==
  [status : {"unknown", "measured", "memory-excluded", "correctness-failed"},
   interrupted : BOOLEAN, cleanup : BOOLEAN, health : {None, TRUE},
   samples : Seq([exact : BOOLEAN, ms : Latencies]),
   exclusion : {None} \cup [probe : Probes, available : {150, 90, None}],
   owned : BOOLEAN, clean : BOOLEAN, frozen : BOOLEAN]

\* The attempt under way: a measurement is only claimed by one that was clean.
AttemptInv ==
  /\ att \in Attempts /\ att.owned
  /\ pc \in {"probe", "serve", "load", "generate", "health", "unload"} =>
       att.clean /\ att.status # "measured"
  /\ att.status = "measured" => att.clean
  /\ Len(att.samples) <= Warmups + 1
  /\ pc \in {"probe", "serve", "load", "generate"} => Len(att.samples) <= Warmups

WorkerInv ==
  /\ workers \in [Workers -> {"none", "owned", "lingering"}]
  /\ pc \notin {"serve", "load", "generate", "health", "unload", "unwind"} =>
       \A w \in Workers : workers[w] # "owned"

Verdicts == {"incomplete", "unstable", "inconclusive", "pass", "fail"}

DecisionInv ==
  /\ decision \in {None} \cup Verdicts
  /\ pc = "returned" => \E k \in {0} \cup AllJobs : Saved = 1..k /\ decision = summarize(1..k)
  /\ decision = "pass" => \E k \in Jobs : Saved = 1..k /\ Final(k) /\ summarize(1..k) = "pass"

-----------------------------------------------------------------------------
(* The schedule *)

\* Multiplication by a positive number is monotonic.
LEMMA Monotonic ==
  ASSUME NEW n \in Nat \ {0}, NEW a \in Int, NEW b \in Int, a <= b
  PROVE  n * a <= n * b
OBVIOUS

\* Quotient and remainder by a positive number.
LEMMA Division ==
  ASSUME NEW n \in Nat \ {0}, NEW a \in Nat
  PROVE  a \div n \in Nat /\ a % n \in 0..(n - 1) /\ a = n * (a \div n) + (a % n)
OBVIOUS

\* A round has one job per candidate and the two jobs around them.
LEMMA RoundSize ==
  JobsPerRound \in Nat \ {0} /\ JobsPerRound >= 2 /\ Cardinality(Candidates) \in Nat
  /\ Cardinality(Candidates) = JobsPerRound - 2
<1>1. Cardinality(Candidates) \in Nat
  BY SweepAssumption, FS_CardinalityType
<1> QED BY <1>1 DEF JobsPerRound

\* A job is given by its round and its slot.
LEMMA RoundAndSlot ==
  ASSUME NEW j \in Nat \ {0}
  PROVE  /\ Round(j) \in Nat \ {0} /\ Slot(j) \in 1..JobsPerRound
         /\ j = JobsPerRound * (Round(j) - 1) + Slot(j)
<1>1. j - 1 \in Nat
  OBVIOUS
<1> DEFINE n == JobsPerRound
           a == j - 1
<1>2. n \in Nat \ {0}
  BY RoundSize
<1> HIDE DEF n
<1>3. a \div n \in Nat /\ a % n \in 0..(n - 1) /\ a = n * (a \div n) + (a % n)
  BY <1>1, <1>2, Division
<1>4. Round(j) = 1 + a \div n /\ Slot(j) = 1 + (a % n)
  BY DEF Round, Slot, n
<1>5. Round(j) - 1 = a \div n
  BY <1>3, <1>4
<1>6. j = n * (Round(j) - 1) + Slot(j)
  BY <1>2, <1>3, <1>4, <1>5
<1>7. Slot(j) \in 1..n /\ Round(j) \in Nat \ {0}
  BY <1>2, <1>3, <1>4
<1> QED BY <1>6, <1>7 DEF n

\* The last job of round q.
LEMMA RoundEnd ==
  ASSUME NEW q \in Nat \ {0}, NEW j \in Nat, j = JobsPerRound * q
  PROVE  Slot(j) = JobsPerRound /\ Round(j) = q
<1> DEFINE n == JobsPerRound
           r == Round(j) - 1
           s == Slot(j)
<1>0. n \in Nat \ {0} /\ j = n * q
  BY RoundSize
<1>1. j \in Nat \ {0}
  <2>1. n * 1 <= n * q
    BY <1>0, Monotonic
  <2> QED BY <1>0, <2>1
<1>2. r \in Nat /\ s \in 1..n /\ j = n * r + s
  BY <1>1, RoundAndSlot
<1> HIDE DEF n, r, s
<1>3. ASSUME r <= q - 2 PROVE FALSE
  <2>1. n * r <= n * (q - 2)
    BY <1>0, <1>2, <1>3, Monotonic
  <2>2. n * (q - 2) = n * q - 2 * n
    BY <1>0
  <2> QED BY <1>0, <1>2, <2>1, <2>2
<1>4. ASSUME r >= q PROVE FALSE
  <2>1. n * q <= n * r
    BY <1>0, <1>2, <1>4, Monotonic
  <2> QED BY <1>0, <1>2, <2>1
<1>5. r = q - 1
  <2>1. r \in Int /\ q \in Int /\ ~(r <= q - 2) /\ ~(r >= q)
    BY <1>2, <1>3, <1>4
  <2> QED BY <2>1
<1>6. n * (q - 1) = n * q - n
  BY <1>0
<1>7. s = n
  BY <1>0, <1>2, <1>5, <1>6
<1>8. Round(j) = r + 1
  BY <1>1, RoundAndSlot DEF r
<1> QED BY <1>5, <1>7, <1>8 DEF n, s

\* There is a job after one that does not end the last round.
LEMMA JobFits ==
  ASSUME NEW m \in Nat, NEW j \in 1..(JobsPerRound * m),
         Slot(j) < JobsPerRound \/ Round(j) # m
  PROVE  j + 1 \in 1..(JobsPerRound * m) /\ Round(j) <= m
<1> DEFINE n == JobsPerRound
           r == Round(j)
           s == Slot(j)
<1>0. n \in Nat \ {0} /\ n * m \in Nat
  BY RoundSize
<1>1. j \in Nat \ {0} /\ j <= n * m /\ (s < n \/ r # m)
  BY <1>0
<1>2. r \in Nat \ {0} /\ s \in 1..n /\ j = n * (r - 1) + s
  BY <1>1, RoundAndSlot
<1> HIDE DEF n, r, s
<1>3. r <= m
  <2> SUFFICES ASSUME r - 1 >= m PROVE FALSE
    BY <1>2
  <2>1. n * m <= n * (r - 1)
    BY <1>0, <1>2, Monotonic
  <2> QED BY <1>0, <1>1, <1>2, <2>1
<1>4. n * (r - 1) = n * r - n
  BY <1>0, <1>2
<1>5. CASE s < n
  <2>1. n * r <= n * m
    BY <1>0, <1>2, <1>3, Monotonic
  <2> QED BY <1>0, <1>1, <1>2, <1>3, <1>4, <1>5, <2>1 DEF n, r
<1>6. CASE r # m
  <2>1. n * r <= n * (m - 1)
    BY <1>0, <1>2, <1>3, <1>6, Monotonic
  <2>2. n * (m - 1) = n * m - n
    BY <1>0
  <2> QED BY <1>0, <1>1, <1>2, <1>3, <1>4, <2>1, <2>2 DEF n, r
<1> QED BY <1>1, <1>5, <1>6

\* What the assumption says of the frozen sweep.
LEMMA SpecFacts ==
  ASSUME spec \in Specs
  PROVE  /\ spec.repetitions \in Nat \ {0} /\ spec.maximum \in Nat \ {0}
         /\ spec.maximum >= spec.repetitions
         /\ Jobs \subseteq AllJobs /\ 1 \in Jobs /\ Jobs \subseteq Nat \ {0}
         /\ \A j \in Jobs : 1..j \subseteq Jobs
<1>1. /\ spec.repetitions \in Nat \ {0} /\ spec.maximum \in Nat \ {0}
      /\ spec.maximum >= spec.repetitions /\ spec.maximum <= MaxRounds /\ MaxRounds \in Nat
  <2>1. /\ spec.repetitions \in Nat \ {0} /\ spec.maximum \in Nat
        /\ spec.maximum >= spec.repetitions /\ spec.maximum <= MaxRounds /\ MaxRounds \in Nat
    BY SweepAssumption, Zenon
  <2> QED BY <2>1
<1> DEFINE n == JobsPerRound
           m == spec.maximum
<1>2. n \in Nat \ {0} /\ m \in Nat \ {0} /\ m <= MaxRounds
  BY RoundSize, <1>1
<1>a. Jobs = 1..(n * m) /\ AllJobs = 1..(n * MaxRounds)
  BY DEF Jobs, AllJobs
<1> HIDE DEF n, m
<1>3. n * m \in Nat /\ n * MaxRounds \in Nat /\ n * m <= n * MaxRounds /\ n * 1 <= n * m
  BY <1>1, <1>2, Monotonic
<1> QED BY <1>1, <1>2, <1>3, <1>a

-----------------------------------------------------------------------------
(* Summaries *)

\* Only results that do not validate are refused, and the verdict is one of five.
LEMMA SummaryIsVerdict ==
  ASSUME NEW js, \A j \in js : validate_result(results[j])
  PROVE  summarize(js) \in Verdicts /\ summarize(js) = Judged(js)
BY DEF summarize, Judged, Verdicts

\* A summary is a function of the results it is about.
LEMMA SummaryFrame ==
  ASSUME NEW js, spec' = spec, \A j \in js : results'[j] = results[j]
  PROVE  summarize(js)' = summarize(js)
<1>1. Complete(js)' <=> Complete(js)
  <2>1. ASSUME NEW c
        PROVE  (\A j \in {j \in js : ~IsReference(j) /\ CandidateOf(j) = c} :
                  results'[j].status = "measured") <=>
               (\A j \in {j \in js : ~IsReference(j) /\ CandidateOf(j) = c} :
                  results[j].status = "measured")
    OBVIOUS
  <2>2. ASSUME NEW c
        PROVE  (\A j \in {j \in js : ~IsReference(j) /\ CandidateOf(j) = c} :
                  results'[j].status = "memory-excluded") <=>
               (\A j \in {j \in js : ~IsReference(j) /\ CandidateOf(j) = c} :
                  results[j].status = "memory-excluded")
    OBVIOUS
  <2> QED BY <2>1, <2>2 DEF Complete
<1>2. \A j \in js : Generation(j)' = Generation(j)
  BY DEF Generation
<1>3. References(js)' = References(js) /\ References(js) \subseteq js
  BY DEF References
<1>4. Stable(js)' <=> Stable(js)
  BY <1>2, <1>3 DEF Stable
<1>5. Health(js)' <=> Health(js)
  BY <1>3 DEF Health
<1>6. \A c : Measured(js, c)' = Measured(js, c) /\ Measured(js, c) \subseteq js
  BY DEF Measured
<1>7. \A i, j \in js : AcceptableRegret(i, j)' <=> AcceptableRegret(i, j)
  BY <1>2 DEF AcceptableRegret
<1>8. /\ AllWithin(js)' <=> AllWithin(js)
      /\ AllBeyond(js)' <=> AllBeyond(js)
  <2>1. AllWithin(js)' <=> AllWithin(js)
    BY <1>6, <1>7 DEF AllWithin
  <2>2. AllBeyond(js)' <=> AllBeyond(js)
    BY <1>6, <1>7 DEF AllBeyond
  <2> QED BY <2>1, <2>2
<1>9. Regret(js)' = Regret(js)
  <2>1. ASSUME NEW c \in Candidates
        PROVE  [j \in Measured(js, c)' |-> Generation(j)'] = [j \in Measured(js, c) |-> Generation(j)]
    BY <1>2, <1>6
  <2>2. Samples(js)' = Samples(js)
    BY <2>1 DEF Samples
  <2>3. Resampled(spec.seed, Samples(js))' = Resampled(spec.seed, Samples(js))
    BY <2>2
  <2> QED BY <1>8, <2>3 DEF Regret
<1>10. (\E j \in js : ~validate_result(results'[j])) <=> (\E j \in js : ~validate_result(results[j]))
  OBVIOUS
<1>11. Judged(js)' = Judged(js)
  BY <1>1, <1>4, <1>5, <1>6, <1>9 DEF Judged
<1> QED BY <1>10, <1>11 DEF summarize

\* A sweep that passes has come to the end of a round and needs no more.
LEMMA PassIsFinal ==
  ASSUME spec \in Specs, NEW k \in Nat, summarize(1..k) = "pass"
  PROVE  /\ k > 0 /\ Final(k) /\ Round(k) >= spec.repetitions
         /\ k >= JobsPerRound * spec.repetitions /\ k % JobsPerRound = 0
<1> DEFINE n == JobsPerRound
           p == spec.repetitions
           q == k \div n
<1>1. n \in Nat \ {0} /\ p \in Nat \ {0} /\ q \in Nat /\ n * p \in Nat /\ n * q \in Nat
  <2>1. n \in Nat \ {0} /\ p \in Nat \ {0}
    BY RoundSize, SpecFacts
  <2> HIDE DEF n, p
  <2>2. q \in Nat
    BY <2>1, Division
  <2> HIDE DEF q
  <2> QED BY <2>1, <2>2
<1>2. Complete(1..k)
  BY DEF summarize, Judged
<1>3. Cardinality(1..k) = k
  <2>1. Cardinality(1..k) = IF 1 > k THEN 0 ELSE k - 1 + 1
    BY FS_Interval
  <2> QED BY <2>1
<1>4. 1..k = 1..(n * q) /\ k >= n * p
  BY <1>2, <1>3 DEF Complete
<1> HIDE DEF n, p, q
<1>5. n * 1 <= n * p
  BY <1>1, Monotonic
<1>6. k > 0
  BY <1>1, <1>4, <1>5
<1>7. k = n * q
  <2>0. k \in 1..k
    BY <1>6
  <2>1. k \in 1..(n * q)
    BY <1>4, <2>0, Zenon
  <2>2. n * q \in 1..(n * q)
    BY <1>1, <1>6, <2>1
  <2>3. n * q \in 1..k
    BY <1>4, <2>2, Zenon
  <2> QED BY <1>1, <2>1, <2>3
<1>8. q >= p
  <2> SUFFICES ASSUME q <= p - 1 PROVE FALSE
    BY <1>1
  <2>1. n * q <= n * (p - 1) /\ n * (p - 1) = n * p - n
    BY <1>1, Monotonic
  <2> QED BY <1>1, <1>4, <1>7, <2>1
<1>9. Slot(k) = JobsPerRound /\ Round(k) = q
  BY <1>1, <1>7, <1>8, RoundEnd DEF n
<1>10. k = JobsPerRound * (k \div JobsPerRound) + (k % JobsPerRound) /\ k % JobsPerRound \in Nat
  BY RoundSize, Division
<1>11. k % JobsPerRound = 0
  <2>1. k = n * q + (k % JobsPerRound)
    BY <1>10 DEF n, q
  <2> QED BY <1>1, <1>7, <1>10, <2>1
<1> QED
  BY <1>4, <1>6, <1>8, <1>9, <1>11 DEF Final, n, p

\* What is known of a job holds as long as the results up to it stay.
LEMMA JobFrame ==
  ASSUME spec' = spec, NEW j \in Nat, \A i \in 1..j : results'[i] = results[i]
  PROVE  (Final(j)' <=> Final(j)) /\ (j > 0 => (Kept(j)' <=> Kept(j)))
<1>1. summarize(1..j)' = summarize(1..j)
  BY SummaryFrame
<1> QED BY <1>1 DEF Final, Kept, Torn

\* A job that was reached stays reached as long as the results before it stay.
LEMMA ReachedFrame ==
  ASSUME spec' = spec, NEW j \in Nat, \A i \in 1..(j - 1) : results'[i] = results[i]
  PROVE  Reached(j)' <=> Reached(j)
<1>1. ASSUME NEW i \in 1..(j - 1)
      PROVE  (Final(i)' <=> Final(i)) /\ (Kept(i)' <=> Kept(i))
  <2>1. i \in Nat /\ i > 0 /\ \A l \in 1..i : results'[l] = results[l]
    OBVIOUS
  <2> QED BY <2>1, JobFrame
<1> QED BY <1>1 DEF Reached

\* Nothing behind a job without a result, or behind the last one, has a result.
LEMMA NothingBehind ==
  ASSUME DiskInv, NEW j \in AllJobs, ~Kept(j) \/ Final(j), NEW l \in AllJobs, l > j
  PROVE  results[l] = None
<1> SUFFICES ASSUME results[l] # None PROVE FALSE
  OBVIOUS
<1>1. Reached(l)
  BY DEF DiskInv
<1>2. j \in 1..(l - 1)
  BY DEF AllJobs
<1> QED BY <1>1, <1>2 DEF Reached

\* The results are those of the first jobs.
LEMMA SavedPrefix ==
  ASSUME DiskInv, spec \in Specs, NEW k \in Nat, \A i \in 1..k : i \in AllJobs /\ Kept(i),
         \A l \in AllJobs : l > k => results[l] = None
  PROVE  /\ Saved = 1..k /\ \A j \in 1..k : validate_result(results[j])
<1>1. ASSUME NEW j \in AllJobs, results[j] # None PROVE j \in 1..k
  BY <1>1 DEF AllJobs
<1>2. \A i \in 1..k : i \in AllJobs /\ results[i] # None
  BY DEF Kept
<1>3. Saved = 1..k
  BY <1>1, <1>2 DEF Saved
<1> QED BY <1>2, <1>3 DEF DiskInv, Earned

-----------------------------------------------------------------------------
(* Steps that leave the results alone *)

\* Nothing is written.
LEMMA DiskFrame ==
  ASSUME DiskInv, spec \in Specs, results' = results, spec' = spec, DOMAIN evidence' = AllJobs
  PROVE  /\ DiskInv' /\ Saved' = Saved
         /\ \A j \in Nat : /\ (Final(j)' <=> Final(j)) /\ (Reached(j)' <=> Reached(j))
                           /\ j > 0 => (Kept(j)' <=> Kept(j))
                           /\ summarize(1..j)' = summarize(1..j)
<1>1. ASSUME NEW j \in Nat
      PROVE  /\ (Final(j)' <=> Final(j)) /\ (Reached(j)' <=> Reached(j))
             /\ j > 0 => (Kept(j)' <=> Kept(j))
             /\ summarize(1..j)' = summarize(1..j)
  <2>1. \A i \in 1..j : results'[i] = results[i]
    OBVIOUS
  <2> QED BY <2>1, JobFrame, ReachedFrame, SummaryFrame
<1>2. Saved' = Saved
  BY DEF Saved
<1>3. ASSUME NEW j \in AllJobs, results'[j] # None
      PROVE  (j \in Jobs /\ Reached(j) /\ (Kept(j) => Earned(results[j])))'
  <2>1. j \in Nat /\ j > 0
    BY DEF AllJobs
  <2>2. Jobs' = Jobs
    BY DEF Jobs
  <2>3. j \in Jobs /\ Reached(j) /\ (Kept(j) => Earned(results[j]))
    BY <1>3 DEF DiskInv
  <2> QED BY <1>1, <2>1, <2>2, <2>3 DEF Earned
<1>4. DiskInv'
  BY <1>3 DEF DiskInv
<1> QED BY <1>1, <1>2, <1>4

\* A verdict stands as long as the results do.
LEMMA DecisionFrame ==
  ASSUME DiskInv, spec \in Specs, DecisionInv, UNCHANGED <<spec, results, decision>>,
         DOMAIN evidence' = AllJobs, pc' = "returned" => pc = "returned"
  PROVE  DecisionInv'
<1>1. Saved' = Saved /\ Jobs' = Jobs /\ Jobs \subseteq AllJobs
  BY DiskFrame, SpecFacts DEF Jobs
<1>2. ASSUME NEW k \in {0} \cup AllJobs
      PROVE  (summarize(1..k)' = summarize(1..k)) /\ (Final(k)' <=> Final(k))
  <2>1. k \in Nat
    BY DEF AllJobs
  <2> QED BY <2>1, DiskFrame
<1>3. ASSUME pc' = "returned"
      PROVE  \E k \in {0} \cup AllJobs : Saved' = 1..k /\ decision' = summarize(1..k)'
  BY <1>1, <1>2, <1>3 DEF DecisionInv
<1>4. ASSUME decision' = "pass"
      PROVE  \E k \in Jobs' : Saved' = 1..k /\ Final(k)' /\ summarize(1..k)' = "pass"
  BY <1>1, <1>2, <1>4 DEF DecisionInv
<1> QED BY <1>3, <1>4 DEF DecisionInv

\* A summary of everything that was saved is a decision of all results.
LEMMA NewDecision ==
  ASSUME DiskInv, spec \in Specs, NEW k \in Nat, k = 0 \/ k \in Jobs,
         Saved = 1..k, \A j \in 1..k : validate_result(results[j]),
         UNCHANGED <<spec, results>>, DOMAIN evidence' = AllJobs, decision' = summarize(1..k)
  PROVE  DecisionInv'
<1>1. Saved' = Saved /\ Jobs' = Jobs /\ Jobs \subseteq AllJobs
  BY DiskFrame, SpecFacts DEF Jobs
<1>2. (summarize(1..k)' = summarize(1..k)) /\ (Final(k)' <=> Final(k))
  BY DiskFrame
<1>3. decision' \in Verdicts
  BY SummaryIsVerdict
<1>4. k \in {0} \cup AllJobs /\ Saved' = 1..k /\ decision' = summarize(1..k)'
  BY <1>1, <1>2
<1>5. ASSUME decision' = "pass"
      PROVE  \E l \in Jobs' : Saved' = 1..l /\ Final(l)' /\ summarize(1..l)' = "pass"
  <2>1. k > 0 /\ Final(k)
    BY <1>5, PassIsFinal
  <2> QED BY <1>1, <1>2, <1>4, <1>5, <2>1
<1> QED BY <1>3, <1>4, <1>5 DEF DecisionInv

\* The controller moves inside a job, or its run ends without a summary.
LEMMA QuietStep ==
  ASSUME DiskInv, ControllerInv, DecisionInv,
         UNCHANGED <<spec, results, decision, job, invocation>>, DOMAIN evidence' = AllJobs,
         stage' \in Workers, faults' \in 0..MaxFaults,
         pc' \in Attempting => results[job] = None,
         pc' = "next" => Kept(job), pc' = "executed" => pc = "executed",
         pc' = "returned" => pc = "returned", AtRest => AtRest'
  PROVE  DiskInv' /\ ControllerInv' /\ DecisionInv'
<1>1. spec \in Specs /\ job \in Jobs
  BY DEF ControllerInv
<1>2. job \in Nat /\ job > 0 /\ job \in AllJobs /\ Jobs' = Jobs
  BY <1>1, SpecFacts DEF Jobs
<1>3. /\ DiskInv' /\ Saved' = Saved /\ (Kept(job)' <=> Kept(job))
      /\ (Reached(job)' <=> Reached(job))
  <2>1. /\ DiskInv' /\ Saved' = Saved
        /\ \A j \in Nat : /\ Reached(j)' <=> Reached(j)
                          /\ j > 0 => (Kept(j)' <=> Kept(j))
    BY <1>1, DiskFrame
  <2>2. Kept(job)' <=> Kept(job)
    BY DEF Kept, Torn
  <2>3. Reached(job)' <=> Reached(job)
    <3>1. PICK j \in Nat : j = job
      BY <1>2
    <3>2. (Reached(job)' <=> Reached(j)') /\ (Reached(job) <=> Reached(j))
      BY <3>1 DEF Reached
    <3> QED BY <2>1, <3>2
  <2> QED BY <2>1, <2>2, <2>3
<1>4. ControllerInv'
  <2>1. pc' \in {"next", "executed"} => Kept(job)'
    BY <1>3 DEF ControllerInv
  <2>2. pc' = "executed" => \A j \in AllJobs : j > job' => results'[j] = None
    BY DEF ControllerInv
  <2>3. ~AtRest' => Reached(job)' /\ invocation' # 0
    BY <1>3 DEF ControllerInv
  <2> QED BY <1>1, <1>2, <2>1, <2>2, <2>3 DEF ControllerInv
<1>5. DecisionInv'
  BY <1>1, DecisionFrame
<1> QED BY <1>3, <1>4, <1>5

-----------------------------------------------------------------------------
(* The loop over the jobs *)

Core == DiskInv /\ ControllerInv /\ DecisionInv

\* The current job is one of the schedule.
LEMMA JobFacts ==
  ASSUME Core
  PROVE  /\ spec \in Specs /\ job \in Jobs /\ job \in AllJobs /\ job \in Nat /\ job > 0
         /\ DOMAIN evidence = AllJobs /\ stage \in Workers /\ faults \in 0..MaxFaults
         /\ \A i \in 1..job : i \in AllJobs
BY SpecFacts DEF Core, ControllerInv, DiskInv

\* A first or a further invocation.
LEMMA InvokeStep ==
  ASSUME Core, Invoke
  PROVE  Core'
<1>1. /\ job' = 1 /\ pc' = "job" /\ invocation' = invocation + 1 /\ invocation < MaxInvocations
      /\ UNCHANGED <<spec, results, evidence, decision, stage, faults>>
  BY DEF Invoke
<1>2. DiskInv' /\ DecisionInv' /\ Jobs' = Jobs
  BY <1>1, JobFacts, DiskFrame, DecisionFrame DEF Core, Jobs
<1>3. Reached(job)'
  BY <1>1 DEF Reached
<1>4. invocation' \in 0..MaxInvocations /\ invocation' # 0
  <2>1. MaxInvocations \in Nat /\ invocation \in 0..MaxInvocations
    BY SweepAssumption DEF Core, ControllerInv
  <2> QED BY <1>1, <2>1
<1>5. ControllerInv'
  BY <1>1, <1>2, <1>3, <1>4, JobFacts, SpecFacts DEF ControllerInv, Attempting
<1> QED BY <1>2, <1>5 DEF Core

\* An invocation stops at its job limit.
LEMMA PauseStep ==
  ASSUME Core, Pause
  PROVE  Core'
<1>1. /\ pc = "job" /\ results[job] = None /\ decision' = summarize(Before(job))
      /\ pc' = "returned" /\ UNCHANGED <<spec, results, evidence, job, invocation, stage, faults>>
  BY DEF Pause, Exit
<1>2. PICK k \in Nat : k = job - 1
  BY JobFacts
<1>3. decision' = summarize(1..k)
  BY <1>1, <1>2 DEF Before
<1>4. Reached(job)
  BY <1>1 DEF Core, ControllerInv, AtRest
<1>5. \A i \in 1..k : i \in AllJobs /\ Kept(i)
  BY <1>2, <1>4, JobFacts DEF Reached
<1>6. \A l \in AllJobs : l > k => results[l] = None
  <2> SUFFICES ASSUME NEW l \in AllJobs, l > k PROVE results[l] = None
    OBVIOUS
  <2>1. l = job \/ l > job
    BY <1>2, JobFacts DEF AllJobs
  <2>2. ~Kept(job)
    BY <1>1 DEF Kept
  <2> QED BY <1>1, <2>1, <2>2, JobFacts, NothingBehind DEF Core
<1>7. k = 0 \/ k \in Jobs
  <2>1. k = 0 \/ k \in 1..job
    BY <1>2, JobFacts
  <2> QED BY <2>1, JobFacts, SpecFacts
<1>8. DecisionInv'
  BY <1>1, <1>3, <1>5, <1>6, <1>7, JobFacts, SavedPrefix, NewDecision DEF Core
<1>9. DiskInv' /\ Jobs' = Jobs
  BY <1>1, JobFacts, DiskFrame DEF Core, Jobs
<1>10. ControllerInv'
  BY <1>1, <1>9 DEF Core, ControllerInv, Attempting, AtRest
<1> QED BY <1>8, <1>9, <1>10 DEF Core

\* The jobs up to one that was read or executed.
LEMMA DoneFacts ==
  ASSUME Core, pc \in {"next", "executed"}
  PROVE  /\ Reached(job) /\ \A i \in 1..job : i \in AllJobs /\ Kept(i)
         /\ \A i \in 1..job : validate_result(results[i])
<1>1. Reached(job) /\ Kept(job)
  BY DEF Core, ControllerInv, AtRest
<1>2. ASSUME NEW i \in 1..job PROVE i \in AllJobs /\ Kept(i)
  <2>1. i = job \/ i \in 1..(job - 1)
    BY JobFacts
  <2> QED BY <1>1, <2>1, JobFacts DEF Reached
<1>3. ASSUME NEW i \in 1..job PROVE validate_result(results[i])
  BY <1>2 DEF Core, DiskInv, Kept, Earned
<1> QED BY <1>1, <1>2, <1>3

\* The invocation returns behind the job with the summary of all results.
LEMMA ReturnStep ==
  ASSUME Core, pc \in {"next", "executed"}, pc' = "returned", decision' = summarize(1..job),
         UNCHANGED <<spec, results, evidence, job, invocation, stage, faults>>,
         \A l \in AllJobs : l > job => results[l] = None
  PROVE  Core'
<1>1. PICK k \in Nat : k = job
  BY JobFacts
<1>2. DecisionInv'
  <2>1. \A i \in 1..k : i \in AllJobs /\ Kept(i)
    BY <1>1, DoneFacts
  <2>2. Saved = 1..k /\ \A j \in 1..k : validate_result(results[j])
    BY <1>1, <2>1, JobFacts, SavedPrefix DEF Core
  <2> QED BY <1>1, <2>2, JobFacts, NewDecision DEF Core
<1>3. DiskInv' /\ Jobs' = Jobs
  BY JobFacts, DiskFrame DEF Core, Jobs
<1>4. ControllerInv'
  BY <1>3 DEF Core, ControllerInv, Attempting, AtRest
<1> QED BY <1>2, <1>3, <1>4 DEF Core

\* The loop goes on to the next job.
LEMMA AdvanceStep ==
  ASSUME Core, pc \in {"next", "executed"}, ~Final(job), job + 1 \in Jobs,
         job' = job + 1, pc' = "job", UNCHANGED <<spec, results, evidence, invocation, stage, faults>>
  PROVE  DiskInv' /\ ControllerInv'
<1>1. DiskInv' /\ Jobs' = Jobs
  BY JobFacts, DiskFrame DEF Core, Jobs
<1>2. PICK j \in Nat : j = job + 1
  BY JobFacts
<1>3. Reached(j)
  <2> SUFFICES ASSUME NEW i \in 1..(j - 1) PROVE Kept(i) /\ ~Final(i)
    BY DEF Reached
  <2>1. i \in 1..job /\ (i = job \/ i \in 1..(job - 1))
    BY <1>2, JobFacts
  <2> QED BY <2>1, DoneFacts DEF Reached
<1>4. Reached(j)'
  BY <1>3, JobFacts, DiskFrame DEF Core
<1>5. Reached(job)'
  BY <1>2, <1>4 DEF Reached
<1>6. ControllerInv'
  BY <1>1, <1>5, SpecFacts DEF Core, ControllerInv, Attempting, AtRest
<1> QED BY <1>1, <1>6

\* The job after one that has its result and was not the last.
LEMMA NextJobStep ==
  ASSUME Core, NextJob
  PROVE  Core'
<1>1. /\ pc \in {"next", "executed"} /\ UNCHANGED <<spec, results, evidence, invocation, stage, faults>>
  BY DEF NextJob
<1>2. JobsPerRound \in Nat \ {0} /\ spec.maximum \in Nat /\ job \in 1..(JobsPerRound * spec.maximum)
  BY RoundSize, SpecFacts, JobFacts DEF Jobs
<1>3. Slot(job) \in 1..JobsPerRound /\ Round(job) \in Nat
  BY JobFacts, RoundAndSlot
<1>4. CASE pc = "executed" /\ att.interrupted
  <2>1. decision' = summarize(1..job) /\ pc' = "returned" /\ job' = job
    BY <1>4 DEF NextJob, Exit
  <2>2. \A l \in AllJobs : l > job => results[l] = None
    BY <1>4 DEF Core, ControllerInv
  <2> QED BY <1>1, <2>1, <2>2, ReturnStep
<1>5. CASE ~(pc = "executed" /\ att.interrupted) /\ Slot(job) < JobsPerRound
  <2>1. pc' = "job" /\ job' = job + 1 /\ decision' = decision
    BY <1>5 DEF NextJob
  <2>2. job + 1 \in Jobs
    BY <1>2, <1>5, JobFits DEF Jobs
  <2>3. ~Final(job)
    BY <1>2, <1>3, <1>5 DEF Final
  <2>4. DecisionInv'
    BY <1>1, <2>1, JobFacts, DecisionFrame DEF Core
  <2> QED BY <1>1, <2>1, <2>2, <2>3, <2>4, AdvanceStep DEF Core
<1>6. CASE ~(pc = "executed" /\ att.interrupted) /\ ~(Slot(job) < JobsPerRound)
  <2>1. Slot(job) = JobsPerRound /\ decision' = summarize(1..job)
    <3>1. decision' = summarize(1..job)
      BY <1>6 DEF NextJob
    <3> QED BY <1>2, <1>3, <1>6, <3>1
  <2>2. Final(job) <=> \/ Round(job) >= spec.repetitions /\ decision' # "inconclusive"
                       \/ Round(job) = spec.maximum
    BY <2>1 DEF Final
  <2>3. CASE Final(job)
    <3>1. pc' = "returned" /\ job' = job
      BY <1>6, <2>2, <2>3 DEF NextJob, Exit
    <3>2. \A l \in AllJobs : l > job => results[l] = None
      BY <2>3, JobFacts, NothingBehind DEF Core
    <3> QED BY <1>1, <2>1, <3>1, <3>2, ReturnStep
  <2>4. CASE ~Final(job)
    <3>1. pc' = "job" /\ job' = job + 1
      BY <1>6, <2>2, <2>4 DEF NextJob
    <3>2. job + 1 \in Jobs
      <4>1. Round(job) # spec.maximum
        BY <2>2, <2>4
      <4> QED BY <1>2, <4>1, JobFits DEF Jobs
    <3>3. decision' \in Verdicts /\ decision' # "pass"
      <4>1. decision' \in Verdicts
        BY <1>1, <2>1, DoneFacts, SummaryIsVerdict
      <4>2. PICK k \in Nat : k = job
        BY JobFacts
      <4>3. summarize(1..k) # "pass"
        BY <2>4, <4>2, JobFacts, PassIsFinal
      <4> QED BY <2>1, <4>1, <4>2, <4>3
    <3>4. DecisionInv'
      BY <3>1, <3>3 DEF DecisionInv
    <3> QED BY <1>1, <2>4, <3>1, <3>2, <3>4, AdvanceStep DEF Core
  <2> QED BY <2>3, <2>4
<1> QED BY <1>4, <1>5, <1>6

-----------------------------------------------------------------------------
(* result.json is written, to its end or torn *)

\* A result is written where there was none.
LEMMA WriteStep ==
  ASSUME Core, pc = "save", NEW r \in Results, results' = [results EXCEPT ![job] = r],
         UNCHANGED <<spec, evidence, decision, job, invocation, stage>>, faults' \in 0..MaxFaults,
         pc' \in {"executed", "killed"}, pc' = "executed" => r.status # "torn",
         r.status # "torn" => Earned(r)
  PROVE  Core'
<1>1. Reached(job) /\ results[job] = None /\ r # None
  BY SweepAssumption DEF Core, ControllerInv, AtRest, Attempting
<1>2. PICK k \in Nat : k = job /\ k > 0 /\ k \in AllJobs /\ k \in Jobs
  BY JobFacts
<1>3. /\ results \in [AllJobs -> Results \cup {None}] /\ results'[k] = r
      /\ \A j \in AllJobs : j # k => results'[j] = results[j]
  BY <1>2 DEF Core, DiskInv
<1>4. ~Kept(k) /\ Jobs' = Jobs
  BY <1>1, <1>2 DEF Kept, Jobs
<1>5. \A j \in AllJobs : j > k => results[j] = None
  BY <1>2, <1>4, NothingBehind DEF Core
<1>6. ASSUME NEW j \in Nat, j <= k, j \in AllJobs
      PROVE  Reached(j)' <=> Reached(j)
  <2>1. \A i \in 1..(j - 1) : results'[i] = results[i]
    BY <1>2, <1>3, <1>6 DEF AllJobs
  <2> QED BY <2>1, ReachedFrame
<1>7. DiskInv'
  <2>1. results' \in [AllJobs -> Results \cup {None}] /\ DOMAIN evidence' = AllJobs
    BY <1>3, JobFacts DEF Core, DiskInv
  <2>2. ASSUME NEW j \in AllJobs, results'[j] # None
        PROVE  (j \in Jobs /\ Reached(j) /\ (Kept(j) => Earned(results[j])))'
    <3>1. j \in Nat /\ j > 0
      BY DEF AllJobs
    <3>2. CASE j = k
      <4>1. Reached(j)'
        BY <1>1, <1>2, <1>6, <3>1, <3>2
      <4>2. Kept(j)' => Earned(results'[j])
        BY <1>3, <3>2 DEF Kept, Torn
      <4> QED BY <1>2, <1>4, <3>2, <4>1, <4>2 DEF Earned
    <3>3. CASE j # k
      <4>1. results[j] # None /\ results'[j] = results[j]
        BY <1>3, <2>2, <3>3
      <4>2. j <= k
        BY <1>2, <1>5, <3>1, <4>1
      <4>3. j \in Jobs /\ Reached(j) /\ (Kept(j) => Earned(results[j]))
        BY <4>1 DEF Core, DiskInv
      <4>4. Kept(j)' <=> Kept(j)
        BY <4>1 DEF Kept, Torn
      <4> QED BY <1>4, <1>6, <3>1, <4>1, <4>2, <4>3, <4>4 DEF Earned
    <3> QED BY <3>2, <3>3
  <2> QED BY <2>1, <2>2 DEF DiskInv
<1>8. ControllerInv'
  <2>1. Reached(job)'
    <3>1. Reached(k)'
      BY <1>1, <1>2, <1>6
    <3> QED BY <1>2, <3>1 DEF Reached
  <2>2. pc' = "executed" => Kept(job)'
    BY <1>1, <1>2, <1>3 DEF Kept, Torn
  <2>3. pc' = "executed" => \A j \in AllJobs : j > job' => results'[j] = None
    BY <1>2, <1>3, <1>5
  <2>4. invocation # 0
    BY DEF Core, ControllerInv, AtRest
  <2> QED BY <1>4, <2>1, <2>2, <2>3, <2>4 DEF Core, ControllerInv, Attempting, AtRest
<1>9. DecisionInv'
  <2>1. decision # "pass"
    <3> SUFFICES ASSUME NEW l \in Jobs, Saved = 1..l, Final(l) PROVE FALSE
      BY DEF Core, DecisionInv
    <3>1. k \notin 1..l /\ l \in Nat /\ l > 0
      BY <1>1, <1>2, JobFacts, SpecFacts DEF Saved
    <3>2. l \in 1..(job - 1)
      BY <1>2, <3>1
    <3> QED BY <1>1, <3>2 DEF Reached
  <2> QED BY <2>1 DEF Core, DecisionInv
<1> QED BY <1>7, <1>8, <1>9 DEF Core

-----------------------------------------------------------------------------
(* The attempt and its workers *)

Local == AttemptInv /\ WorkerInv

Serving == {"serve", "load", "generate", "health", "unload", "unwind"}

\* A fault is counted.
LEMMA FaultCounts ==
  ASSUME faults \in 0..MaxFaults, Fault
  PROVE  faults' \in 0..MaxFaults
<1>1. MaxFaults \in Nat
  BY SweepAssumption
<1> QED BY <1>1 DEF Fault

\* An exit leaves no worker in anybody's hands.
LEMMA ExitLocal ==
  ASSUME Local, NEW how \in {"returned", "raised", "killed"}, Exit(how), att' = att
  PROVE  Local'
<1>1. WorkerInv'
  BY DEF Local, WorkerInv, Exit
<1>2. AttemptInv'
  BY DEF Local, AttemptInv, Exit
<1> QED BY <1>1, <1>2 DEF Local

\* Between attempts nothing changes about the last one.
LEMMA RestLocal ==
  ASSUME Local, UNCHANGED <<att, workers>>, pc \notin Serving, pc' \notin Serving, pc' # "probe"
  PROVE  Local'
BY DEF Local, AttemptInv, WorkerInv, Serving

\* An exception inside the attempt: it is not a measurement.
LEMMA RaiseAttempt ==
  ASSUME AttemptInv, NEW status \in {"unknown", "memory-excluded"}, NEW cleanup \in BOOLEAN,
         NEW exclusion \in {None} \cup [probe : Probes, available : {150, 90, None}],
         Raise(status, exclusion, cleanup)
  PROVE  AttemptInv'
<1>1. att' = [att EXCEPT !.status = status, !.exclusion = exclusion, !.cleanup = cleanup]
      /\ pc' = "unwind"
  BY DEF Raise
<1>2. att \in Attempts
  BY DEF AttemptInv
<1>3. att' \in Attempts
  BY <1>1, <1>2 DEF Attempts
<1>4. att'.owned = att.owned /\ att'.samples = att.samples /\ att'.status = status
  BY <1>1, <1>2 DEF Attempts
<1> QED BY <1>1, <1>3, <1>4 DEF AttemptInv

\* A step of an attempt that leaves what it has so far alone.
LEMMA SameAttempt ==
  ASSUME AttemptInv, att' = att, pc \in {"probe", "serve", "load"},
         pc' \in {"probe", "serve", "load", "generate"}
  PROVE  AttemptInv'
BY DEF AttemptInv

\* A step inside the attempt writes nothing.
LEMMA AttemptCore ==
  ASSUME Core, pc \in Attempting, pc' \in Attempting, AttemptUnchanged,
         stage' \in Workers, faults' \in 0..MaxFaults
  PROVE  Core'
<1>1. results[job] = None /\ DOMAIN evidence' = AllJobs
  BY DEF Core, ControllerInv, DiskInv, AttemptUnchanged
<1>2. ~AtRest /\ pc' \notin {"next", "executed", "returned"}
  BY DEF AtRest, Attempting
<1> QED BY <1>1, <1>2, QuietStep DEF Core, AttemptUnchanged

SweepInv == Core /\ Local

\* A job whose result is on disk is not run again.
LEMMA ReadResultStep ==
  ASSUME SweepInv, ReadResult
  PROVE  SweepInv'
<1>1. /\ pc = "job" /\ results[job] # None
      /\ UNCHANGED <<spec, results, evidence, decision, job, invocation, stage, att, faults>>
  BY DEF ReadResult
<1>2. \/ ~Torn(job) /\ pc' = "next" /\ workers' = workers
      \/ Exit("raised")
  BY DEF ReadResult
<1>3. Core'
  <2>1. pc' = "next" => Kept(job)
    BY <1>1, <1>2 DEF Kept, Exit
  <2>2. pc' \in {"next", "raised"} /\ ~AtRest
    BY <1>1, <1>2 DEF Exit, AtRest
  <2>3. pc' \notin Attempting /\ pc' # "executed" /\ pc' # "returned"
    BY <2>2 DEF Attempting
  <2> QED BY <1>1, <2>1, <2>2, <2>3, JobFacts, QuietStep DEF Core, SweepInv
<1>4. Local'
  BY <1>1, <1>2, ExitLocal, RestLocal DEF SweepInv, Serving
<1> QED BY <1>3, <1>4 DEF SweepInv

\* Another attempt starts from the frozen package.
LEMMA ExecuteStep ==
  ASSUME SweepInv, Execute
  PROVE  SweepInv'
<1>1. /\ pc = "job" /\ results[job] = None
      /\ UNCHANGED <<spec, results, evidence, decision, job, invocation, faults>>
  BY DEF Execute
<1>2. CASE changed
  <2>1. Exit("raised") /\ UNCHANGED <<stage, att>>
    BY <1>2 DEF Execute
  <2>2. Local'
    BY <2>1, ExitLocal DEF SweepInv
  <2>3. pc' = "raised" /\ ~AtRest
    BY <1>1, <2>1 DEF Exit, AtRest
  <2>4. Core'
    BY <1>1, <2>1, <2>3, JobFacts, QuietStep DEF Core, SweepInv, Attempting
  <2> QED BY <2>2, <2>4 DEF SweepInv
<1>3. CASE ~changed
  <2>1. /\ pc' = "probe" /\ stage' = 1 /\ workers' = workers
        /\ att' = NoAttempt
    BY <1>3 DEF Execute
  <2>3. NoAttempt \in Attempts /\ NoAttempt.owned /\ NoAttempt.clean
        /\ NoAttempt.status = "unknown" /\ NoAttempt.samples = <<>>
    BY DEF NoAttempt, Attempts
  <2>4. Len(<<>>) <= Warmups /\ Len(<<>>) <= Warmups + 1
    <3>1. Warmups \in Nat
      BY SweepAssumption
    <3> QED BY <3>1
  <2>5. AttemptInv'
    BY <2>1, <2>3, <2>4 DEF AttemptInv
  <2>6. WorkerInv'
    BY <1>1, <2>1 DEF SweepInv, Local, WorkerInv
  <2>7. pc' \in Attempting /\ ~AtRest /\ stage' \in Workers
        /\ pc' \notin {"next", "executed", "returned"}
    BY <1>1, <2>1 DEF Attempting, AtRest, Workers
  <2>8. Core'
    BY <1>1, <2>7, JobFacts, QuietStep DEF Core, SweepInv
  <2> QED BY <2>5, <2>6, <2>8 DEF SweepInv, Local
<1> QED BY <1>2, <1>3

\* The memory exercise of a worker.
LEMMA ProbeStep ==
  ASSUME SweepInv, Probe
  PROVE  SweepInv'
<1>1. PICK probe \in Probes : ProbeAnswers(probe)
  <2>1. PICK lines \in ProbeLines, exit \in {0, 1}, heavy \in BOOLEAN :
          ProbeAnswers([lines |-> lines, exit |-> exit, heavy |-> heavy])
    BY DEF Probe
  <2>2. lines \in Nat
    BY SweepAssumption
  <2>3. [lines |-> lines, exit |-> exit, heavy |-> heavy] \in Probes
    BY <2>2 DEF Probes
  <2> QED BY <2>1, <2>3
<1>2. /\ pc = "probe" /\ (faults' = faults \/ Fault) /\ workers' = workers /\ AttemptUnchanged
  BY <1>1 DEF ProbeAnswers
<1>3. \/ Raise("unknown", None, FALSE) /\ stage' = stage
      \/ Raise("memory-excluded", [probe |-> probe, available |-> 150], TRUE) /\ stage' = stage
      \/ att' = att /\ stage' \in {1, 2} /\ pc' \in {"probe", "serve"}
  BY <1>1 DEF ProbeAnswers
<1>4. faults' \in 0..MaxFaults /\ stage' \in Workers
  BY <1>2, <1>3, JobFacts, FaultCounts DEF SweepInv, Workers
<1>5. pc \in Attempting /\ pc' \in Attempting /\ pc' \in {"unwind", "probe", "serve"}
  BY <1>2, <1>3 DEF Attempting, Raise
<1>6. Core'
  BY <1>2, <1>4, <1>5, AttemptCore DEF SweepInv
<1>7. AttemptInv'
  <2>1. [probe |-> probe, available |-> 150] \in [probe : Probes, available : {150, 90, None}]
    OBVIOUS
  <2>2. CASE Raise("unknown", None, FALSE)
    BY <2>2, RaiseAttempt DEF SweepInv, Local
  <2>3. CASE Raise("memory-excluded", [probe |-> probe, available |-> 150], TRUE)
    BY <2>1, <2>3, RaiseAttempt DEF SweepInv, Local
  <2>4. CASE att' = att /\ pc' \in {"probe", "serve"}
    BY <1>2, <2>4, SameAttempt DEF SweepInv, Local
  <2> QED BY <1>3, <2>2, <2>3, <2>4
<1>8. WorkerInv'
  BY <1>2, <1>5 DEF SweepInv, Local, WorkerInv
<1> QED BY <1>6, <1>7, <1>8 DEF SweepInv, Local

\* A worker process is started.
LEMMA ServeStep ==
  ASSUME SweepInv, Serve
  PROVE  SweepInv'
<1> DEFINE fine == [lines |-> AllLines, exit |-> 0, heavy |-> FALSE]
<1>1. pc = "serve" /\ AttemptUnchanged
  BY DEF Serve
<1>2. fine \in Probes
  BY DEF Probes, AllLines, MEMORY_PHASES
<1> HIDE DEF fine
<1>3. /\ workers' = workers \/ workers' = [workers EXCEPT ![stage] = "owned"]
      /\ faults' = faults \/ Fault
      /\ \/ Raise("unknown", None, FALSE) /\ stage' = stage
         \/ /\ \E available \in {150, 90, None} :
                 Raise("memory-excluded", [probe |-> fine, available |-> available], TRUE)
            /\ stage' = stage
         \/ att' = att /\ stage' \in {1, 2} /\ pc' \in {"serve", "load"}
  <2>1. CASE workers[stage] = "lingering" /\ Raise("unknown", None, FALSE)
             /\ UNCHANGED <<workers, stage, faults>>
    BY <2>1
  <2>2. CASE /\ workers' = [workers EXCEPT ![stage] = "owned"]
             /\ \E available \in {150, 90, None} :
                  /\ IF available = 150 THEN UNCHANGED faults ELSE Fault
                  /\ CASE Fit(fine, available) = "unsafe" ->
                            Raise("memory-excluded", [probe |-> fine, available |-> available], TRUE)
                            /\ UNCHANGED stage
                       [] Fit(fine, available) = "unknown" ->
                            Raise("unknown", None, FALSE) /\ UNCHANGED stage
                       [] OTHER ->
                            /\ UNCHANGED att
                            /\ IF stage = 1 THEN stage' = 2 /\ pc' = "serve"
                               ELSE stage' = 1 /\ pc' = "load"
    BY <2>2
  <2> QED BY <2>1, <2>2 DEF Serve, fine
<1>4. faults' \in 0..MaxFaults /\ stage' \in Workers
  BY <1>3, JobFacts, FaultCounts DEF SweepInv, Workers
<1>5. pc \in Attempting /\ pc' \in Attempting /\ pc' \in {"unwind", "serve", "load"}
  BY <1>1, <1>3 DEF Attempting, Raise
<1>6. Core'
  BY <1>1, <1>4, <1>5, AttemptCore DEF SweepInv
<1>7. AttemptInv'
  <2>1. CASE Raise("unknown", None, FALSE)
    BY <2>1, RaiseAttempt DEF SweepInv, Local
  <2>2. ASSUME NEW available \in {150, 90, None},
               Raise("memory-excluded", [probe |-> fine, available |-> available], TRUE)
        PROVE  AttemptInv'
    <3>1. [probe |-> fine, available |-> available] \in [probe : Probes, available : {150, 90, None}]
      BY <1>2
    <3> QED BY <2>2, <3>1, RaiseAttempt DEF SweepInv, Local
  <2>3. CASE att' = att /\ pc' \in {"serve", "load"}
    BY <1>1, <2>3, SameAttempt DEF SweepInv, Local
  <2> QED BY <1>3, <2>1, <2>2, <2>3
<1>8. WorkerInv'
  BY <1>3, <1>5 DEF SweepInv, Local, WorkerInv
<1> QED BY <1>6, <1>7, <1>8 DEF SweepInv, Local

\* A step of the running deployment keeps its workers and may be a fault.
LEMMA RunningStep ==
  ASSUME SweepInv, pc \in {"load", "generate", "health", "unload"},
         pc' \in {"generate", "health", "unload", "unwind"}, AttemptUnchanged,
         UNCHANGED <<workers, stage>>, faults' = faults \/ Fault, AttemptInv'
  PROVE  SweepInv'
<1>1. faults' \in 0..MaxFaults /\ stage' \in Workers
  BY JobFacts, FaultCounts DEF SweepInv
<1>2. Core'
  BY <1>1, AttemptCore DEF SweepInv, Attempting
<1>3. WorkerInv'
  BY DEF SweepInv, Local, WorkerInv
<1> QED BY <1>2, <1>3 DEF SweepInv, Local

\* A failure leads to the unwinding of the attempt.
LEMMA FailedStep ==
  ASSUME SweepInv, pc \in {"load", "generate", "health", "unload"}, Fault, Raise("unknown", None, FALSE),
         UNCHANGED <<workers, stage>>, AttemptUnchanged
  PROVE  SweepInv'
<1>1. AttemptInv'
  BY RaiseAttempt DEF SweepInv, Local
<1>2. pc' = "unwind"
  BY DEF Raise
<1> QED BY <1>1, <1>2, RunningStep

\* The session loads.
LEMMA LoadStep ==
  ASSUME SweepInv, NEW fails \in BOOLEAN, Load(fails)
  PROVE  SweepInv'
<1>1. CASE fails
  BY <1>1, FailedStep DEF Load
<1>2. CASE ~fails
  <2>1. pc = "load" /\ pc' = "generate" /\ UNCHANGED <<faults, att, workers, stage>> /\ AttemptUnchanged
    BY <1>2 DEF Load
  <2>2. AttemptInv'
    BY <2>1, SameAttempt DEF SweepInv, Local
  <2> QED BY <2>1, <2>2, RunningStep
<1> QED BY <1>1, <1>2

\* One more sample; the last one is taken when all warmups are done.
LEMMA GenerateStep ==
  ASSUME SweepInv, NEW ms \in Latencies, NEW exact \in BOOLEAN, NEW clean \in BOOLEAN,
         Generate(ms, exact, clean)
  PROVE  SweepInv'
<1> DEFINE e == [exact |-> exact, ms |-> ms]
           next == Append(att.samples, e)
           st == IF clean /\ ~exact THEN "correctness-failed" ELSE att.status
<1>1. /\ pc = "generate" /\ UNCHANGED <<workers, stage>> /\ AttemptUnchanged
      /\ faults' = faults \/ Fault
      /\ att' = [att EXCEPT !.samples = next, !.clean = @ /\ clean, !.status = st]
      /\ pc' = IF ~clean \/ ~exact THEN "unwind"
               ELSE IF Len(next) <= Warmups THEN "generate"
               ELSE IF IsAfter(job) THEN "health" ELSE "unload"
  BY DEF Generate
<1>2. /\ att \in Attempts /\ att.owned /\ att.clean /\ att.status # "measured"
      /\ Len(att.samples) <= Warmups /\ att.samples \in Seq([exact : BOOLEAN, ms : Latencies])
  BY <1>1 DEF SweepInv, Local, AttemptInv, Attempts
<1>3. e \in [exact : BOOLEAN, ms : Latencies]
  OBVIOUS
<1>4. next \in Seq([exact : BOOLEAN, ms : Latencies]) /\ Len(next) = Len(att.samples) + 1
      /\ Len(att.samples) \in Nat
  BY <1>2, <1>3, AppendProperties, LenProperties
<1>5. st # "measured" /\ st \in {"unknown", "measured", "memory-excluded", "correctness-failed"}
  BY <1>2 DEF Attempts
<1> HIDE DEF next, st, e
<1>6. att' \in Attempts
  <2>1. PICK c \in BOOLEAN : c = (att.clean /\ clean)
    OBVIOUS
  <2>2. att' = [att EXCEPT !.samples = next, !.clean = c, !.status = st]
    BY <1>1, <2>1, Zenon
  <2>3. att \in Attempts /\ next \in Seq([exact : BOOLEAN, ms : Latencies])
        /\ st \in {"unknown", "measured", "memory-excluded", "correctness-failed"}
    BY <1>2, <1>4, <1>5
  <2>4. [att EXCEPT !.samples = next] \in Attempts
    BY <2>3 DEF Attempts
  <2>5. [[att EXCEPT !.samples = next] EXCEPT !.clean = c] \in Attempts
    BY <2>4 DEF Attempts
  <2>6. [[[att EXCEPT !.samples = next] EXCEPT !.clean = c] EXCEPT !.status = st] \in Attempts
    BY <2>3, <2>5 DEF Attempts
  <2> QED BY <2>2, <2>6
<1>7. /\ att'.owned = att.owned /\ att'.samples = next
      /\ att'.status = st /\ att'.clean = (att.clean /\ clean)
  BY <1>1, <1>2 DEF Attempts
<1>8. Len(next) <= Warmups + 1
  <2>1. Warmups \in Nat
    BY SweepAssumption
  <2> QED BY <1>2, <1>4, <2>1
<1>9. pc' \in {"generate", "health", "unload", "unwind"} /\ (pc' # "unwind" => clean)
      /\ (pc' = "generate" => Len(next) <= Warmups)
  BY <1>1
<1>10. AttemptInv'
  BY <1>2, <1>5, <1>6, <1>7, <1>8, <1>9 DEF AttemptInv
<1> QED BY <1>1, <1>9, <1>10, RunningStep

\* The health check behind the generations.
LEMMA CheckHealthStep ==
  ASSUME SweepInv, NEW passes \in BOOLEAN, CheckHealth(passes)
  PROVE  SweepInv'
<1>1. CASE ~passes
  BY <1>1, FailedStep DEF CheckHealth
<1>2. CASE passes
  <2>1. /\ pc = "health" /\ att' = [att EXCEPT !.health = TRUE] /\ pc' = "unload"
        /\ UNCHANGED <<faults, workers, stage>> /\ AttemptUnchanged
    BY <1>2 DEF CheckHealth
  <2>2. att \in Attempts
    BY DEF SweepInv, Local, AttemptInv
  <2>3. /\ att' \in Attempts /\ att'.owned = att.owned
        /\ att'.samples = att.samples /\ att'.status = att.status /\ att'.clean = att.clean
    BY <2>1, <2>2 DEF Attempts
  <2>4. AttemptInv'
    BY <2>1, <2>3 DEF SweepInv, Local, AttemptInv
  <2> QED BY <2>1, <2>4, RunningStep
<1> QED BY <1>1, <1>2

\* A measurement is claimed when the deployment is unloaded and clean.
LEMMA UnloadStep ==
  ASSUME SweepInv, NEW clean \in BOOLEAN, Unload(clean)
  PROVE  SweepInv'
<1>1. CASE ~clean
  BY <1>1, FailedStep DEF Unload
<1>2. CASE clean
  <2>1. /\ pc = "unload" /\ att' = [att EXCEPT !.cleanup = TRUE, !.status = "measured"]
        /\ pc' = "unwind" /\ UNCHANGED <<faults, workers, stage>> /\ AttemptUnchanged
    BY <1>2 DEF Unload
  <2>2. att \in Attempts /\ att.clean
    BY <2>1 DEF SweepInv, Local, AttemptInv
  <2>3. /\ att' \in Attempts /\ att'.owned = att.owned
        /\ att'.samples = att.samples /\ att'.clean = att.clean
    BY <2>1, <2>2 DEF Attempts
  <2>4. AttemptInv'
    BY <2>1, <2>2, <2>3 DEF SweepInv, Local, AttemptInv
  <2> QED BY <2>1, <2>4, RunningStep
<1> QED BY <1>1, <1>2

\* The workers are stopped, or left behind.
LEMMA UnwindStep ==
  ASSUME SweepInv, Unwind
  PROVE  SweepInv'
<1>1. /\ pc = "unwind" /\ pc' = "evidence" /\ UNCHANGED <<att, stage>> /\ AttemptUnchanged
      /\ faults' = faults \/ Fault
      /\ \E left \in SUBSET Workers :
           workers' = [w \in Workers |-> IF w \in left THEN "lingering"
                                         ELSE IF workers[w] = "owned" THEN "none" ELSE workers[w]]
  <2>1. CASE workers' = [w \in Workers |-> IF workers[w] = "owned" THEN "none" ELSE workers[w]]
             /\ UNCHANGED faults
    <3>1. workers' = [w \in Workers |-> IF w \in {} THEN "lingering"
                                        ELSE IF workers[w] = "owned" THEN "none" ELSE workers[w]]
      BY <2>1
    <3>2. {} \in SUBSET Workers
      OBVIOUS
    <3>3. \E left \in SUBSET Workers :
            workers' = [w \in Workers |-> IF w \in left THEN "lingering"
                                          ELSE IF workers[w] = "owned" THEN "none" ELSE workers[w]]
      BY <3>1, <3>2
    <3> QED BY <2>1, <3>3 DEF Unwind
  <2>2. CASE Fault /\ \E left \in (SUBSET {w \in Workers : workers[w] = "owned"}) \ {{}} :
               workers' = [w \in Workers |-> IF w \in left THEN "lingering"
                                             ELSE IF workers[w] = "owned" THEN "none" ELSE workers[w]]
    BY <2>2 DEF Unwind
  <2> QED BY <2>1, <2>2 DEF Unwind
<1>2. Core'
  BY <1>1, JobFacts, FaultCounts, AttemptCore DEF SweepInv, Attempting
<1>3. WorkerInv'
  BY <1>1 DEF SweepInv, Local, WorkerInv
<1>4. AttemptInv'
  BY <1>1 DEF SweepInv, Local, AttemptInv
<1> QED BY <1>2, <1>3, <1>4 DEF SweepInv, Local

\* An interrupt keeps the attempt as it is by then.
LEMMA InterruptStep ==
  ASSUME SweepInv, Interrupt
  PROVE  SweepInv'
<1>1. /\ InTry /\ Fault /\ att' = [att EXCEPT !.interrupted = TRUE] /\ pc' = "unwind"
      /\ stage' = stage /\ AttemptUnchanged
      /\ \/ workers' = workers
         \/ \E w \in Workers : workers' = [workers EXCEPT ![w] = "lingering"]
  BY DEF Interrupt
<1>2. Core'
  BY <1>1, JobFacts, FaultCounts, AttemptCore DEF SweepInv, Attempting, InTry
<1>3. att \in Attempts
  BY DEF SweepInv, Local, AttemptInv
<1>4. /\ att' \in Attempts /\ att'.owned = att.owned
      /\ att'.samples = att.samples /\ att'.clean = att.clean /\ att'.status = att.status
  BY <1>1, <1>3 DEF Attempts
<1>5. AttemptInv' /\ WorkerInv'
  BY <1>1, <1>4 DEF SweepInv, Local, AttemptInv, WorkerInv
<1> QED BY <1>2, <1>5 DEF SweepInv, Local

\* evidence.json is written.
LEMMA WriteEvidenceStep ==
  ASSUME SweepInv, WriteEvidence
  PROVE  SweepInv'
<1>1. /\ pc = "evidence" /\ DOMAIN evidence' = DOMAIN evidence
      /\ UNCHANGED <<spec, results, decision, job, invocation, stage, att, faults>>
      /\ Exit("raised") \/ (pc' = "save" /\ workers' = workers)
  BY DEF WriteEvidence
<1>2. results[job] = None /\ ~AtRest /\ pc' \notin {"next", "executed", "returned"}
  BY <1>1 DEF SweepInv, Core, ControllerInv, Attempting, AtRest, Exit
<1>3. Core'
  BY <1>1, <1>2, JobFacts, QuietStep DEF SweepInv, Core
<1>4. Local'
  BY <1>1, ExitLocal, RestLocal DEF SweepInv, Serving
<1> QED BY <1>3, <1>4 DEF SweepInv

\* A result that validate_result accepts was earned.
LEMMA SavedResult ==
  ASSUME SweepInv, pc = "save"
  PROVE  JobResult \in Results /\ JobResult.status # "torn"
         /\ (validate_result(JobResult) => Earned(JobResult))
<1>1. att \in Attempts /\ att.owned /\ (att.status = "measured" => att.clean)
  BY DEF SweepInv, Local, AttemptInv
<1>2. invocation \in 1..MaxInvocations
  <2>1. invocation \in 0..MaxInvocations /\ invocation # 0 /\ MaxInvocations \in Nat
    BY SweepAssumption DEF SweepInv, Core, ControllerInv, AtRest
  <2> QED BY <2>1
<1>3. JobResult \in Results
  BY <1>1, <1>2 DEF JobResult, Results, Attempts
<1>4. /\ JobResult.status = att.status /\ JobResult.owned = att.owned
      /\ JobResult.clean = att.clean
  BY DEF JobResult
<1>5. JobResult.status # "torn"
  BY <1>1, <1>4 DEF Attempts
<1> QED BY <1>1, <1>3, <1>4, <1>5 DEF Earned

\* result.json is written.
LEMMA SaveStep ==
  ASSUME SweepInv, Save
  PROVE  SweepInv'
<1>1. pc = "save" /\ UNCHANGED <<spec, evidence, decision, job, invocation, stage, att, faults>>
  BY DEF Save
<1>2. CASE ~validate_result(JobResult)
  <2>1. Exit("raised") /\ results' = results
    BY <1>2 DEF Save
  <2>2. pc' = "raised" /\ ~AtRest
    BY <1>1, <2>1 DEF Exit, AtRest
  <2>3. Core'
    BY <1>1, <2>1, <2>2, JobFacts, QuietStep DEF SweepInv, Core, Attempting
  <2> QED BY <1>1, <2>1, <2>3, ExitLocal DEF SweepInv
<1>3. CASE validate_result(JobResult)
  <2>1. results' = [results EXCEPT ![job] = JobResult] /\ pc' = "executed" /\ workers' = workers
    BY <1>3 DEF Save
  <2>2. PICK r \in Results : r = JobResult /\ r.status # "torn" /\ Earned(r)
    BY <1>1, <1>3, SavedResult
  <2>3. Core'
    BY <1>1, <2>1, <2>2, JobFacts, WriteStep DEF SweepInv
  <2>4. Local'
    BY <1>1, <2>1, RestLocal DEF SweepInv, Serving
  <2> QED BY <2>3, <2>4 DEF SweepInv
<1> QED BY <1>2, <1>3

\* The controller is killed, maybe in the middle of a write.
LEMMA CrashStep ==
  ASSUME SweepInv, Crash
  PROVE  SweepInv'
<1>1. /\ ~AtRest /\ Fault /\ Exit("killed") /\ pc' = "killed"
      /\ UNCHANGED <<spec, evidence, decision, job, invocation, stage, att>>
  BY DEF Crash, Exit
<1>2. Local'
  BY <1>1, ExitLocal DEF SweepInv
<1>3. faults' \in 0..MaxFaults
  BY <1>1, JobFacts, FaultCounts DEF SweepInv
<1>4. CASE results' = results
  <2>1. Core'
    BY <1>1, <1>3, <1>4, JobFacts, QuietStep DEF SweepInv, Core, Attempting
  <2> QED BY <1>2, <2>1 DEF SweepInv
<1>5. CASE pc = "save" /\ results' = [results EXCEPT ![job] = [status |-> "torn"]]
  <2>1. PICK r \in Results : r = [status |-> "torn"] /\ r.status = "torn"
    <3>1. [status |-> "torn"] \in [status : {"torn"}]
      OBVIOUS
    <3>2. [status |-> "torn"] \in Results
      BY <3>1, Zenon DEF Results
    <3> QED BY <3>2
  <2>2. Core'
    BY <1>1, <1>3, <1>5, <2>1, WriteStep DEF SweepInv
  <2> QED BY <1>2, <2>2 DEF SweepInv
<1> QED BY <1>4, <1>5 DEF Crash

\* Nothing but the environment moves.
LEMMA OutsideStep ==
  ASSUME SweepInv, UNCHANGED <<spec, results, evidence, decision, job, invocation, stage, pc>>,
         faults' = faults \/ Fault, att' = att \/ att' = [att EXCEPT !.frozen = FALSE],
         workers' = workers \/ \E w \in Workers : workers' = [workers EXCEPT ![w] = "none"]
  PROVE  SweepInv'
<1>1. faults' \in 0..MaxFaults
  BY JobFacts, FaultCounts DEF SweepInv
<1>2. pc' \in Attempting => results[job] = None
  BY DEF SweepInv, Core, ControllerInv
<1>3. (pc' = "next" => Kept(job)) /\ (AtRest => AtRest')
  BY DEF SweepInv, Core, ControllerInv, AtRest
<1>4. Core'
  BY <1>1, <1>2, <1>3, JobFacts, QuietStep DEF SweepInv, Core
<1>5. WorkerInv'
  BY DEF SweepInv, Local, WorkerInv
<1>6. AttemptInv'
  <2>1. att \in Attempts
    BY DEF SweepInv, Local, AttemptInv
  <2>2. CASE att' = att
    BY <2>2 DEF SweepInv, Local, AttemptInv
  <2>3. CASE att' = [att EXCEPT !.frozen = FALSE]
    <3>1. FALSE \in BOOLEAN
      OBVIOUS
    <3>2. /\ att' \in Attempts /\ att'.owned = att.owned
          /\ att'.samples = att.samples /\ att'.status = att.status /\ att'.clean = att.clean
      BY <2>1, <2>3, <3>1 DEF Attempts
    <3> QED BY <3>2 DEF SweepInv, Local, AttemptInv
  <2> QED BY <2>2, <2>3
<1> QED BY <1>4, <1>5, <1>6 DEF SweepInv, Local

-----------------------------------------------------------------------------
(* The inductive invariant *)

\* The invariant holds before the first invocation.
LEMMA InitSweep == Init => SweepInv
<1> SUFFICES ASSUME Init PROVE SweepInv
  OBVIOUS
<1>1. /\ spec \in Specs /\ results = [j \in AllJobs |-> None] /\ evidence = [j \in AllJobs |-> None]
      /\ decision = None /\ pc = "idle" /\ job = 1 /\ invocation = 0 /\ stage = 1
      /\ att = NoAttempt /\ workers = [w \in Workers |-> "none"] /\ faults = 0
  BY DEF Init
<1>2. MaxFaults \in Nat /\ MaxInvocations \in Nat /\ Warmups \in Nat /\ None # "pass"
  BY SweepAssumption
<1>3. DiskInv
  BY <1>1 DEF DiskInv
<1>4. ControllerInv
  BY <1>1, <1>2, SpecFacts DEF ControllerInv, AtRest, Attempting, Workers
<1>5. AttemptInv
  <2>1. /\ NoAttempt \in Attempts /\ NoAttempt.owned
        /\ NoAttempt.clean /\ NoAttempt.status = "unknown" /\ NoAttempt.samples = <<>>
    BY DEF NoAttempt, Attempts
  <2>2. Len(<<>>) <= Warmups /\ Len(<<>>) <= Warmups + 1
    BY <1>2
  <2> QED BY <1>1, <2>1, <2>2 DEF AttemptInv
<1>6. WorkerInv
  BY <1>1 DEF WorkerInv
<1>7. DecisionInv
  BY <1>1, <1>2 DEF DecisionInv
<1> QED BY <1>3, <1>4, <1>5, <1>6, <1>7 DEF SweepInv, Core, Local

\* Every step of the sweep keeps the invariant.
LEMMA NextSweep == SweepInv /\ [Next]_vars => SweepInv'
<1> SUFFICES ASSUME SweepInv, [Next]_vars PROVE SweepInv'
  OBVIOUS
<1>1. CASE Invoke
  <2>1. Core'
    BY <1>1, InvokeStep DEF SweepInv
  <2>2. UNCHANGED <<att, workers>> /\ pc \notin Serving /\ pc' \notin Serving /\ pc' # "probe"
    BY <1>1 DEF Invoke, AtRest, Serving
  <2> QED BY <2>1, <2>2, RestLocal DEF SweepInv
<1>2. CASE ReadResult
  BY <1>2, ReadResultStep
<1>3. CASE Pause
  <2>1. Core'
    BY <1>3, PauseStep DEF SweepInv
  <2>2. Exit("returned") /\ att' = att
    BY <1>3 DEF Pause
  <2> QED BY <2>1, <2>2, ExitLocal DEF SweepInv
<1>4. CASE Execute
  BY <1>4, ExecuteStep
<1>5. CASE NextJob
  <2>1. Core'
    BY <1>5, NextJobStep DEF SweepInv
  <2>2. /\ att' = att /\ pc \notin Serving
        /\ Exit("returned") \/ (pc' = "job" /\ workers' = workers)
    BY <1>5 DEF NextJob, Serving
  <2>3. Local'
    BY <2>2, ExitLocal, RestLocal DEF SweepInv, Serving
  <2> QED BY <2>1, <2>3 DEF SweepInv
<1>6. CASE Probe
  BY <1>6, ProbeStep
<1>7. CASE Serve
  BY <1>7, ServeStep
<1>8. CASE \E fails \in BOOLEAN : Load(fails)
  BY <1>8, LoadStep
<1>9. CASE GenerateSome
  BY <1>9, GenerateStep DEF GenerateSome
<1>10. CASE StreamFails
  BY <1>10, FailedStep DEF StreamFails
<1>11. CASE \E passes \in BOOLEAN : CheckHealth(passes)
  BY <1>11, CheckHealthStep
<1>12. CASE \E clean \in BOOLEAN : Unload(clean)
  BY <1>12, UnloadStep
<1>13. CASE Unwind
  BY <1>13, UnwindStep
<1>14. CASE WriteEvidence
  BY <1>14, WriteEvidenceStep
<1>15. CASE Save
  BY <1>15, SaveStep
<1>16. CASE Interrupt
  BY <1>16, InterruptStep
<1>17. CASE Crash
  BY <1>17, CrashStep
<1>18. CASE Edit
  <2>1. att \in Attempts /\ att.frozen \in BOOLEAN
    BY DEF SweepInv, Local, AttemptInv, Attempts
  <2>2. att' = [att EXCEPT !.frozen = att.frozen /\ pc \notin {"probe", "serve"}]
    BY <1>18 DEF Edit
  <2>3. att' = att \/ att' = [att EXCEPT !.frozen = FALSE]
    <3>1. CASE att.frozen /\ pc \notin {"probe", "serve"}
      <4>1. (att.frozen /\ pc \notin {"probe", "serve"}) = att.frozen
        BY <2>1, <3>1, Zenon
      <4>2. att' = [att EXCEPT !.frozen = att.frozen]
        BY <2>2, <4>1, Zenon
      <4> QED BY <2>1, <4>2 DEF Attempts
    <3>2. CASE ~(att.frozen /\ pc \notin {"probe", "serve"})
      <4>1. (att.frozen /\ pc \notin {"probe", "serve"}) = FALSE
        BY <3>2, Zenon
      <4> QED BY <2>2, <4>1, Zenon
    <3> QED BY <3>1, <3>2
  <2> QED BY <1>18, <2>3, OutsideStep DEF Edit
<1>19. CASE \E w \in Workers : LingeringRetires(w)
  BY <1>19, OutsideStep DEF LingeringRetires
<1>20. CASE UNCHANGED vars
  BY <1>20, OutsideStep DEF vars
<1> QED
  BY <1>1, <1>2, <1>3, <1>4, <1>5, <1>6, <1>7, <1>8, <1>9, <1>10, <1>11, <1>12, <1>13,
     <1>14, <1>15, <1>16, <1>17, <1>18, <1>19, <1>20 DEF Next, Controller

\* The invariant of the disk, the controller, the attempt, its workers and the
\* verdict holds in every behaviour of the sweep.
THEOREM SweepInvariant == Spec => []SweepInv
BY InitSweep, NextSweep, PTL DEF Spec

-----------------------------------------------------------------------------
(* The properties *)

\* What is on disk stays as it is: run() creates evidence.json and result.json
\* exclusively, so no resume, crash or interrupt replaces an earlier attempt.
THEOREM ResultsAreKept == Spec => ResultsAreImmutable
<1> DEFINE Stays == \A j \in AllJobs : /\ results[j] # None => results'[j] = results[j]
                                       /\ evidence[j] # None => evidence'[j] = evidence[j]
<1>1. ASSUME SweepInv, [Next]_vars PROVE [Stays]_vars
  <2>1. /\ results \in [AllJobs -> Results \cup {None}] /\ DOMAIN evidence = AllJobs
        /\ pc = "save" => results[job] = None
    BY <1>1 DEF SweepInv, Core, DiskInv, ControllerInv, Attempting
  <2>2. /\ results' = results \/ (pc = "save" /\ \E r : results' = [results EXCEPT ![job] = r])
        /\ evidence' = evidence \/ (evidence[job] = None
                                     /\ evidence' = [evidence EXCEPT ![job] = invocation])
    <3>1. CASE Save
      BY <3>1 DEF Save
    <3>2. CASE Crash
      BY <3>2 DEF Crash
    <3>3. CASE WriteEvidence
      BY <3>3 DEF WriteEvidence
    <3>4. CASE Invoke \/ ReadResult \/ Pause \/ Execute \/ NextJob \/ Edit
               \/ (\E w \in Workers : LingeringRetires(w)) \/ UNCHANGED vars
      BY <3>4 DEF Invoke, ReadResult, Pause, Execute, NextJob, Edit, LingeringRetires, vars
    <3>5. CASE Probe \/ Serve \/ (\E fails \in BOOLEAN : Load(fails)) \/ GenerateSome \/ StreamFails
      BY <3>5 DEF Probe, ProbeAnswers, Serve, Load, GenerateSome, Generate, StreamFails,
                  AttemptUnchanged
    <3>6. CASE \/ (\E passes \in BOOLEAN : CheckHealth(passes))
               \/ (\E clean \in BOOLEAN : Unload(clean)) \/ Unwind \/ Interrupt
      BY <3>6 DEF CheckHealth, Unload, Unwind, Interrupt, AttemptUnchanged
    <3> QED BY <1>1, <3>1, <3>2, <3>3, <3>4, <3>5, <3>6 DEF Next, Controller
  <2>3. \A j \in AllJobs : results[j] # None => results'[j] = results[j]
    BY <2>1, <2>2
  <2>4. \A j \in AllJobs : evidence[j] # None => evidence'[j] = evidence[j]
    BY <2>1, <2>2
  <2> QED BY <2>3, <2>4
<1> QED BY <1>1, SweepInvariant, PTL DEF Spec, ResultsAreImmutable

\* No job begins, and none is recorded, while an attempt still holds a worker it
\* started: ExitStack stops them all, and the death of the controller lets go of them.
THEOREM WorkersAreFresh == Spec => []FreshWorkers
<1>1. ASSUME SweepInv PROVE FreshWorkers
  <2>1. job \in AllJobs
    BY <1>1, JobFacts DEF SweepInv
  <2>2. Len(att.samples) \in 0..(Warmups + 1)
    <3>1. att.samples \in Seq([exact : BOOLEAN, ms : Latencies]) /\ Len(att.samples) <= Warmups + 1
      BY <1>1 DEF SweepInv, Local, AttemptInv, Attempts
    <3>2. Len(att.samples) \in Nat /\ Warmups \in Nat
      BY <3>1, LenProperties, SweepAssumption
    <3> QED BY <3>1, <3>2
  <2>3. decision \in {None, "incomplete", "unstable", "inconclusive", "pass", "fail"}
    BY <1>1 DEF SweepInv, Core, DecisionInv, Verdicts
  <2>4. TypeOK
    BY <1>1, <2>1, <2>2, <2>3 DEF SweepInv, Core, Local, ControllerInv, WorkerInv, TypeOK
  <2>5. pc \in {"probe", "evidence", "save", "executed", "next", "job"} =>
          \A w \in Workers : workers[w] # "owned"
    BY <1>1 DEF SweepInv, Local, WorkerInv
  <2> QED BY <2>4, <2>5 DEF FreshWorkers
<1> QED BY <1>1, SweepInvariant, PTL

\* The jobs with a result are the saved ones.
LEMMA SavedJobs ==
  ASSUME SweepInv
  PROVE  {j \in Jobs : results[j] # None} = Saved
<1>1. Jobs \subseteq AllJobs /\ \A j \in AllJobs : results[j] # None => j \in Jobs
  BY JobFacts, SpecFacts DEF SweepInv, Core, DiskInv
<1> QED BY <1>1 DEF Saved

\* An invocation that returns leaves a summary of every result on disk.
THEOREM DecisionCountsAllResults == Spec => []DecisionIsOfAllResults
<1>1. ASSUME SweepInv PROVE DecisionIsOfAllResults
  <2> SUFFICES ASSUME pc = "returned"
               PROVE  decision = summarize({j \in Jobs : results[j] # None})
    BY DEF DecisionIsOfAllResults
  <2>1. decision = summarize(Saved)
    BY <1>1 DEF SweepInv, Core, DecisionInv
  <2> QED BY <1>1, <2>1, SavedJobs
<1> QED BY <1>1, SweepInvariant, PTL

\* Only the whole exercise, ended with exit status 0, is a completed one.
LEMMA CompletedExercise ==
  ASSUME NEW probe, Completed(probe)
  PROVE  probe.lines = AllLines /\ probe.exit = 0
<1>1. ProbeArtifact(probe.lines, probe.exit, probe.heavy).m.completed =
        ((IF probe.exit = 0 /\ probe.lines = AllLines THEN None ELSE "native process exited") = None)
  BY DEF ProbeArtifact, make_artifact
<1>2. None # "native process exited"
  BY SweepAssumption
<1> QED BY <1>1, <1>2 DEF Completed

\* Between the references of a round, each job is one of the placements.
LEMMA JobHasPlacement ==
  ASSUME spec \in Specs, NEW j \in Jobs
  PROVE  CandidateOf(j) \in Candidates
<1>1. CASE IsReference(j)
  BY <1>1, SweepAssumption DEF CandidateOf
<1>2. CASE ~IsReference(j)
  <2>1. j \in Nat \ {0} /\ j \in 1..(JobsPerRound * spec.maximum) /\ spec.maximum \in Nat
    BY SpecFacts DEF Jobs
  <2>2. Slot(j) \in 1..JobsPerRound /\ Round(j) \in Nat \ {0}
    BY <2>1, RoundAndSlot
  <2>3. Slot(j) # 1 /\ Slot(j) # JobsPerRound
    BY <1>2 DEF IsReference
  <2>4. Slot(j) < JobsPerRound
    BY <2>2, <2>3, RoundSize
  <2>5. Round(j) \in 1..spec.maximum
    <3>1. Round(j) <= spec.maximum
      BY <2>1, <2>4, JobFits
    <3> QED BY <2>1, <2>2, <3>1
  <2>6. Slot(j) - 1 \in 1..Cardinality(Candidates)
    BY <2>2, <2>3, RoundSize
  <2>7. Order[Round(j)] \in Seq(Candidates) /\ Len(Order[Round(j)]) = Cardinality(Candidates)
    BY <2>5, SweepAssumption, Zenon
  <2>8. Order[Round(j)][Slot(j) - 1] \in Candidates
    BY <2>6, <2>7, ElementOfSeq
  <2> QED BY <1>2, <2>8 DEF CandidateOf
<1> QED BY <1>1, <1>2

\* The result of an attempt that started a helper from the edited package.
Edited(j) == Kept(j) /\ ~results[j].frozen

\* Such an attempt began before the edit, and none begins after it.
PackageInv ==
  /\ \A j \in AllJobs : Edited(j) => changed
  /\ pc \in Attempting => (~att.frozen => changed) /\ \A j \in AllJobs : ~Edited(j)
  /\ \A i, j \in AllJobs : Edited(i) /\ Edited(j) => i = j

\* A step that writes no result and starts no attempt.
LEMMA PackageFrame ==
  ASSUME PackageInv, results' = results, changed => changed', pc' \in Attempting => pc \in Attempting,
         pc' \in Attempting => (~att'.frozen => ~att.frozen \/ changed')
  PROVE  PackageInv'
BY DEF PackageInv, Edited, Kept, Torn

\* Every step keeps it.
LEMMA NextPackage == SweepInv /\ PackageInv /\ [Next]_vars => PackageInv'
<1> SUFFICES ASSUME SweepInv, PackageInv, [Next]_vars PROVE PackageInv'
  OBVIOUS
<1>1. att \in Attempts /\ results \in [AllJobs -> Results \cup {None}] /\ job \in AllJobs
  BY JobFacts DEF SweepInv, Local, AttemptInv, Core, DiskInv
<1>2. CASE Invoke \/ ReadResult \/ Pause \/ NextJob
  BY <1>2, PackageFrame DEF Invoke, ReadResult, Pause, NextJob, Exit, Attempting
<1>3. CASE Execute
  <2>1. CASE changed
    BY <1>3, <2>1, PackageFrame DEF Execute, Exit, Attempting
  <2>2. CASE ~changed
    BY <1>3, <2>2 DEF Execute, PackageInv, Edited, Kept, Torn, NoAttempt
  <2> QED BY <2>1, <2>2
<1>4. CASE Probe
  <2>1. PICK probe : ProbeAnswers(probe)
    BY <1>4 DEF Probe
  <2> QED BY <1>1, <2>1, PackageFrame DEF ProbeAnswers, Raise, AttemptUnchanged, Attempting, Attempts
<1>5. CASE Serve
  BY <1>1, <1>5, PackageFrame DEF Serve, Raise, AttemptUnchanged, Attempting, Attempts
<1>a. ASSUME pc \in Attempting, Raise("unknown", None, FALSE), AttemptUnchanged
      PROVE  PackageInv'
  <2>1. att' = [att EXCEPT !.status = "unknown", !.exclusion = None, !.cleanup = FALSE]
    BY <1>a DEF Raise
  <2>2. att'.frozen = att.frozen
    BY <1>1, <2>1 DEF Attempts
  <2> QED BY <1>a, <2>2, PackageFrame DEF AttemptUnchanged
<1>6. CASE \E fails \in BOOLEAN : Load(fails)
  <2>1. pc \in Attempting /\ AttemptUnchanged
        /\ (Raise("unknown", None, FALSE) \/ (att' = att /\ pc' = "generate"))
    BY <1>6 DEF Load, Attempting
  <2> QED BY <1>a, <2>1, PackageFrame DEF AttemptUnchanged
<1>7. CASE GenerateSome
  BY <1>1, <1>7, PackageFrame DEF GenerateSome, Generate, AttemptUnchanged, Attempting, Attempts
<1>8. CASE StreamFails
  BY <1>8, <1>a DEF StreamFails, Attempting
<1>9. CASE \E passes \in BOOLEAN : CheckHealth(passes)
  <2>1. pc \in Attempting /\ AttemptUnchanged
        /\ (Raise("unknown", None, FALSE) \/ (att' = [att EXCEPT !.health = TRUE] /\ pc' = "unload"))
    BY <1>9 DEF CheckHealth, Attempting
  <2>2. CASE att' = [att EXCEPT !.health = TRUE] /\ pc' = "unload"
    <3>1. att'.frozen = att.frozen
      BY <1>1, <2>2 DEF Attempts
    <3> QED BY <2>1, <3>1, PackageFrame DEF AttemptUnchanged
  <2> QED BY <1>a, <2>1, <2>2
<1>10. CASE \E clean \in BOOLEAN : Unload(clean)
  <2>1. pc \in Attempting /\ AttemptUnchanged
        /\ \/ Raise("unknown", None, FALSE)
           \/ att' = [att EXCEPT !.cleanup = TRUE, !.status = "measured"] /\ pc' = "unwind"
    BY <1>10 DEF Unload, Attempting
  <2>2. CASE att' = [att EXCEPT !.cleanup = TRUE, !.status = "measured"] /\ pc' = "unwind"
    <3>1. att'.frozen = att.frozen
      BY <1>1, <2>2 DEF Attempts
    <3> QED BY <2>1, <3>1, PackageFrame DEF AttemptUnchanged
  <2> QED BY <1>a, <2>1, <2>2
<1>11. CASE Unwind \/ WriteEvidence
  BY <1>11, PackageFrame DEF Unwind, WriteEvidence, Exit, AttemptUnchanged, Attempting
<1>12. CASE Interrupt
  BY <1>1, <1>12, PackageFrame DEF Interrupt, InTry, AttemptUnchanged, Attempting, Attempts
<1>13. CASE Save
  <2>1. CASE results' = results
    BY <1>13, <2>1, PackageFrame DEF Save, Exit, Attempting
  <2>2. CASE results' = [results EXCEPT ![job] = JobResult] /\ pc' = "executed"
    <3>1. results'[job].frozen = att.frozen /\ \A j \in AllJobs : j # job => results'[j] = results[j]
      BY <1>1, <2>2 DEF JobResult
    <3>2. changed' = changed /\ (~att.frozen => changed) /\ \A j \in AllJobs : ~Edited(j)
      BY <1>13 DEF Save, PackageInv, Attempting
    <3>3. \A j \in AllJobs : Edited(j)' => j = job /\ ~att.frozen
      BY <3>1, <3>2 DEF Edited, Kept, Torn
    <3> QED BY <2>2, <3>2, <3>3 DEF PackageInv, Attempting
  <2> QED BY <1>13, <2>1, <2>2 DEF Save
<1>14. CASE Crash
  <2>1. CASE results' = results
    BY <1>14, <2>1, PackageFrame DEF Crash, Exit, Attempting
  <2>2. CASE results' = [results EXCEPT ![job] = [status |-> "torn"]]
    <3>1. results'[job].status = "torn" /\ \A j \in AllJobs : j # job => results'[j] = results[j]
      BY <1>1, <2>2
    <3>2. changed' = changed /\ pc' = "killed"
      BY <1>14 DEF Crash, Exit
    <3>3. \A j \in AllJobs : Edited(j)' => Edited(j)
      BY <3>1 DEF Edited, Kept, Torn
    <3> QED BY <3>2, <3>3 DEF PackageInv, Attempting
  <2> QED BY <1>14, <2>1, <2>2 DEF Crash
<1>15. CASE Edit
  BY <1>15, PackageFrame DEF Edit
<1>16. CASE (\E w \in Workers : LingeringRetires(w)) \/ UNCHANGED vars
  BY <1>16, PackageFrame DEF LingeringRetires, vars
<1> QED
  BY <1>2, <1>3, <1>4, <1>5, <1>6, <1>7, <1>8, <1>9, <1>10, <1>11, <1>12, <1>13, <1>14, <1>15,
     <1>16 DEF Next, Controller

\* At most one attempt starts helpers from another package than the frozen one: the
\* digest is checked before each attempt (native.py:100) and not again inside it.
THEOREM PackageInvariant == Spec => []PackageInv
<1>1. Init => PackageInv
  BY DEF Init, PackageInv, Edited, Kept, Attempting
<1> QED BY <1>1, NextPackage, SweepInvariant, PTL DEF Spec

\* A pass is earned: it rests on whole rounds, enough of them, in which every job is
\* a clean measurement on workers of this sweep or an exclusion by a completed
\* exercise, with health behind each round and at most one attempt cut by an edit of
\* the package; and no placement always beat the selected one by more than the
\* regret limit, for any number of samples and whatever the resampling says.
THEOREM PassesAreEarned == Spec => []PassIsEarned
<1>1. ASSUME SweepInv, PackageInv PROVE PassIsEarned
  <2> DEFINE saved == {j \in Jobs : results[j] # None}
  <2> SUFFICES ASSUME decision = "pass"
               PROVE  /\ Cardinality(saved) >= JobsPerRound * spec.repetitions
                      /\ Cardinality(saved) % JobsPerRound = 0
                      /\ \A j \in saved : LET r == results[j] IN
                           /\ \/ /\ r.status = "measured" /\ r.owned /\ r.clean
                                 /\ \A i \in 1..(Warmups + 1) : r.samples[i].exact
                              \/ /\ r.status = "memory-excluded" /\ ~IsReference(j)
                                 /\ r.exclusion.probe.lines = AllLines /\ r.exclusion.probe.exit = 0
                           /\ IsAfter(j) => r.health = TRUE
                      /\ \A i, j \in saved : ~results[i].frozen /\ ~results[j].frozen => i = j
                      /\ \A c \in Candidates \ {Selected} : Measured(saved, c) # {} =>
                           \E i \in Measured(saved, Selected), j \in Measured(saved, c) :
                             100 * Generation(i) <= 115 * Generation(j)
    BY DEF PassIsEarned
  <2>1. spec \in Specs
    BY <1>1, JobFacts DEF SweepInv
  <2>2. PICK k \in Jobs : Saved = 1..k /\ summarize(1..k) = "pass"
    BY <1>1 DEF SweepInv, Core, DecisionInv
  <2>3. saved = 1..k /\ saved \subseteq Jobs
    BY <1>1, <2>2, SavedJobs
  <2>4. k \in Nat /\ k > 0
    BY <2>1, SpecFacts
  <2> HIDE DEF saved
  <2>5. /\ Complete(saved) /\ Stable(saved) /\ Health(saved) /\ Measured(saved, Selected) # {}
        /\ Regret(saved) = "within" /\ \A j \in saved : validate_result(results[j])
    BY <2>2, <2>3 DEF summarize, Judged
  <2>6. Cardinality(saved) >= JobsPerRound * spec.repetitions /\ Cardinality(saved) % JobsPerRound = 0
    <3>1. Cardinality(1..k) = IF 1 > k THEN 0 ELSE k - 1 + 1
      BY <2>4, FS_Interval
    <3>2. Cardinality(saved) = k
      BY <2>3, <2>4, <3>1
    <3> QED BY <2>1, <2>2, <2>4, <3>2, PassIsFinal
  <2>7. ASSUME NEW j \in saved
        PROVE  LET r == results[j] IN
                 /\ \/ /\ r.status = "measured" /\ r.owned /\ r.clean
                       /\ \A i \in 1..(Warmups + 1) : r.samples[i].exact
                    \/ /\ r.status = "memory-excluded" /\ ~IsReference(j)
                       /\ r.exclusion.probe.lines = AllLines /\ r.exclusion.probe.exit = 0
                 /\ IsAfter(j) => r.health = TRUE
    <3>1. results[j].status = "measured" \/ (results[j].status = "memory-excluded" /\ ~IsReference(j))
      <4>1. CASE IsReference(j)
        BY <2>5, <4>1 DEF Stable, References
      <4>2. CASE ~IsReference(j)
        BY <2>1, <2>3, <2>5, <4>2, JobHasPlacement DEF Complete
      <4> QED BY <4>1, <4>2
    <3>2. IsAfter(j) => results[j].health = TRUE
      BY <2>5 DEF Health, References, IsAfter, IsReference
    <3>3. results[j] \in Results /\ j \in AllJobs /\ results[j] # None
      BY <1>1, <2>1, <2>3, SpecFacts DEF SweepInv, Core, DiskInv, saved
    <3>4. Earned(results[j])
      BY <1>1, <3>1, <3>3 DEF SweepInv, Core, DiskInv, Kept, Torn
    <3>5. CASE results[j].status = "measured"
      <4>1. results[j].samples \in Seq([exact : BOOLEAN, ms : Latencies])
        BY <3>3, <3>5 DEF Results
      <4>2. Len(results[j].samples) = Warmups + 1
            /\ \A i \in DOMAIN results[j].samples : results[j].samples[i].exact
        BY <2>5, <3>5 DEF validate_result
      <4>3. DOMAIN results[j].samples = 1..(Warmups + 1)
        BY <4>1, <4>2, LenProperties
      <4> QED BY <3>2, <3>4, <3>5, <4>2, <4>3 DEF Earned
    <3>6. CASE results[j].status = "memory-excluded" /\ ~IsReference(j)
      <4>1. Completed(results[j].exclusion.probe)
        BY <2>5, <3>6 DEF validate_result
      <4> QED BY <3>2, <3>6, <4>1, CompletedExercise
    <3> QED BY <3>1, <3>5, <3>6
  <2>8. ASSUME NEW i \in saved, NEW j \in saved, ~results[i].frozen, ~results[j].frozen
        PROVE  i = j
    <3>1. \A l \in saved : l \in AllJobs /\ Kept(l)
      <4> SUFFICES ASSUME NEW l \in saved PROVE l \in AllJobs /\ Kept(l)
        OBVIOUS
      <4>1. l \in AllJobs /\ results[l] # None
        BY <2>1, <2>3, SpecFacts DEF saved
      <4>2. results[l].status # "torn"
        BY <2>7
      <4> QED BY <4>1, <4>2 DEF Kept, Torn
    <3> QED BY <1>1, <2>8, <3>1 DEF PackageInv, Edited
  <2>9. ASSUME NEW c \in Candidates \ {Selected}, Measured(saved, c) # {}
        PROVE  \E i \in Measured(saved, Selected), j \in Measured(saved, c) :
                 100 * Generation(i) <= 115 * Generation(j)
    <3>1. CASE AllWithin(saved)
      BY <2>5, <2>9, <3>1 DEF AllWithin, AcceptableRegret
    <3>2. CASE ~AllWithin(saved)
      <4>1. ~AllBeyond(saved)
        BY <2>5, <3>2 DEF Regret
      <4> QED BY <2>9, <4>1 DEF AllBeyond, AcceptableRegret
    <3> QED BY <3>1, <3>2
  <2> QED BY <2>6, <2>7, <2>8, <2>9
<1> QED BY <1>1, SweepInvariant, PackageInvariant, PTL
=============================================================================
