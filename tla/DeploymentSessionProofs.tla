---------------------- MODULE DeploymentSessionProofs -----------------------
(***************************************************************************)
(* Proofs about DeploymentSession, for every set of sessions, measured or  *)
(* not, every way in which they share plans, every number of stages and    *)
(* any number of restarts.                                                 *)
(***************************************************************************)
EXTENDS DeploymentSession, SequenceTheorems, TLAPS

\* No load of s for the worker w is under way.
NoLoad(s, w) == \A m \in wire : ~(m.type = "load" /\ m.s = s /\ m.w = w)

\* _loaded lists stages from the last one down.
Listed(q) ==
  /\ q \in Seq(Stages) /\ Len(q) <= StageCount
  /\ \A i \in DOMAIN q : q[i] = StageCount - i

\* The stages _loaded lists are those from this one up: they were appended from the
\* last to the driver and are removed from the driver on.
Lowest(s) == StageCount - Len(loaded[s])

\* The stages a session knows to be loaded, as Told() has it.
Knows(s, w) ==
  \/ at[s] \in {"loading", "open"} /\ w >= Lowest(s)
  \/ at[s] = "loading" /\ reply[s] = "ok" /\ w = index[s]

\* The session will see to it that its plan leaves w, or has lost track of that.
Claims(s, w) ==
  \/ Knows(s, w)
  \/ s \in unsettled
  \/ at[s] = "closing" /\ w >= Lowest(s) /\ ~(reply[s] = "ok" /\ w = Lowest(s))

\* What a session knows.  While it loads or is open, the stages it knows of carry its
\* plan or have lost it; once it is closing, no load is under way to a stage that it
\* does not list any more or has just been told is unloaded.
SessionInv(s) ==
  /\ Listed(loaded[s])
  /\ at[s] \in {"new", "checking", "closed"} => loaded[s] = <<>>
  /\ at[s] = "loading" => Lowest(s) = index[s] + 1
  /\ at[s] = "open" => Lowest(s) = 0
  /\ at[s] # "loading" /\ ~Unloading(s) => reply[s] = "none"
  /\ \A w \in Stages :
       /\ Knows(s, w) => OnOrLost(s, w)
       /\ at[s] \in {"closing", "closed"} /\ ~Claims(s, w) => NoLoad(s, w)

\* Somebody claims what is loaded.
ClaimInv ==
  \A w \in Stages : table[w] # None => \E s \in Sessions : plan[s] = table[w] /\ Claims(s, w)

\* What a call on the wire says about its session: it waits for this answer, or has
\* stopped waiting and is closing or closed.
MessageInv(m) ==
  /\ m.type = "load" /\ m.awaited =>
       at[m.s] = "loading" /\ reply[m.s] = "waiting" /\ m.w = index[m.s]
  /\ m.type = "load" /\ ~m.awaited => at[m.s] \in {"closing", "closed"}
  /\ m.type = "unload" => at[m.s] \in {"closing", "closed"}
  /\ m.type = "unload" /\ m.awaited =>
       at[m.s] = "closing" /\ loaded[m.s] # <<>> /\ reply[m.s] = "waiting" /\ m.w = Lowest(m.s)

Messages == [type : {"load", "unload"}, s : Sessions, w : Stages, awaited : BOOLEAN]

\* The types that the sessions' own invariant does not already give.
BaseType ==
  /\ plan \in [Sessions -> Plans]
  /\ at \in [Sessions -> {"new", "checking", "loading", "open", "closing", "closed"}]
  /\ index \in [Sessions -> Stages]
  /\ DOMAIN loaded = Sessions
  /\ reply \in [Sessions -> {"none", "waiting", "ok", "rejected", "refused"}]
  /\ overdue \subseteq Sessions /\ called \subseteq Sessions
  /\ wire \subseteq Messages
  /\ table \in [Stages -> Plans \cup {None}]
  /\ busy \in [Stages -> SUBSET Sessions]
  /\ restarts \in 0..MaxRestarts
  /\ restarted \subseteq Sessions \X Stages /\ taken \subseteq Sessions \X Stages
  /\ unsettled \subseteq Sessions

DeployInv ==
  /\ BaseType
  /\ \A s \in Sessions : SessionInv(s)
  /\ \A m \in wire : MessageInv(m)
  /\ ClaimInv

-----------------------------------------------------------------------------
(* Frames. *)

\* The stages are the numbers below StageCount.
LEMMA StageFacts ==
  /\ StageCount \in Nat \ {0} /\ 0 \in Stages /\ FirstStage \in Stages
  /\ \A w \in Stages : w \in Int /\ w >= 0 /\ w < StageCount
  /\ \A w \in Int : w >= 0 /\ w < StageCount => w \in Stages
BY SessionAssumption DEF Stages, FirstStage

\* The two ways to say which stages a session knows of agree.
LEMMA ToldKnows ==
  ASSUME NEW s, SessionInv(s), NEW w \in Stages
  PROVE  Told(s, w) <=> Knows(s, w)
<1>1. Listed(loaded[s]) /\ loaded[s] \in Seq(Stages) /\ Len(loaded[s]) \in Nat
      /\ DOMAIN loaded[s] = 1..Len(loaded[s]) /\ w \in Int /\ w < StageCount
  BY StageFacts DEF SessionInv, Listed
<1>2. ASSUME w >= Lowest(s) PROVE \E i \in DOMAIN loaded[s] : loaded[s][i] = w
  <2>1. StageCount - w \in 1..Len(loaded[s])
    BY <1>1, <1>2, StageFacts DEF Lowest
  <2>2. loaded[s][StageCount - w] = w
    BY <1>1, <2>1, StageFacts DEF Listed
  <2> QED BY <1>1, <2>1, <2>2
<1>3. ASSUME NEW i \in DOMAIN loaded[s], loaded[s][i] = w PROVE w >= Lowest(s)
  BY <1>1, <1>3, StageFacts DEF Listed, Lowest
<1> QED BY <1>2, <1>3 DEF Told, Knows

\* A step of somebody else leaves what a session knows true: the step takes the
\* session's plan off a worker only by writing this down, and adds no load of it.
LEMMA SessionFrame ==
  ASSUME NEW t \in Sessions, SessionInv(t), plan' = plan,
         at'[t] = at[t], index'[t] = index[t], loaded'[t] = loaded[t], reply'[t] = reply[t],
         \A w \in Stages : Knows(t, w) /\ table[w] = plan[t] => OnOrLost(t, w)',
         \A w \in Stages : <<t, w>> \in restarted => <<t, w>> \in restarted',
         \A w \in Stages : <<t, w>> \in taken => <<t, w>> \in taken',
         unsettled \subseteq unsettled',
         \A m \in wire' : m.s = t => m \in wire
  PROVE  SessionInv(t)' /\ \A w \in Stages : Claims(t, w) => Claims(t, w)'
<1>1. \A w \in Stages : NoLoad(t, w) => NoLoad(t, w)'
  BY DEF NoLoad
<1>2. Lowest(t)' = Lowest(t) /\ (Unloading(t)' <=> Unloading(t))
  BY DEF Lowest, Unloading
<1>3. \A w \in Stages : (Knows(t, w)' <=> Knows(t, w)) /\ (Claims(t, w) => Claims(t, w)')
  BY <1>2 DEF Knows, Claims
<1>4. ASSUME NEW w \in Stages, Knows(t, w) PROVE OnOrLost(t, w)'
  <2>1. OnOrLost(t, w)
    BY <1>4 DEF SessionInv
  <2> QED BY <1>4, <2>1 DEF OnOrLost, Shared
<1> QED
  BY <1>1, <1>2, <1>3, <1>4 DEF SessionInv

\* What a call on the wire says depends on its session alone.
LEMMA MessageFrame ==
  ASSUME NEW m, MessageInv(m), at'[m.s] = at[m.s], index'[m.s] = index[m.s],
         loaded'[m.s] = loaded[m.s], reply'[m.s] = reply[m.s]
  PROVE  MessageInv(m)'
BY DEF MessageInv, Lowest

\* What others claim or s claims, if s gives up no claim on what stays loaded, is
\* still claimed.
LEMMA ClaimFrame ==
  ASSUME BaseType, ClaimInv, plan' = plan, NEW s \in Sessions,
         \A t \in Sessions \ {s}, w \in Stages : Claims(t, w) => Claims(t, w)',
         \A w \in Stages : table'[w] # None =>
           \/ table'[w] = table[w] /\ (Claims(s, w) => Claims(s, w)')
           \/ table'[w] = plan[s] /\ Claims(s, w)'
  PROVE  ClaimInv'
<1> SUFFICES ASSUME NEW w \in Stages, table'[w] # None
             PROVE  \E t \in Sessions : plan'[t] = table'[w] /\ Claims(t, w)'
  BY DEF ClaimInv
<1>1. CASE table'[w] = plan[s] /\ Claims(s, w)'
  BY <1>1
<1>2. CASE table'[w] = table[w] /\ (Claims(s, w) => Claims(s, w)')
  <2>1. PICK t \in Sessions : plan[t] = table[w] /\ Claims(t, w)
    BY <1>2 DEF ClaimInv
  <2>2. Claims(t, w)'
    BY <1>2, <2>1
  <2> QED BY <1>2, <2>1, <2>2
<1> QED BY <1>1, <1>2

\* What a step of s leaves alone.
Own(s) ==
  /\ \A t \in Sessions \ {s} : /\ at'[t] = at[t] /\ index'[t] = index[t]
                               /\ loaded'[t] = loaded[t] /\ reply'[t] = reply[t]
                               /\ \A w \in Stages : /\ <<t, w>> \in restarted => <<t, w>> \in restarted'
                                                    /\ <<t, w>> \in taken => <<t, w>> \in taken'
  /\ plan' = plan /\ table' = table /\ unsettled \subseteq unsettled'

\* A step of the session s is a matter of s and its calls alone.
LEMMA OwnStep ==
  ASSUME DeployInv, NEW s \in Sessions, BaseType', SessionInv(s)', Own(s),
         \A w \in Stages : Claims(s, w) => Claims(s, w)',
         \A m \in wire' : m.s # s => m \in wire,
         \A m \in wire' : m.s = s => MessageInv(m)'
  PROVE  DeployInv'
<1>1. ASSUME NEW t \in Sessions, t # s
      PROVE  SessionInv(t)' /\ \A w \in Stages : Claims(t, w) => Claims(t, w)'
  <2>1. \A m \in wire' : m.s = t => m \in wire
    BY <1>1
  <2>2. \A w \in Stages : Knows(t, w) /\ table[w] = plan[t] => OnOrLost(t, w)'
    BY DEF Own, OnOrLost
  <2> QED
    BY <1>1, <2>1, <2>2, SessionFrame DEF DeployInv, Own
<1>2. ASSUME NEW m \in wire', m.s # s PROVE MessageInv(m)'
  <2>1. m \in wire /\ m.s \in Sessions
    BY <1>2 DEF DeployInv, BaseType, Messages
  <2> QED BY <1>2, <2>1, MessageFrame DEF DeployInv, Own
<1>3. ClaimInv'
  BY <1>1, ClaimFrame DEF DeployInv, Own
<1> QED
  BY <1>1, <1>2, <1>3 DEF DeployInv

\* A call that fails is lost or is not awaited any more; the calls of the others
\* stay as they are.
LEMMA FailsWire ==
  ASSUME BaseType, NEW s \in Sessions, Fails(s)
  PROVE  /\ wire' \subseteq Messages
         /\ \A m \in wire' : m.s # s => m \in wire
         /\ \A m \in wire' : m.s = s => /\ ~m.awaited
                                        /\ \E l \in wire : l.type = m.type /\ l.s = s /\ l.w = m.w
<1>1. wire \subseteq Messages
  BY DEF BaseType
<1>2. CASE wire' = {m \in wire : m.s # s \/ ~m.awaited}
  BY <1>1, <1>2
<1>3. CASE wire' = {[m EXCEPT !.awaited = @ /\ m.s # s] : m \in wire}
  <2>1. ASSUME NEW l \in wire
        PROVE  LET m == [l EXCEPT !.awaited = @ /\ l.s # s] IN
               /\ m \in Messages /\ m.s = l.s /\ m.type = l.type /\ m.w = l.w
               /\ m.s # s => m = l
               /\ m.s = s => ~m.awaited
    <3>1. l = [type |-> l.type, s |-> l.s, w |-> l.w, awaited |-> l.awaited]
          /\ l.type \in {"load", "unload"} /\ l.s \in Sessions /\ l.w \in Stages
          /\ l.awaited \in BOOLEAN
      BY <1>1 DEF Messages
    <3>2. CASE l.s = s
      BY <3>1, <3>2 DEF Messages
    <3>3. CASE l.s # s
      BY <3>1, <3>3 DEF Messages
    <3> QED BY <3>2, <3>3
  <2>2. ASSUME NEW m \in wire'
        PROVE  \E l \in wire : /\ m \in Messages /\ m.s = l.s /\ m.type = l.type /\ m.w = l.w
                               /\ m.s # s => m = l
                               /\ m.s = s => ~m.awaited
    <3>1. PICK l \in wire : m = [l EXCEPT !.awaited = @ /\ l.s # s]
      BY <1>3
    <3> QED BY <2>1, <3>1, Zenon
  <2> QED BY <2>2
<1> QED BY <1>2, <1>3 DEF Fails

\* At most one call of a session is awaited.
LEMMA OneAwaited ==
  ASSUME DeployInv, NEW m \in wire, NEW l \in wire, m.awaited, l.awaited, m.s = l.s
  PROVE  m = l
<1>1. /\ m = [type |-> m.type, s |-> m.s, w |-> m.w, awaited |-> m.awaited]
      /\ l = [type |-> l.type, s |-> l.s, w |-> l.w, awaited |-> l.awaited]
      /\ m.type \in {"load", "unload"} /\ l.type \in {"load", "unload"}
      /\ m.awaited \in BOOLEAN /\ l.awaited \in BOOLEAN
  BY DEF DeployInv, BaseType, Messages
<1>2. m.type = l.type /\ m.w = l.w
  BY <1>1 DEF DeployInv, MessageInv
<1> QED BY <1>1, <1>2

\* The next stage down is listed; the lowest one is taken off the list.
LEMMA ListFacts ==
  ASSUME NEW q, Listed(q)
  PROVE  /\ Len(q) \in Nat /\ (q = <<>> <=> Len(q) = 0)
         /\ q # <<>> => q[Len(q)] = StageCount - Len(q) /\ q[Len(q)] \in Stages
         /\ \A w \in Stages : w = StageCount - Len(q) - 1 =>
              Listed(Append(q, w)) /\ Len(Append(q, w)) = Len(q) + 1 /\ Append(q, w) # <<>>
         /\ q # <<>> => /\ Listed(SubSeq(q, 1, Len(q) - 1))
                        /\ Len(SubSeq(q, 1, Len(q) - 1)) = Len(q) - 1
<1> USE DEF Listed
<1>1. Len(q) \in Nat /\ (q = <<>> <=> Len(q) = 0) /\ DOMAIN q = 1..Len(q) /\ q \in Seq(Stages)
  BY EmptySeq
<1>2. q # <<>> => q[Len(q)] = StageCount - Len(q) /\ q[Len(q)] \in Stages
  BY <1>1
<1>3. ASSUME NEW w \in Stages, w = StageCount - Len(q) - 1
      PROVE  Listed(Append(q, w)) /\ Len(Append(q, w)) = Len(q) + 1 /\ Append(q, w) # <<>>
  <2> DEFINE p == Append(q, w)
  <2>1. /\ p \in Seq(Stages) /\ Len(p) = Len(q) + 1 /\ DOMAIN p = 1..(Len(q) + 1)
        /\ \A i \in 1..Len(q) : p[i] = q[i]
        /\ p[Len(q) + 1] = w /\ p # <<>>
    BY <1>1, AppendProperties
  <2>2. Len(p) <= StageCount
    BY <1>1, <1>3, <2>1, StageFacts
  <2> HIDE DEF p
  <2>3. \A i \in DOMAIN p : p[i] = StageCount - i
    BY <1>1, <1>3, <2>1, StageFacts
  <2> QED BY <2>1, <2>2, <2>3 DEF p
<1>4. ASSUME q # <<>>
      PROVE  /\ Listed(SubSeq(q, 1, Len(q) - 1))
             /\ Len(SubSeq(q, 1, Len(q) - 1)) = Len(q) - 1
  <2> DEFINE p == SubSeq(q, 1, Len(q) - 1)
  <2>1. /\ p \in Seq(Stages) /\ Len(p) = Len(q) - 1 /\ DOMAIN p = 1..(Len(q) - 1)
        /\ \A i \in 1..(Len(q) - 1) : p[i] = q[i]
    BY <1>1, <1>4, SubSeqProperties
  <2> QED BY <1>1, <2>1, StageFacts
<1> QED BY <1>1, <1>2, <1>3, <1>4

-----------------------------------------------------------------------------
(* Opening a session. *)

\* A session enters and checks the workers.
LEMMA EnterStep ==
  ASSUME DeployInv, NEW s \in Sessions, Enter(s) \/ Check(s)
  PROVE  DeployInv'
<1> USE DEF Go, worker, history
<1>1. SessionInv(s) /\ at[s] \in {"new", "checking"} /\ loaded[s] = <<>> /\ reply[s] = "none"
  BY DEF DeployInv, SessionInv, Enter, Check, Unloading
<1>2. \A m \in wire : m.s # s
  BY <1>1 DEF DeployInv, MessageInv, BaseType, Messages
<1>3. UNCHANGED <<plan, loaded, reply, overdue, called, wire, worker, history>>
  BY DEF Enter, Check
<1>4. \/ at'[s] = "checking" \/ at'[s] = "closing"
      \/ at'[s] = "loading" /\ index'[s] = FirstStage
  BY DEF Enter, Check, DeployInv, BaseType
<1>5. BaseType'
  <2>1. index'[s] \in Stages /\ index' = [index EXCEPT ![s] = index'[s]]
    BY StageFacts DEF Enter, Check, DeployInv, BaseType, FirstStage
  <2>2. at' = [at EXCEPT ![s] = at'[s]]
    BY DEF Enter, Check, DeployInv, BaseType
  <2> QED BY <1>3, <1>4, <2>1, <2>2 DEF DeployInv, BaseType
<1>6. Lowest(s)' = StageCount /\ Lowest(s) = StageCount
  BY <1>1, <1>3, StageFacts DEF Lowest
<1>7. \A w \in Stages : NoLoad(s, w)' /\ ~Knows(s, w)' /\ (Claims(s, w) => Claims(s, w)')
  BY <1>1, <1>2, <1>3, <1>4, <1>6, StageFacts DEF NoLoad, Knows, Claims
<1>8. SessionInv(s)'
  BY <1>1, <1>3, <1>4, <1>6, <1>7, StageFacts DEF SessionInv, FirstStage
<1>9. Own(s)
  BY <1>3 DEF Own, Enter, Check, DeployInv, BaseType
<1> QED
  BY <1>2, <1>3, <1>5, <1>7, <1>8, <1>9, OwnStep

\* A load is sent.
LEMMA SendLoadStep ==
  ASSUME DeployInv, NEW s \in Sessions, SendLoad(s)
  PROVE  DeployInv'
<1> USE DEF worker, history
<1>1. /\ SessionInv(s) /\ at[s] = "loading" /\ reply[s] = "none" /\ index[s] \in Stages
      /\ wire' = wire \cup {Call("load", s, index[s])}
      /\ reply' = [reply EXCEPT ![s] = "waiting"]
      /\ UNCHANGED <<plan, at, index, loaded, overdue, called, worker, history>>
  BY DEF DeployInv, BaseType, SendLoad
<1>2. /\ Call("load", s, index[s]) \in Messages
      /\ Call("load", s, index[s]).s = s /\ Call("load", s, index[s]).w = index[s]
      /\ Call("load", s, index[s]).awaited /\ Call("load", s, index[s]).type = "load"
  BY <1>1 DEF Call, Messages
<1>3. BaseType'
  BY <1>1, <1>2 DEF DeployInv, BaseType
<1>4. Lowest(s)' = Lowest(s) /\ reply'[s] = "waiting"
  BY <1>1 DEF Lowest, DeployInv, BaseType
<1>4a. \A w \in Stages : (Knows(s, w)' => Knows(s, w)) /\ (Claims(s, w) => Claims(s, w)')
  BY <1>1, <1>4 DEF Knows, Claims
<1>4b. \A w \in Stages : OnOrLost(s, w) => OnOrLost(s, w)'
  BY <1>1 DEF OnOrLost, Shared
<1>4c. SessionInv(s)'
  BY <1>1, <1>4, <1>4a, <1>4b DEF SessionInv
<1>5. ASSUME NEW m \in wire', m.s = s PROVE MessageInv(m)'
  <2>1. CASE m \in wire
    <3>1. MessageInv(m) /\ m.type \in {"load", "unload"} /\ m.awaited \in BOOLEAN
      BY <2>1 DEF DeployInv, BaseType, Messages
    <3> QED BY <1>1, <1>5, <3>1 DEF MessageInv
  <2>2. CASE m = Call("load", s, index[s])
    BY <1>1, <1>2, <2>2 DEF MessageInv, DeployInv, BaseType
  <2> QED BY <1>1, <2>1, <2>2
<1>6. \A m \in wire' : m.s # s => m \in wire
  BY <1>1, <1>2
<1>7. Own(s)
  BY <1>1 DEF Own, DeployInv, BaseType
<1> QED
  BY <1>3, <1>4a, <1>4c, <1>5, <1>6, <1>7, OwnStep

\* While the answer to its load is in, a loading session has no call on the wire.
LEMMA LoadAnswered ==
  ASSUME DeployInv, NEW s \in Sessions, at[s] \in {"loading", "open"}, reply[s] # "waiting"
  PROVE  \A m \in wire : m.s # s
BY DEF DeployInv, MessageInv, BaseType, Messages

\* The reply to a load: the stage is listed, the next is loaded or the session opens.
LEMMA LoadAcceptedStep ==
  ASSUME DeployInv, NEW s \in Sessions, LoadAccepted(s)
  PROVE  DeployInv'
<1> USE DEF worker, history, Go
<1>1. /\ SessionInv(s) /\ at[s] = "loading" /\ reply[s] = "ok" /\ index[s] \in Stages
      /\ reply' = [reply EXCEPT ![s] = "none"]
      /\ loaded' = [loaded EXCEPT ![s] = Append(loaded[s], index[s])]
      /\ UNCHANGED <<plan, overdue, called, wire, worker, history>>
  BY DEF DeployInv, BaseType, LoadAccepted
<1>2. \/ index[s] = 0 /\ at' = [at EXCEPT ![s] = "open"] /\ index' = index
      \/ index[s] # 0 /\ at' = at /\ index' = [index EXCEPT ![s] = index[s] - 1]
  BY DEF LoadAccepted, LastStage
<1>3. index[s] = StageCount - Len(loaded[s]) - 1 /\ Listed(loaded[s]) /\ Len(loaded[s]) \in Nat
  BY <1>1, StageFacts, ListFacts DEF SessionInv, Lowest
<1>4. /\ Listed(Append(loaded[s], index[s]))
      /\ Len(Append(loaded[s], index[s])) = Len(loaded[s]) + 1
  BY <1>1, <1>3, ListFacts
<1>5. DOMAIN loaded = Sessions
  BY DEF DeployInv, BaseType
<1>6. /\ Listed(loaded'[s]) /\ Lowest(s)' = index[s] /\ Lowest(s) = index[s] + 1
      /\ reply'[s] = "none"
  BY <1>1, <1>3, <1>4, <1>5, StageFacts DEF Lowest, DeployInv, BaseType
<1>7. BaseType'
  <2>1. index[s] # 0 => index[s] - 1 \in Stages
    BY <1>1, StageFacts
  <2> QED BY <1>1, <1>2, <2>1 DEF DeployInv, BaseType
<1>8. \/ index[s] = 0 /\ at'[s] = "open" /\ index'[s] = 0
      \/ index[s] # 0 /\ at'[s] = "loading" /\ index'[s] = index[s] - 1
  BY <1>1, <1>2 DEF DeployInv, BaseType
<1>9. \A w \in Stages : (Knows(s, w)' <=> Knows(s, w)) /\ (Claims(s, w) => Claims(s, w)')
  <2>1. \A w \in Stages : Knows(s, w)' <=> Knows(s, w)
    BY <1>1, <1>6, <1>8, StageFacts DEF Knows
  <2> QED BY <1>1, <2>1 DEF Claims
<1>9a. \A w \in Stages : OnOrLost(s, w) => OnOrLost(s, w)'
  BY <1>1 DEF OnOrLost, Shared
<1>9b. SessionInv(s)'
  BY <1>1, <1>6, <1>8, <1>9, <1>9a, StageFacts DEF SessionInv
<1>10. \A m \in wire' : m.s # s
  BY <1>1, LoadAnswered
<1>11. Own(s)
  BY <1>1, <1>2 DEF Own, DeployInv, BaseType
<1> QED
  BY <1>1, <1>7, <1>9, <1>9b, <1>10, <1>11, OwnStep

\* A rejected load: the session closes.
LEMMA LoadRejectedStep ==
  ASSUME DeployInv, NEW s \in Sessions, LoadRejected(s)
  PROVE  DeployInv'
<1> USE DEF worker, Go
<1>1. /\ SessionInv(s) /\ at[s] = "loading" /\ reply[s] = "rejected" /\ index[s] \in Stages
      /\ reply' = [reply EXCEPT ![s] = "none"] /\ at' = [at EXCEPT ![s] = "closing"]
      /\ UNCHANGED <<plan, index, loaded, overdue, called, wire, worker, restarts, unsettled>>
      /\ BeginClosing(s)
  BY DEF DeployInv, BaseType, LoadRejected, BeginClosing
<1>2. \A m \in wire' : m.s # s
  BY <1>1, LoadAnswered
<1>3. BaseType'
  BY <1>1 DEF BeginClosing, DeployInv, BaseType
<1>4. Lowest(s)' = Lowest(s) /\ at'[s] = "closing" /\ reply'[s] = "none"
  BY <1>1 DEF Lowest, DeployInv, BaseType
<1>5. \A w \in Stages : NoLoad(s, w)' /\ ~Knows(s, w)' /\ (Claims(s, w) => Claims(s, w)')
  BY <1>1, <1>2, <1>4 DEF NoLoad, Knows, Claims
<1>6. SessionInv(s)'
  BY <1>1, <1>4, <1>5 DEF SessionInv
<1>7. Own(s)
  BY <1>1 DEF Own, BeginClosing, DeployInv, BaseType
<1> QED
  BY <1>1, <1>2, <1>3, <1>5, <1>6, <1>7, OwnStep

\* A load without an answer: the stage is listed all the same, and the session closes.
LEMMA LoadLostStep ==
  ASSUME DeployInv, NEW s \in Sessions, LoadLost(s)
  PROVE  DeployInv'
<1> USE DEF worker, Go
<1>1. /\ SessionInv(s) /\ at[s] = "loading" /\ index[s] \in Stages /\ Fails(s)
      /\ reply' = [reply EXCEPT ![s] = "none"] /\ at' = [at EXCEPT ![s] = "closing"]
      /\ loaded' = [loaded EXCEPT ![s] = Append(loaded[s], index[s])]
      /\ UNCHANGED <<plan, index, overdue, called, worker, restarts, unsettled>>
      /\ BeginClosing(s)
  BY DEF DeployInv, BaseType, LoadLost, Fails, BeginClosing
<1>2. /\ wire' \subseteq Messages
      /\ \A m \in wire' : m.s # s => m \in wire
      /\ \A m \in wire' : m.s = s => /\ ~m.awaited
                                     /\ \E l \in wire : l.type = m.type /\ l.s = s /\ l.w = m.w
  BY <1>1, FailsWire DEF DeployInv
<1>3. ASSUME NEW l \in wire, l.s = s PROVE l.type = "load" /\ l.w = index[s]
  BY <1>1, <1>3 DEF DeployInv, BaseType, Messages, MessageInv
<1>4. index[s] = StageCount - Len(loaded[s]) - 1 /\ Listed(loaded[s]) /\ Len(loaded[s]) \in Nat
  BY <1>1, StageFacts, ListFacts DEF SessionInv, Lowest
<1>5. /\ Listed(Append(loaded[s], index[s]))
      /\ Len(Append(loaded[s], index[s])) = Len(loaded[s]) + 1
      /\ Append(loaded[s], index[s]) # <<>>
  BY <1>1, <1>4, ListFacts
<1>6. DOMAIN loaded = Sessions
  BY DEF DeployInv, BaseType
<1>7. /\ Listed(loaded'[s]) /\ Lowest(s)' = index[s] /\ Lowest(s) = index[s] + 1
      /\ reply'[s] = "none" /\ at'[s] = "closing"
  BY <1>1, <1>4, <1>5, <1>6, StageFacts DEF Lowest, DeployInv, BaseType
<1>8. BaseType'
  BY <1>1, <1>2 DEF BeginClosing, DeployInv, BaseType
<1>9. \A w \in Stages : w \in Int /\ (w < index[s] => NoLoad(s, w)')
  <2>1. \A m \in wire' : m.s = s => m.w = index[s]
    BY <1>2, <1>3
  <2> QED BY <1>1, <2>1, StageFacts DEF NoLoad
<1>9a. \A w \in Stages : ~Knows(s, w)' /\ (Claims(s, w) => Claims(s, w)')
                       /\ (~Claims(s, w)' => NoLoad(s, w)')
  BY <1>1, <1>7, <1>9, StageFacts DEF Knows, Claims
<1>10. SessionInv(s)'
  BY <1>1, <1>7, <1>9a DEF SessionInv
<1>11. ASSUME NEW m \in wire', m.s = s PROVE MessageInv(m)'
  BY <1>2, <1>3, <1>7, <1>11 DEF MessageInv
<1>12. Own(s)
  BY <1>1 DEF Own, BeginClosing, DeployInv, BaseType
<1> QED
  BY <1>2, <1>8, <1>9a, <1>10, <1>11, <1>12, OwnStep

-----------------------------------------------------------------------------
(* Using and closing it. *)

\* An open session generates.
LEMMA GenerateStep ==
  ASSUME DeployInv, NEW s \in Sessions, Generate(s) \/ Overdue(s)
  PROVE  DeployInv'
<1> USE DEF worker, history
<1>1. UNCHANGED <<plan, at, index, loaded, reply, wire, worker, history>>
  BY DEF Generate, Overdue
<1>2. BaseType'
  BY <1>1 DEF Generate, Overdue, DeployInv, BaseType
<1>3. SessionInv(s)' /\ \A w \in Stages : Claims(s, w) => Claims(s, w)'
  <2>1. \A w \in Stages : table[w] = plan[s] => OnOrLost(s, w)'
    BY <1>1 DEF OnOrLost
  <2> QED BY <1>1, <2>1, SessionFrame DEF DeployInv
<1>4. \A m \in wire' : m.s = s => MessageInv(m)'
  BY <1>1, MessageFrame DEF DeployInv
<1>5. Own(s)
  BY <1>1 DEF Own
<1> QED
  BY <1>1, <1>2, <1>3, <1>4, <1>5, OwnStep

\* The session begins to close.
LEMMA CloseStep ==
  ASSUME DeployInv, NEW s \in Sessions, Close(s)
  PROVE  DeployInv'
<1> USE DEF worker, Go
<1>1. /\ SessionInv(s) /\ at[s] = "open" /\ at' = [at EXCEPT ![s] = "closing"]
      /\ UNCHANGED <<plan, index, loaded, reply, overdue, called, wire, worker, restarts, unsettled>>
      /\ BeginClosing(s)
  BY DEF DeployInv, Close, BeginClosing
<1>2. reply[s] = "none" /\ Lowest(s) = 0 /\ Lowest(s)' = 0
  BY <1>1 DEF SessionInv, Unloading, Lowest
<1>3. \A m \in wire' : m.s # s
  BY <1>1, <1>2, LoadAnswered
<1>4. BaseType' /\ at'[s] = "closing"
  BY <1>1 DEF BeginClosing, DeployInv, BaseType
<1>4a. \A w \in Stages : ~Knows(s, w)' /\ Claims(s, w)'
  BY <1>1, <1>2, <1>4, StageFacts DEF Knows, Claims
<1>5. SessionInv(s)'
  BY <1>1, <1>2, <1>4, <1>4a, StageFacts DEF SessionInv
<1>6. Own(s)
  BY <1>1 DEF Own, BeginClosing, DeployInv, BaseType
<1> QED
  BY <1>1, <1>3, <1>4, <1>4a, <1>5, <1>6, OwnStep

\* The stage a closing session is busy with is the lowest it lists.
LEMMA CurrentIsLowest ==
  ASSUME NEW s, SessionInv(s), Unloading(s)
  PROVE  /\ at[s] = "closing" /\ loaded[s] # <<>> /\ Listed(loaded[s])
         /\ Len(loaded[s]) \in Nat \ {0}
         /\ Current(s) = Lowest(s) /\ Lowest(s) \in Stages
<1>1. at[s] = "closing" /\ loaded[s] # <<>> /\ Listed(loaded[s])
  BY DEF SessionInv, Unloading
<1> QED
  BY <1>1, ListFacts DEF Current, Lowest

\* An unload is sent, or sent again.
LEMMA SendUnloadStep ==
  ASSUME DeployInv, NEW s \in Sessions, SendUnload(s)
  PROVE  DeployInv'
<1> USE DEF worker, history
<1>1. /\ SessionInv(s) /\ Unloading(s) /\ reply[s] = "none"
      /\ wire' = wire \cup {Call("unload", s, Current(s))}
      /\ reply' = [reply EXCEPT ![s] = "waiting"]
      /\ UNCHANGED <<plan, at, index, loaded, overdue, called, worker, history>>
  BY DEF DeployInv, SendUnload
<1>2. at[s] = "closing" /\ loaded[s] # <<>> /\ Current(s) = Lowest(s) /\ Lowest(s) \in Stages
  BY <1>1, CurrentIsLowest
<1>3. /\ Call("unload", s, Current(s)) \in Messages
      /\ Call("unload", s, Current(s)).s = s /\ Call("unload", s, Current(s)).w = Lowest(s)
      /\ Call("unload", s, Current(s)).awaited /\ Call("unload", s, Current(s)).type = "unload"
  BY <1>2 DEF Call, Messages
<1>4. BaseType' /\ reply'[s] = "waiting"
  BY <1>1, <1>3 DEF DeployInv, BaseType
<1>5. Lowest(s)' = Lowest(s) /\ Unloading(s)'
  BY <1>1 DEF Lowest, Unloading
<1>6. \A w \in Stages : /\ NoLoad(s, w) => NoLoad(s, w)'
                        /\ ~Knows(s, w)' /\ (Claims(s, w) <=> Claims(s, w)')
  BY <1>1, <1>2, <1>3, <1>4, <1>5 DEF NoLoad, Knows, Claims
<1>7. SessionInv(s)'
  BY <1>1, <1>2, <1>4, <1>5, <1>6 DEF SessionInv
<1>8. ASSUME NEW m \in wire', m.s = s PROVE MessageInv(m)'
  <2>1. CASE m \in wire
    <3>1. MessageInv(m) /\ m.type \in {"load", "unload"} /\ m.awaited \in BOOLEAN
      BY <2>1 DEF DeployInv, BaseType, Messages
    <3> QED BY <1>1, <1>2, <1>8, <3>1 DEF MessageInv
  <2>2. CASE m = Call("unload", s, Current(s))
    BY <1>1, <1>2, <1>3, <1>4, <1>5, <2>2 DEF MessageInv
  <2> QED BY <1>1, <2>1, <2>2
<1>9. \A m \in wire' : m.s # s => m \in wire
  BY <1>1, <1>3
<1>10. Own(s)
  BY <1>1 DEF Own, DeployInv, BaseType
<1> QED
  BY <1>4, <1>6, <1>7, <1>8, <1>9, <1>10, OwnStep

\* On to the next stage: either the last one is unloaded, or the session
\* has given up on it.
LEMMA ProceedStep ==
  ASSUME DeployInv, NEW s \in Sessions, Unloading(s), Proceed(s),
         reply' = [reply EXCEPT ![s] = "none"],
         UNCHANGED <<plan, at, index, called, worker, restarts, restarted, taken>>,
         \/ reply[s] = "ok" /\ unsettled' = unsettled
         \/ unsettled' = unsettled \cup {s},
         wire' \subseteq Messages,
         \A m \in wire' : m.s # s => m \in wire,
         \A m \in wire' : m.s = s =>
           ~m.awaited /\ \E l \in wire : l.type = m.type /\ l.s = s /\ l.w = m.w
  PROVE  DeployInv'
<1> USE DEF worker
<1>1. /\ SessionInv(s) /\ at[s] = "closing" /\ loaded[s] # <<>> /\ Listed(loaded[s])
      /\ Len(loaded[s]) \in Nat \ {0}
  BY CurrentIsLowest DEF DeployInv
<1>2. loaded' = [loaded EXCEPT ![s] = SubSeq(loaded[s], 1, Len(loaded[s]) - 1)]
      /\ overdue' = overdue \ {s}
  BY DEF Proceed
<1>3. BaseType' /\ reply'[s] = "none" /\ at'[s] = "closing"
  BY <1>1, <1>2 DEF DeployInv, BaseType
<1>4. /\ Listed(SubSeq(loaded[s], 1, Len(loaded[s]) - 1))
      /\ Len(SubSeq(loaded[s], 1, Len(loaded[s]) - 1)) = Len(loaded[s]) - 1
  BY <1>1, ListFacts
<1>5. Listed(loaded'[s]) /\ Lowest(s)' = Lowest(s) + 1 /\ Lowest(s) \in Int
  <2>1. loaded'[s] = SubSeq(loaded[s], 1, Len(loaded[s]) - 1)
    BY <1>2 DEF DeployInv, BaseType
  <2>2. Listed(loaded'[s]) /\ Len(loaded'[s]) = Len(loaded[s]) - 1
    BY <1>4, <2>1
  <2> QED BY <1>1, <2>2, StageFacts DEF Lowest
<1>6. \A w \in Stages : /\ ~Knows(s, w)' /\ (Claims(s, w) => Claims(s, w)')
                        /\ ~Claims(s, w)' => ~Claims(s, w) /\ NoLoad(s, w)'
  <2>1. ASSUME NEW w \in Stages
        PROVE  ~Knows(s, w) /\ ~Knows(s, w)' /\ (s \in unsettled' \/ (Claims(s, w) <=> Claims(s, w)'))
    BY <1>1, <1>3, <1>5, StageFacts DEF Knows, Claims
  <2>2. ASSUME NEW w \in Stages, s \in unsettled' PROVE Claims(s, w)'
    BY <2>2 DEF Claims
  <2>3. ASSUME NEW w \in Stages, ~Claims(s, w) PROVE NoLoad(s, w)'
    <3>1. NoLoad(s, w)
      BY <1>1, <2>3 DEF SessionInv
    <3> QED BY <3>1 DEF NoLoad
  <2> QED BY <2>1, <2>2, <2>3
<1>7. SessionInv(s)'
  BY <1>3, <1>5, <1>6 DEF SessionInv
<1>8. ASSUME NEW m \in wire', m.s = s PROVE MessageInv(m)'
  BY <1>3, <1>8 DEF MessageInv
<1>9. Own(s)
  <2>1. unsettled \subseteq unsettled'
    OBVIOUS
  <2> QED BY <1>2, <2>1 DEF Own, DeployInv, BaseType
<1> QED
  BY <1>3, <1>6, <1>7, <1>8, <1>9, OwnStep

\* A session that is not waiting has no awaited call.
LEMMA NoneAwaited ==
  ASSUME DeployInv, NEW s \in Sessions, reply[s] # "waiting"
  PROVE  \A m \in wire : m.s = s => ~m.awaited
BY DEF DeployInv, MessageInv, BaseType, Messages

\* An unload was answered.
LEMMA UnloadedStep ==
  ASSUME DeployInv, NEW s \in Sessions, Unloaded(s) \/ UnloadRefused(s) \/ UnloadLost(s)
  PROVE  DeployInv'
<1> USE DEF worker, history
<1>1. CASE Unloaded(s)
  <2>1. \A m \in wire' : m.s = s => ~m.awaited
    BY <1>1, NoneAwaited DEF Unloaded
  <2> QED BY <1>1, <2>1, ProceedStep DEF Unloaded, DeployInv, BaseType
<1>2. CASE UnloadRefused(s) /\ OutOfTime(s)
  <2>1. \A m \in wire' : m.s = s => ~m.awaited
    BY <1>2, NoneAwaited DEF UnloadRefused
  <2> QED BY <1>2, <2>1, ProceedStep DEF UnloadRefused, DeployInv, BaseType
<1>3. CASE UnloadRefused(s) /\ ~OutOfTime(s)
  <2>1. /\ SessionInv(s) /\ Unloading(s) /\ reply[s] = "refused"
        /\ reply' = [reply EXCEPT ![s] = "none"]
        /\ UNCHANGED <<plan, at, index, loaded, overdue, called, wire, worker, history>>
    BY <1>3 DEF UnloadRefused, DeployInv
  <2>2. BaseType' /\ reply'[s] = "none"
    BY <2>1 DEF DeployInv, BaseType
  <2>3. Lowest(s)' = Lowest(s) /\ Unloading(s)' /\ at[s] = "closing"
    BY <2>1 DEF Lowest, Unloading
  <2>4. \A w \in Stages : /\ NoLoad(s, w) => NoLoad(s, w)'
                          /\ ~Knows(s, w)' /\ (Claims(s, w) <=> Claims(s, w)')
    BY <2>1, <2>2, <2>3 DEF NoLoad, Knows, Claims
  <2>5. SessionInv(s)'
    BY <2>1, <2>2, <2>3, <2>4 DEF SessionInv
  <2>6. ASSUME NEW m \in wire', m.s = s PROVE MessageInv(m)'
    <3>1. m \in wire /\ MessageInv(m) /\ ~m.awaited
      BY <2>1, <2>6, NoneAwaited DEF DeployInv
    <3> QED BY <2>1, <2>6, <3>1 DEF MessageInv
  <2>7. Own(s)
    BY <2>1 DEF Own, DeployInv, BaseType
  <2> QED BY <2>1, <2>2, <2>4, <2>5, <2>6, <2>7, OwnStep
<1>4. CASE UnloadLost(s)
  <2>1. Fails(s) /\ reply' = [reply EXCEPT ![s] = "none"]
    BY <1>4 DEF UnloadLost, Fails
  <2>2. /\ wire' \subseteq Messages
        /\ \A m \in wire' : m.s # s => m \in wire
        /\ \A m \in wire' : m.s = s => /\ ~m.awaited
                                       /\ \E l \in wire : l.type = m.type /\ l.s = s /\ l.w = m.w
    BY <2>1, FailsWire DEF DeployInv
  <2> QED BY <1>4, <2>1, <2>2, ProceedStep DEF UnloadLost
<1> QED BY <1>1, <1>2, <1>3, <1>4

\* Nothing is left to unload.
LEMMA ClosedStep ==
  ASSUME DeployInv, NEW s \in Sessions, Closed(s)
  PROVE  DeployInv'
<1> USE DEF worker, history, Go
<1>1. /\ SessionInv(s) /\ at[s] = "closing" /\ loaded[s] = <<>>
      /\ at' = [at EXCEPT ![s] = "closed"]
      /\ UNCHANGED <<plan, index, loaded, reply, overdue, called, wire, worker, history>>
  BY DEF DeployInv, Closed
<1>2. reply[s] = "none"
  BY <1>1 DEF SessionInv, Unloading
<1>3. BaseType' /\ at'[s] = "closed"
  BY <1>1 DEF DeployInv, BaseType
<1>4. Lowest(s)' = Lowest(s) /\ Lowest(s) = StageCount
  BY <1>1, StageFacts DEF Lowest
<1>5. \A w \in Stages : /\ NoLoad(s, w) => NoLoad(s, w)'
                        /\ ~Knows(s, w)' /\ (Claims(s, w) <=> Claims(s, w)')
  BY <1>1, <1>3, <1>4, StageFacts DEF NoLoad, Knows, Claims
<1>6. SessionInv(s)'
  BY <1>1, <1>2, <1>3, <1>4, <1>5 DEF SessionInv
<1>7. ASSUME NEW m \in wire', m.s = s PROVE MessageInv(m)'
  <2>1. MessageInv(m) /\ ~m.awaited
    BY <1>1, <1>2, <1>7, NoneAwaited DEF DeployInv
  <2> QED BY <1>3, <1>7, <2>1 DEF MessageInv
<1>8. Own(s)
  BY <1>1 DEF Own, DeployInv, BaseType
<1> QED
  BY <1>1, <1>3, <1>5, <1>6, <1>7, <1>8, OwnStep

-----------------------------------------------------------------------------
(* The workers. *)

\* A session knows what is on a worker it is a holder of, and nobody else does.
LEMMA HolderFacts ==
  ASSUME DeployInv, NEW w \in Stages
  PROVE  \A t \in Sessions : t \in Holders(w) <=> plan[t] = table[w] /\ Knows(t, w)
BY ToldKnows DEF Holders, DeployInv

\* A worker has handled the call m of the session m.s, which hears of it if it still
\* waits.  If this takes the plan off the worker, the sessions that counted on it are
\* written down; if it puts the plan there, m.s answers for it.
LEMMA HandledStep ==
  ASSUME DeployInv, NEW m \in wire, NEW what \in {"ok", "rejected", "refused"},
         Answer(m, what), table' \in [Stages -> Plans \cup {None}],
         SessionInv(m.s)', UNCHANGED <<busy, restarts, restarted>>,
         taken' \subseteq Sessions \X Stages, taken \subseteq taken',
         unsettled' \subseteq Sessions, unsettled \subseteq unsettled',
         \A w \in Stages, t \in Sessions \ {m.s} :
           Knows(t, w) /\ table[w] = plan[t] => OnOrLost(t, w)',
         \A w \in Stages : table'[w] # None =>
           \/ table'[w] = table[w] /\ (Claims(m.s, w) => Claims(m.s, w)')
           \/ table'[w] = plan[m.s] /\ Claims(m.s, w)'
  PROVE  DeployInv'
<1>1. /\ m.s \in Sessions /\ wire' \subseteq wire
      /\ UNCHANGED <<plan, at, index, loaded, overdue, called>>
  BY DEF DeployInv, BaseType, Messages, Answer
<1>2. reply' = IF m.awaited THEN [reply EXCEPT ![m.s] = what] ELSE reply
  BY DEF Answer
<1>3. \A t \in Sessions \ {m.s} : reply'[t] = reply[t]
  BY <1>2 DEF DeployInv, BaseType
<1>4. BaseType'
  BY <1>1, <1>2 DEF DeployInv, BaseType
<1>5. ASSUME NEW t \in Sessions, t # m.s
      PROVE  SessionInv(t)' /\ \A w \in Stages : Claims(t, w) => Claims(t, w)'
  <2>1. \A l \in wire' : l.s = t => l \in wire
    BY <1>1
  <2> QED
    BY <1>1, <1>3, <1>5, <2>1, SessionFrame DEF DeployInv
<1>6. ASSUME NEW l \in wire' PROVE MessageInv(l)'
  <2>1. l \in wire /\ l # m /\ l.s \in Sessions /\ MessageInv(l) /\ l.awaited \in BOOLEAN
    BY <1>1 DEF Answer, DeployInv, BaseType, Messages
  <2>2. CASE l.s # m.s \/ ~m.awaited
    <3>1. reply'[l.s] = reply[l.s]
      BY <1>2, <1>3, <2>1, <2>2
    <3> QED BY <1>1, <2>1, <3>1, MessageFrame
  <2>3. CASE l.s = m.s /\ m.awaited
    <3>1. ~l.awaited
      BY <2>1, <2>3, OneAwaited
    <3> QED BY <1>1, <2>1, <3>1 DEF MessageInv
  <2> QED BY <2>2, <2>3
<1>7. ClaimInv'
  BY <1>1, <1>5, ClaimFrame DEF DeployInv
<1> QED
  BY <1>4, <1>5, <1>6, <1>7 DEF DeployInv

\* A worker handles a load: the session of the call knows of the stage if it still
\* waits, and will unload it otherwise.
LEMMA HandleLoadStep ==
  ASSUME DeployInv, NEW m \in wire, HandleLoad(m)
  PROVE  DeployInv'
<1>1. PICK s \in Sessions : s = m.s
  BY DEF DeployInv, BaseType, Messages
<1>2. /\ m.w \in Stages /\ m.awaited \in BOOLEAN /\ m.type = "load"
      /\ SessionInv(s) /\ MessageInv(m) /\ table \in [Stages -> Plans \cup {None}]
      /\ reply \in [Sessions -> {"none", "waiting", "ok", "rejected", "refused"}]
      /\ plan[s] \in Plans
  BY <1>1 DEF HandleLoad, DeployInv, BaseType, Messages
<1>3. PICK what \in {"ok", "rejected"} :
        /\ Answer(m, what)
        /\ what = "ok" => table' = [table EXCEPT ![m.w] = plan[s]] /\ table[m.w] \in {plan[s], None}
        /\ what = "rejected" => table' = table
  <2>1. table[m.w] = plan[s] => table = [table EXCEPT ![m.w] = plan[s]]
    BY <1>2
  <2> QED BY <1>1, <2>1 DEF HandleLoad
<1>4. UNCHANGED <<busy, restarts, restarted, taken, unsettled, plan, at, index, loaded>>
      /\ wire' = wire \ {m}
      /\ reply'[s] = IF m.awaited THEN what ELSE reply[s]
  BY <1>1, <1>2, <1>3 DEF HandleLoad, Answer, history
<1>5. Lowest(s)' = Lowest(s) /\ (Unloading(s)' <=> Unloading(s))
  BY <1>4 DEF Lowest, Unloading
<1>6. ASSUME NEW t \in Sessions, NEW w \in Stages, OnOrLost(t, w) PROVE OnOrLost(t, w)'
  <2>1. table[w] = plan[t] => table'[w] = plan[t]
    BY <1>2, <1>3, SessionAssumption DEF DeployInv, BaseType
  <2> QED BY <1>4, <1>6, <2>1 DEF OnOrLost, Shared
<1>7. CASE m.awaited
  <2>1. at[s] = "loading" /\ m.w = index[s] /\ reply'[s] = what /\ reply[s] = "waiting"
    BY <1>1, <1>2, <1>4, <1>7 DEF MessageInv
  <2>2. \A w \in Stages : Knows(s, w)' <=> Knows(s, w) \/ (what = "ok" /\ w = m.w)
    BY <1>4, <1>5, <2>1 DEF Knows
  <2>3. what = "ok" => OnOrLost(s, m.w)'
    BY <1>2, <1>3, <1>4 DEF OnOrLost
  <2>4. SessionInv(s)'
    BY <1>2, <1>4, <1>5, <1>6, <2>1, <2>2, <2>3 DEF SessionInv
  <2>5. ASSUME NEW w \in Stages
        PROVE  \/ table'[w] = table[w] /\ (Claims(s, w) => Claims(s, w)')
               \/ table'[w] = plan[s] /\ Claims(s, w)'
    <3>1. Claims(s, w) => Claims(s, w)'
      BY <1>4, <2>1, <2>2 DEF Claims
    <3>2. what = "ok" /\ w = m.w => Claims(s, w)'
      BY <2>2 DEF Claims
    <3> QED BY <1>2, <1>3, <3>1, <3>2
  <2> QED
    BY <1>1, <1>2, <1>3, <1>4, <1>6, <2>4, <2>5, HandledStep DEF DeployInv, BaseType, OnOrLost
<1>8. CASE ~m.awaited
  <2>1. at[s] \in {"closing", "closed"} /\ reply'[s] = reply[s]
    BY <1>1, <1>2, <1>4, <1>8 DEF MessageInv
  <2>2. \A w \in Stages : /\ NoLoad(s, w) => NoLoad(s, w)'
                          /\ ~Knows(s, w)' /\ (Claims(s, w) <=> Claims(s, w)')
    BY <1>4, <1>5, <2>1 DEF NoLoad, Knows, Claims
  <2>3. SessionInv(s)'
    BY <1>2, <1>4, <1>5, <2>1, <2>2 DEF SessionInv
  <2>4. Claims(s, m.w)
    <3>1. ~NoLoad(s, m.w)
      BY <1>1, <1>2 DEF NoLoad
    <3> QED BY <1>2, <2>1, <3>1 DEF SessionInv
  <2>5. ASSUME NEW w \in Stages
        PROVE  \/ table'[w] = table[w] /\ (Claims(s, w) => Claims(s, w)')
               \/ table'[w] = plan[s] /\ Claims(s, w)'
    BY <1>2, <1>3, <2>2, <2>4
  <2> QED
    BY <1>1, <1>2, <1>3, <1>4, <1>6, <2>3, <2>5, HandledStep DEF DeployInv, BaseType, OnOrLost
<1> QED BY <1>2, <1>7, <1>8

\* A worker handles an unload: when it takes the plan off, the sessions of the plan
\* that counted on it are other ones, and are written down.
LEMMA HandleUnloadStep ==
  ASSUME DeployInv, NEW m \in wire, HandleUnload(m)
  PROVE  DeployInv'
<1>1. PICK s \in Sessions : s = m.s
  BY DEF DeployInv, BaseType, Messages
<1>2. /\ m.w \in Stages /\ m.awaited \in BOOLEAN /\ m.type = "unload"
      /\ SessionInv(s) /\ MessageInv(m) /\ table \in [Stages -> Plans \cup {None}]
      /\ reply \in [Sessions -> {"none", "waiting", "ok", "rejected", "refused"}]
      /\ plan[s] \in Plans /\ taken \subseteq Sessions \X Stages
  BY <1>1 DEF HandleUnload, DeployInv, BaseType, Messages
<1>3. PICK what \in {"ok", "refused"} :
        /\ Answer(m, what)
        /\ what = "ok" => /\ table' = [table EXCEPT ![m.w] = None]
                          /\ \/ table[m.w] = None /\ taken' = taken
                             \/ table[m.w] = plan[s] /\ taken' = taken \cup (Holders(m.w) \X {m.w})
        /\ what = "refused" => table' = table /\ taken' = taken
  <2>1. table[m.w] = None => table = [table EXCEPT ![m.w] = None]
    BY <1>2
  <2> QED BY <1>1, <2>1 DEF HandleUnload, Matches
<1>4. UNCHANGED <<busy, restarts, restarted, plan, at, index, loaded>>
      /\ wire' = wire \ {m}
      /\ reply'[s] = IF m.awaited THEN what ELSE reply[s]
  BY <1>1, <1>2, <1>3 DEF HandleUnload, Answer
<1>5. /\ unsettled' \subseteq Sessions /\ unsettled \subseteq unsettled'
      /\ s \notin unsettled' => NoLoad(s, m.w)
  BY <1>1, <1>2 DEF HandleUnload, DeployInv, BaseType, NoLoad
<1>6. taken' \subseteq Sessions \X Stages /\ taken \subseteq taken'
  <2>1. Holders(m.w) \subseteq Sessions
    BY DEF Holders
  <2> QED BY <1>2, <1>3, <2>1
<1>7. Lowest(s)' = Lowest(s) /\ (Unloading(s)' <=> Unloading(s))
  BY <1>4 DEF Lowest, Unloading
<1>8. at[s] \in {"closing", "closed"} /\ \A w \in Stages : ~Knows(s, w) /\ ~Knows(s, w)'
  BY <1>1, <1>2, <1>4 DEF MessageInv, Knows
<1>9. ASSUME NEW w \in Stages, NEW t \in Sessions \ {s}, Knows(t, w), table[w] = plan[t]
      PROVE  OnOrLost(t, w)'
  <2>1. CASE table'[w] = table[w]
    BY <1>4, <1>9, <2>1 DEF OnOrLost
  <2>2. CASE table'[w] # table[w]
    <3>1. w = m.w /\ table[w] = plan[s] /\ taken' = taken \cup (Holders(w) \X {w})
      BY <1>2, <1>3, <2>2
    <3>2. t \in Holders(w)
      BY <1>9, HolderFacts
    <3>3. Shared(t)'
      BY <1>4, <1>9, <3>1 DEF Shared
    <3> QED BY <3>1, <3>2, <3>3 DEF OnOrLost
  <2> QED BY <2>1, <2>2
<1>10. \A w \in Stages : NoLoad(s, w) => NoLoad(s, w)'
  BY <1>4 DEF NoLoad
<1>11. CASE m.awaited
  <2>1. at[s] = "closing" /\ loaded[s] # <<>> /\ m.w = Lowest(s) /\ reply'[s] = what
        /\ reply[s] = "waiting"
    BY <1>1, <1>2, <1>4, <1>11 DEF MessageInv
  <2>2. \A w \in Stages : ~(what = "ok" /\ w = m.w) => (Claims(s, w) => Claims(s, w)')
    BY <1>4, <1>5, <1>7, <1>8, <2>1 DEF Claims
  <2>3. ASSUME NEW w \in Stages, ~Claims(s, w)' PROVE NoLoad(s, w)'
    <3>1. s \notin unsettled'
      BY <2>3 DEF Claims
    <3>2. w # m.w => NoLoad(s, w)
      BY <1>2, <2>1, <2>2, <2>3 DEF SessionInv
    <3> QED BY <1>5, <1>10, <3>1, <3>2
  <2>4. SessionInv(s)'
    <3>1. Unloading(s)'
      BY <1>7, <2>1 DEF Unloading
    <3> QED BY <1>2, <1>4, <1>7, <1>8, <2>1, <2>3, <3>1 DEF SessionInv
  <2>5. ASSUME NEW w \in Stages, table'[w] # None
        PROVE  table'[w] = table[w] /\ (Claims(s, w) => Claims(s, w)')
    BY <1>2, <1>3, <2>2, <2>5
  <2> QED
    BY <1>1, <1>2, <1>3, <1>4, <1>5, <1>6, <1>9, <2>4, <2>5, HandledStep
<1>12. CASE ~m.awaited
  <2>1. \A w \in Stages : Claims(s, w) => Claims(s, w)'
    BY <1>4, <1>5, <1>7, <1>8, <1>12 DEF Claims
  <2>2. SessionInv(s)'
    BY <1>2, <1>4, <1>7, <1>8, <1>10, <1>12, <2>1 DEF SessionInv
  <2>3. ASSUME NEW w \in Stages, table'[w] # None
        PROVE  table'[w] = table[w] /\ (Claims(s, w) => Claims(s, w)')
    BY <1>2, <1>3, <2>1, <2>3
  <2> QED
    BY <1>1, <1>2, <1>3, <1>4, <1>5, <1>6, <1>9, <2>2, <2>3, HandledStep
<1> QED BY <1>2, <1>11, <1>12

\* Steps that leave the sessions and the calls alone, but for calls that are lost.
LEMMA WorkerFrame ==
  ASSUME DeployInv, BaseType', UNCHANGED <<client, taken, unsettled>>, wire' \subseteq wire,
         restarted \subseteq restarted',
         \A w \in Stages : table'[w] \in {table[w], None},
         \A w \in Stages, t \in Sessions :
           Knows(t, w) /\ table[w] = plan[t] => OnOrLost(t, w)'
  PROVE  DeployInv'
<1> USE DEF client
<1>1. ASSUME NEW t \in Sessions
      PROVE  SessionInv(t)' /\ \A w \in Stages : Claims(t, w) => Claims(t, w)'
  BY SessionFrame DEF DeployInv
<1>2. ASSUME NEW m \in wire' PROVE MessageInv(m)'
  BY MessageFrame DEF DeployInv
<1>3. ClaimInv'
  <2> SUFFICES ASSUME NEW w \in Stages, table'[w] # None
               PROVE  \E t \in Sessions : plan'[t] = table'[w] /\ Claims(t, w)'
    BY DEF ClaimInv
  <2>1. table'[w] = table[w]
    OBVIOUS
  <2>2. PICK t \in Sessions : plan[t] = table[w] /\ Claims(t, w)
    BY <2>1 DEF DeployInv, ClaimInv
  <2> QED BY <1>1, <2>1, <2>2
<1> QED BY <1>1, <1>2, <1>3 DEF DeployInv

\* Requests begin and end on a worker.
LEMMA NativeStep ==
  ASSUME DeployInv, NEW s \in Sessions, NEW w \in Stages, NReserve(s, w) \/ NRetire(s, w)
  PROVE  DeployInv'
<1>1. UNCHANGED <<client, wire, table, history>>
  BY DEF NReserve, NRetire
<1>2. BaseType'
  BY <1>1 DEF NReserve, NRetire, client, history, DeployInv, BaseType
<1>3. \A v \in Stages, t \in Sessions : table[v] = plan[t] => OnOrLost(t, v)'
  BY <1>1 DEF client, OnOrLost
<1> QED BY <1>1, <1>2, <1>3, WorkerFrame DEF history

\* A worker restarts without a stage; who counted on it is written down.
LEMMA RestartStep ==
  ASSUME DeployInv, NEW w \in Stages, Restart(w)
  PROVE  DeployInv'
<1>1. /\ table[w] # None /\ restarted' = restarted \cup (Holders(w) \X {w})
      /\ restarts < MaxRestarts /\ restarts' = restarts + 1
      /\ table' = [table EXCEPT ![w] = None] /\ busy' = [busy EXCEPT ![w] = {}]
      /\ wire' \subseteq wire
      /\ UNCHANGED <<client, taken, unsettled>>
  BY DEF Restart
<1>2. table \in [Stages -> Plans \cup {None}] /\ Holders(w) \subseteq Sessions
  BY DEF DeployInv, BaseType, Holders
<1>3. BaseType'
  <2>1. restarts' \in 0..MaxRestarts
    BY <1>1, SessionAssumption DEF DeployInv, BaseType
  <2>2. restarted' \subseteq Sessions \X Stages
    BY <1>1, <1>2 DEF DeployInv, BaseType
  <2> QED BY <1>1, <1>2, <2>1, <2>2 DEF client, DeployInv, BaseType
<1>4. ASSUME NEW v \in Stages, NEW t \in Sessions, Knows(t, v), table[v] = plan[t]
      PROVE  OnOrLost(t, v)'
  <2>1. CASE v # w
    BY <1>1, <1>2, <1>4, <2>1 DEF OnOrLost, client
  <2>2. CASE v = w
    <3>1. t \in Holders(w)
      BY <1>4, <2>2, HolderFacts
    <3> QED BY <1>1, <2>2, <3>1 DEF OnOrLost
  <2> QED BY <2>1, <2>2
<1>5. \A v \in Stages : table'[v] \in {table[v], None}
  BY <1>1, <1>2
<1> QED BY <1>1, <1>3, <1>4, <1>5, WorkerFrame

-----------------------------------------------------------------------------
(* The invariant and what follows from it. *)

\* The invariant holds at the start.
LEMMA InitDeploy == Init => DeployInv
<1> SUFFICES ASSUME Init PROVE DeployInv
  OBVIOUS
<1>1. BaseType
  BY StageFacts, SessionAssumption DEF Init, BaseType
<1>2. ASSUME NEW s \in Sessions PROVE SessionInv(s)
  <2>1. Listed(<<>>)
    BY StageFacts DEF Listed
  <2>2. loaded[s] = <<>> /\ at[s] = "new" /\ reply[s] = "none"
    BY DEF Init
  <2> QED BY <2>1, <2>2 DEF SessionInv, Knows
<1>3. ClaimInv
  BY DEF Init, ClaimInv
<1> QED BY <1>1, <1>2, <1>3 DEF Init, DeployInv

\* Every step keeps it.
LEMMA NextDeploy == DeployInv /\ [Next]_vars => DeployInv'
<1> SUFFICES ASSUME DeployInv, [Next]_vars PROVE DeployInv'
  OBVIOUS
<1>1. CASE UNCHANGED vars
  <2>1. BaseType'
    BY <1>1 DEF vars, client, worker, history, DeployInv, BaseType
  <2>2. \A v \in Stages, t \in Sessions : table[v] = plan[t] => OnOrLost(t, v)'
    BY <1>1 DEF vars, client, worker, OnOrLost
  <2> QED BY <1>1, <2>1, <2>2, WorkerFrame DEF vars, worker, history
<1>2. ASSUME NEW s \in Sessions, SessionStep(s) PROVE DeployInv'
  BY <1>2, EnterStep, SendLoadStep, LoadAcceptedStep, LoadRejectedStep, LoadLostStep,
     GenerateStep, CloseStep, SendUnloadStep, UnloadedStep, ClosedStep DEF SessionStep
<1>3. ASSUME NEW m \in wire, HandleLoad(m) \/ HandleUnload(m) PROVE DeployInv'
  BY <1>3, HandleLoadStep, HandleUnloadStep
<1>4. ASSUME NEW s \in Sessions, NEW w \in Stages, NReserve(s, w) \/ NRetire(s, w)
      PROVE  DeployInv'
  BY <1>4, NativeStep
<1>5. ASSUME NEW w \in Stages, Restart(w) PROVE DeployInv'
  BY <1>5, RestartStep
<1> QED
  BY <1>1, <1>2, <1>3, <1>4, <1>5 DEF Next

\* So it always holds.
LEMMA DeployInvariant == Spec => []DeployInv
BY InitDeploy, NextDeploy, PTL DEF Spec

\* An open session has its plan on every worker that has not restarted since, for
\* every number of sessions, every way in which they share plans, every number of
\* stages and every loss of calls and replies: no session of another plan can have
\* displaced it, only the unload of another session of the same plan.
THEOREM OpenIsLoaded == Spec => []OpenMeansLoaded
<1>1. DeployInv => OpenMeansLoaded
  <2> SUFFICES ASSUME DeployInv PROVE OpenMeansLoaded
    OBVIOUS
  <2>1. TypeOK
    <3>1. ASSUME NEW s \in Sessions
          PROVE  /\ loaded[s] \in Seq(Stages)
                 /\ \A i, j \in DOMAIN loaded[s] : loaded[s][i] = loaded[s][j] => i = j
      <4>1. Listed(loaded[s])
        BY DEF DeployInv, SessionInv
      <4> QED BY <4>1, StageFacts DEF Listed
    <3> QED BY <3>1 DEF TypeOK, DeployInv, BaseType, Messages
  <2>2. ASSUME NEW s \in Sessions, NEW w \in Stages, at[s] = "open"
        PROVE  OnOrLost(s, w)
    BY <2>2, StageFacts DEF DeployInv, SessionInv, Knows
  <2> QED BY <2>1, <2>2 DEF OpenMeansLoaded
<1> QED
  BY <1>1, DeployInvariant, PTL

\* Stages are loaded behind the driver first: the stage behind one that a session
\* knows to be loaded carries its plan, or has lost it since.
THEOREM DownstreamIsReady == Spec => []DownstreamFirst
<1>1. DeployInv => DownstreamFirst
  <2> SUFFICES ASSUME DeployInv, NEW s \in Sessions, NEW w \in Stages,
                      Told(s, w), w + 1 \in Stages
               PROVE  OnOrLost(s, w + 1)
    BY DEF DownstreamFirst
  <2>1. SessionInv(s) /\ Knows(s, w) /\ index[s] \in Stages /\ Len(loaded[s]) \in Nat
    BY ToldKnows, ListFacts DEF DeployInv, BaseType, SessionInv
  <2>2. index[s] \in Int /\ w \in Int /\ w >= 0 /\ Lowest(s) \in Int
    BY <2>1, StageFacts DEF Lowest
  <2>3. Knows(s, w + 1)
    BY <2>1, <2>2 DEF SessionInv, Knows
  <2> QED BY <2>1, <2>3 DEF SessionInv
<1> QED
  BY <1>1, DeployInvariant, PTL

\* A plan is on a worker only while one of its sessions loads it, is open or is
\* closing, also when the reply to a load was lost, unless a session of the plan gave
\* up on an unload or had a load overtaken by the unload that was to undo it.
THEOREM ClosedIsUnloaded == Spec => []ClosedMeansUnloaded
<1>1. DeployInv => ClosedMeansUnloaded
  <2> SUFFICES ASSUME DeployInv, NEW w \in Stages, table[w] # None
               PROVE  \E s \in Sessions : /\ plan[s] = table[w]
                                          /\ \/ at[s] \in {"loading", "open", "closing"}
                                             \/ s \in unsettled
    BY DEF ClosedMeansUnloaded
  <2>1. PICK s \in Sessions : plan[s] = table[w] /\ Claims(s, w)
    BY DEF DeployInv, ClaimInv
  <2> QED BY <2>1 DEF Claims, Knows
<1> QED
  BY <1>1, DeployInvariant, PTL
=============================================================================
