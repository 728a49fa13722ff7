------------------------ MODULE StagePipelineProofs -------------------------
(***************************************************************************)
(* Proofs about StagePipeline, for every prompt, chunk and output length   *)
(* and every bound on them: the two handlers never reject a message of     *)
(* each other, complete together, keep their caches level, and show their  *)
(* client a token stream.                                                  *)
(***************************************************************************)
EXTENDS StagePipeline, SequenceTheorems, TLAPS

\* Generate's own counters.  Every pass adds at least one row; the position is
\* inside the prompt until the first token and one behind the tokens after it.
Before == {"start", "loop", "await", "emit"}
After == {"finish", "ack", "eof", "commit", "usage", "terminal", "done"}

GLocal ==
  /\ step <= position /\ (step = 0 => position = 0)
  /\ gpc = "start" => position = 0 /\ step = 0 /\ generated = 0
  /\ gpc \in Before => /\ generated < maxNew
                       /\ generated = 0 => position < prompt
                       /\ generated > 0 => position = prompt + generated - 1
  /\ gpc \in After => generated > 0 /\ position = prompt + generated - 1
  /\ gpc \in {"start", "loop"} \cup After => kv0 = position
  /\ gpc \in {"await", "emit"} => kv0 = position + Count
  /\ gpc = "emit" => ~PrefillOnly
  /\ gpc \in {"await", "ack", "eof"} => split

\* Execute's own counters, in the same form.
ELocal ==
  /\ kv1 = epos /\ eseq <= epos /\ (eseq = 0 => epos = 0)
  /\ ~estopped => egen < maxNew
  /\ egen = 0 => epos < prompt
  /\ egen > 0 => epos = prompt + egen - 1
  /\ epc = "absent" => epos = 0 /\ egen = 0 /\ ~estopped /\ lease1 = "none" /\ down = <<>>
  /\ epc # "done" => status = "open"
  /\ epc = "read" => lease1 = "held"
  /\ epc = "acking" \/ status = "ok" => lease1 = "completed"

\* A tensor message that passes the checks of Execute.
Sound(m) == m.n \in Nat /\ ValidTensor(m)

\* What is on its way to Execute will pass its checks, whether or not Generate is
\* still there.
UpInv ==
  /\ epc = "absent" => \/ up = <<>> \/ up = <<Open>>
                       \/ up = <<Open, up[2]>> /\ Sound(up[2])
  /\ epc = "read" => \/ up = <<>>
                     \/ up = <<Terminate(egen)>> /\ estopped
                     \/ up = <<up[1]>> /\ Sound(up[1])

\* Execute is where Generate is, or one pass ahead of it.
Level == eseq = step /\ epos = position /\ egen = generated
Ahead ==
  /\ eseq = step + 1 /\ epos = position + Count
  /\ egen = IF PrefillOnly THEN generated ELSE generated + 1
  /\ PrefillOnly => ~estopped

Input == Tensor(step, position, Count, Prefilling)

Asked ==
  /\ Level /\ ~estopped /\ down = <<>> /\ epc # "acking"
  /\ epc = "absent" => up = <<Open, Input>>
  /\ epc = "read" => up = <<Input>>

Answered ==
  /\ Ahead /\ epc \in {"read", "done"} /\ (epc = "read" => up = <<>>)
  /\ IF PrefillOnly THEN down = <<Progress(step, position + Count)>>
     ELSE \E stop \in BOOLEAN : /\ down = <<Sampled(step, position + Count, stop)>>
                                /\ estopped = (egen = maxNew \/ stop)

\* The two handlers of a split generation, as long as Generate has not failed.
Link ==
  /\ gpc = "start" => up = <<>> /\ down = <<>> /\ epc = "absent"
  /\ gpc = "loop" => /\ Level /\ ~estopped /\ down = <<>> /\ epc # "acking"
                     /\ epc = "absent" => up = <<Open>>
                     /\ epc = "read" => up = <<>>
  /\ gpc = "await" => Asked \/ Answered
  /\ gpc = "emit" => /\ Ahead /\ down = <<>> /\ epc \in {"read", "done"}
                     /\ epc = "read" => up = <<>>
                     /\ estopped = (egen = maxNew \/ stopToken)
  /\ gpc \in After => Level
  /\ gpc = "finish" => /\ down = <<>> /\ epc \in {"read", "done"} /\ estopped
                       /\ epc = "read" => up = <<>>
  /\ gpc = "ack" => /\ epc # "absent" /\ estopped
                    /\ epc = "read" => up = <<Terminate(generated)>>
                    /\ epc # "done" => down = <<>>
                    /\ epc = "done" => down = <<>> \/ (down = <<Acknowledged>> /\ status = "ok")
  /\ gpc = "eof" => down = <<>> /\ status = "ok"
  /\ gpc \in {"commit", "usage", "terminal", "done"} => lease1 = "completed"

\* A deployment of one stage sends nothing.
Alone == up = <<>> /\ down = <<>> /\ epc = "absent"

\* What the client has been sent so far.
Event == [type : {"prefill_complete", "token", "usage", "terminal"}, at : Nat, stop : BOOLEAN]
TokensSent ==
  Len(events) = generated + 1 /\ Client!Last.type = "token"

EventsInv ==
  /\ events \in Seq(Event)
  /\ gpc \in {"start", "loop", "await"} /\ generated = 0 => events = <<>>
  /\ gpc = "emit" /\ generated = 0 => events = <<>> \/ events = <<Client!PrefillComplete>>
  /\ gpc \in {"loop", "await", "emit"} /\ generated > 0 => TokensSent /\ ~Client!Last.stop
  /\ gpc \in {"finish", "ack", "eof", "commit", "usage"} =>
       TokensSent /\ (Client!Last.stop \/ generated = maxNew)
  /\ gpc = "terminal" => Len(events) > 0 /\ Client!Last.type = "usage"

PipelineInv ==
  /\ TypeOK /\ ~rejected /\ GLocal /\ ELocal /\ UpInv
  /\ split => Link
  /\ ~split => Alone
  /\ CompletedTogether

-----------------------------------------------------------------------------
(* The model's operators *)

\* The types that are numbers, and the others.
Counters ==
  /\ prompt \in 1..MaxPrompt /\ chunk \in 0..MaxChunk /\ maxNew \in 1..MaxOutput
  /\ step \in 0..Steps /\ position \in 0..(prompt + maxNew) /\ generated \in 0..maxNew
  /\ eseq \in 0..Steps /\ epos \in 0..(prompt + maxNew) /\ egen \in 0..maxNew
  /\ kv0 \in 0..(prompt + maxNew - 1) /\ kv1 \in 0..(prompt + maxNew - 1)

Flags ==
  /\ split \in BOOLEAN
  /\ gpc \in Before \cup After \cup {"failed"} /\ epc \in {"absent", "read", "acking", "done"}
  /\ stopToken \in BOOLEAN /\ estopped \in BOOLEAN /\ stop0 \in BOOLEAN
  /\ lease0 \in Leases /\ lease1 \in Leases
  /\ broken \in BOOLEAN /\ rejected \in BOOLEAN /\ status \in {"open", "ok", "failed"}

\* TypeOK in two halves, numbers and flags.
LEMMA TypeParts == TypeOK <=> Counters /\ Flags
BY DEF TypeOK, Counters, Flags, Before, After

\* The same of the next state.
LEMMA TypePartsNext == TypeOK' <=> Counters' /\ Flags'
BY DEF TypeOK, Counters, Flags, Before, After

\* The bounds and counters are numbers.
LEMMA Numbers ==
  ASSUME TypeOK
  PROVE  /\ prompt \in Nat /\ prompt > 0 /\ chunk \in Nat /\ maxNew \in Nat /\ maxNew > 0
         /\ prompt <= MaxPrompt /\ maxNew <= MaxOutput /\ MaxPrompt \in Nat /\ MaxOutput \in Nat
         /\ step \in Nat /\ position \in Nat /\ generated \in Nat
         /\ eseq \in Nat /\ epos \in Nat /\ egen \in Nat /\ kv0 \in Nat /\ kv1 \in Nat
         /\ generated <= maxNew /\ egen <= maxNew
         /\ kv0 <= prompt + maxNew - 1 /\ kv1 <= prompt + maxNew - 1
         /\ step <= MaxPrompt + MaxOutput
BY PipelineAssumption DEF TypeOK, Steps

\* An input has a row at least, never more than the reservation allows, and never
\* reaches beyond the prompt; after the prompt it is one token.
LEMMA CountFacts ==
  ASSUME TypeOK, GLocal, gpc \in Before
  PROVE  /\ Count \in Nat /\ Count > 0 /\ Count <= QueryRows
         /\ Prefilling => Count <= prompt - position
         /\ ~Prefilling => Count = 1
         /\ PrefillOnly <=> position + Count < prompt
         /\ Prefilling <=> generated = 0
         /\ position + Count <= prompt + maxNew - 1
         /\ ~PrefillOnly => position + Count = prompt + generated
<1>1. ChunkSize \in Nat /\ ChunkSize > 0 /\ ChunkSize <= QueryRows /\ QueryRows \in Nat /\ QueryRows > 0
  BY Numbers DEF ChunkSize, QueryRows, Minimum
<1>2. /\ generated < maxNew /\ (generated = 0 => position < prompt)
      /\ (generated > 0 => position = prompt + generated - 1)
  BY DEF GLocal
<1>3. Prefilling <=> generated = 0
  BY <1>2, Numbers DEF Prefilling
<1>4. CASE Prefilling
  <2>1. Count = Minimum(ChunkSize, prompt - position) /\ position < prompt
    BY <1>4 DEF Count, Prefilling
  <2>2. Count \in Nat /\ Count > 0 /\ Count <= ChunkSize /\ Count <= prompt - position
    BY <2>1, <1>1, Numbers DEF Minimum
  <2> QED BY <1>1, <1>2, <1>3, <1>4, <2>1, <2>2, Numbers DEF PrefillOnly
<1>5. CASE ~Prefilling
  <2>1. Count = 1
    BY <1>5 DEF Count
  <2> QED BY <1>1, <1>2, <1>3, <1>5, <2>1, Numbers DEF PrefillOnly
<1> QED BY <1>4, <1>5

\* The counters stay inside their bounds when the input has been passed.
LEMMA AdvanceFacts ==
  ASSUME TypeOK, GLocal, gpc \in Before
  PROVE  /\ position + Count \in 0..(prompt + maxNew - 1) /\ position + Count \in 0..(prompt + maxNew)
         /\ step + 1 \in 0..Steps /\ step + 1 <= position + Count /\ step + 1 # 0
         /\ generated + 1 \in 0..maxNew
<1>1. Count \in Nat /\ Count > 0 /\ position + Count <= prompt + maxNew - 1
  BY CountFacts
<1>2. step <= position /\ generated < maxNew
  BY DEF GLocal
<1>3. /\ prompt \in Nat /\ maxNew \in Nat /\ step \in Nat /\ position \in Nat /\ generated \in Nat
      /\ prompt <= MaxPrompt /\ maxNew <= MaxOutput /\ MaxPrompt \in Nat /\ MaxOutput \in Nat
  BY Numbers
<1>4. step + 1 \in 0..(MaxPrompt + MaxOutput)
  BY <1>1, <1>2, <1>3
<1> QED BY <1>1, <1>2, <1>3, <1>4 DEF Steps

\* Streams hold at most two messages.
LEMMA OneMessage ==
  ASSUME NEW m
  PROVE  /\ <<m>> # <<>> /\ Head(<<m>>) = m /\ Tail(<<m>>) = <<>> /\ <<m>>[1] = m
         /\ Append(<<>>, m) = <<m>>
OBVIOUS

\* A queue of two messages and its tail.
LEMMA TwoMessages ==
  ASSUME NEW m, NEW n
  PROVE  /\ <<m, n>> # <<>> /\ Head(<<m, n>>) = m /\ Tail(<<m, n>>) = <<n>> /\ <<m, n>>[2] = n
         /\ Append(<<m>>, n) = <<m, n>>
<1>1. ASSUME NEW S, NEW q \in Seq(S), NEW e \in S, Len(q) = 1
      PROVE  Append(q, e) = <<q[1], e>>
  <2> DEFINE a == Append(q, e)
  <2>1. a \in Seq(S) /\ Len(a) = Len(q) + 1
    BY AppendProperties
  <2>2. a[1] = q[1] /\ a[2] = e
    BY <1>1, AppendProperties
  <2> HIDE DEF a
  <2>3. a = <<a[1], a[2]>>
    BY <1>1, <2>1
  <2> QED BY <2>2, <2>3, Zenon DEF a
<1>2. <<m>> \in Seq({m, n}) /\ Len(<<m>>) = 1 /\ <<m>>[1] = m /\ n \in {m, n}
  OBVIOUS
<1>3. Append(<<m>>, n) = <<m, n>>
  BY <1>1, <1>2, Zenon
<1> QED BY <1>3

\* Messages of different types are different.
LEMMA MessageTypes ==
  /\ Open.type = "open"
  /\ \A s, a, n, pre : Tensor(s, a, n, pre).type = "tensor"
  /\ \A n : Terminate(n).type = "terminate"
BY DEF Open, Tensor, Terminate

\* The input of Generate passes the checks of an Execute that is level with it.
LEMMA InputIsValid ==
  ASSUME TypeOK, GLocal, ELocal, gpc \in Before, Level, ~estopped
  PROVE  Sound(Input)
<1>1. EPrefilling <=> Prefilling
  BY Numbers DEF EPrefilling, Prefilling, GLocal, Level
<1>2. /\ Input.type = "tensor" /\ Input.seq = step /\ Input.at = position /\ Input.n = Count
      /\ Input.prefill = Prefilling
  BY DEF Input, Tensor
<1>3. (Input.prefill = EPrefilling)
  BY <1>1, <1>2 DEF EPrefilling, Prefilling
<1>4. epos + Count <= prompt + maxNew
  BY CountFacts, Numbers DEF Level
<1> QED
  BY <1>1, <1>2, <1>3, <1>4, CountFacts DEF Sound, ValidTensor, Level, ELocal

-----------------------------------------------------------------------------
(* Frames *)

\* A step that leaves Execute and its stream alone.
LEMMA ExecuteFrame ==
  ASSUME ELocal, UpInv, UNCHANGED request, UNCHANGED execute, down' = down, status' = status,
         up' = up
  PROVE  ELocal' /\ UpInv'
<1> USE DEF request, execute
<1>1. ELocal'
  BY DEF ELocal
<1>2. \A m : Sound(m) => Sound(m)'
  BY DEF Sound, ValidTensor, EPrefilling, QueryRows
<1>3. Terminate(egen)' = Terminate(egen)
  BY DEF Terminate
<1>4. UpInv'
  BY <1>2, <1>3 DEF UpInv
<1> QED BY <1>1, <1>4

\* A failed generation is linked to nobody.
LEMMA FailedLink ==
  ASSUME gpc' = "failed"
  PROVE  Link'
BY DEF Link, After

\* The invariant holds at the start.
LEMMA InitPipeline ==
  ASSUME Init
  PROVE  PipelineInv
<1> USE PipelineAssumption DEF Init
<1>1. TypeOK
  <2>1. Counters
    BY DEF Counters, Steps
  <2>2. Flags
    BY DEF Flags, Before, Leases
  <2> QED BY <2>1, <2>2, TypeParts
<1>2. GLocal
  BY Numbers, <1>1 DEF GLocal, Before, After
<1>3. ELocal /\ UpInv
  BY <1>1, Numbers DEF ELocal, UpInv
<1>4. Link /\ Alone /\ CompletedTogether
  BY DEF Link, Alone, CompletedTogether, After
<1> QED BY <1>1, <1>2, <1>3, <1>4 DEF PipelineInv

\* Nothing changes.
LEMMA StutterPipeline ==
  ASSUME PipelineInv, UNCHANGED vars
  PROVE  PipelineInv'
<1> USE DEF vars, request, generate, execute, stream, PipelineInv
<1>1. TypeOK' /\ CompletedTogether' /\ rejected' = FALSE
  BY DEF TypeOK, CompletedTogether
<1>2. ELocal' /\ UpInv'
  BY ExecuteFrame
<1>3. Count' = Count /\ (PrefillOnly' <=> PrefillOnly) /\ Input' = Input
  BY DEF Count, PrefillOnly, Prefilling, ChunkSize, Minimum, Input, Tensor
<1>4. GLocal'
  BY <1>3 DEF GLocal
<1>5. (Level' <=> Level) /\ (Ahead' <=> Ahead)
  BY <1>3 DEF Level, Ahead
<1>6. (split => Link)'
  BY <1>3, <1>5 DEF Link, Asked, Answered, Terminate, Progress, Sampled
<1>7. (~split => Alone)'
  BY DEF Alone
<1> QED BY <1>1, <1>2, <1>4, <1>6, <1>7

-----------------------------------------------------------------------------
(* Generate *)

\* A failing Generate leaves a state of which nothing but Execute's part is known.
LEMMA ThrowStep ==
  ASSUME PipelineInv, GThrow, UNCHANGED <<request, execute, stop0, up, status, rejected>>,
         down' = down \/ (split /\ epc # "absent")
  PROVE  PipelineInv'
<1> USE DEF GThrow, request, execute, PipelineInv
<1>1. TypeOK' /\ CompletedTogether'
  BY DEF TypeOK, CompletedTogether, Leases
<1>2. GLocal'
  BY DEF GLocal, Before, After
<1>3. ELocal'
  BY DEF ELocal
<1>4. \A m : Sound(m) => Sound(m)'
  BY DEF Sound, ValidTensor, EPrefilling, QueryRows
<1>5. Terminate(egen)' = Terminate(egen)
  BY DEF Terminate
<1>6. UpInv'
  BY <1>4, <1>5 DEF UpInv
<1>7. (~split => Alone)'
  BY DEF Alone
<1> QED BY <1>1, <1>2, <1>3, <1>6, <1>7, FailedLink

\* Generate opens the stream to stage 1.
LEMMA OpenStep ==
  ASSUME PipelineInv, GOpen
  PROVE  PipelineInv'
<1> USE DEF GOpen, request, execute, PipelineInv
<1>1. TypeOK' /\ CompletedTogether'
  BY DEF TypeOK, CompletedTogether, Leases
<1>2. GLocal'
  BY DEF GLocal, Before, After
<1>3. CASE split
  <2>1. up = <<>> /\ down = <<>> /\ epc = "absent"
    BY <1>3 DEF Link
  <2>2. up' = <<Open>>
    BY <1>3, <2>1, OneMessage
  <2>3. ELocal' /\ UpInv'
    BY <2>1, <2>2 DEF ELocal, UpInv
  <2>4. Level' /\ ~estopped'
    BY <2>1, Numbers DEF Level, ELocal, GLocal
  <2>5. Link'
    BY <2>1, <2>2, <2>4 DEF Link, After
  <2> QED BY <1>1, <1>2, <1>3, <2>3, <2>5
<1>4. CASE ~split
  <2>1. ELocal' /\ UpInv'
    BY <1>4, ExecuteFrame
  <2>2. Alone'
    BY <1>4 DEF Alone
  <2> QED BY <1>1, <1>2, <1>4, <2>1, <2>2
<1> QED BY <1>3, <1>4

\* After the pass on this stage the input is on its way, or the token is sampled.
LEMMA ComputeStep ==
  ASSUME PipelineInv, GCompute
  PROVE  PipelineInv'
<1> USE DEF GCompute, request, execute, PipelineInv
<1>0. gpc \in Before /\ gpc = "loop"
  BY DEF Before
<1>1. TypeOK'
  <2>1. Counters'
    BY <1>0, AdvanceFacts, TypeParts DEF Counters
  <2>2. Flags'
    BY TypeParts DEF Flags, Before
  <2> QED BY <2>1, <2>2, TypePartsNext
<1>2. CompletedTogether'
  BY DEF CompletedTogether
<1>3. CASE split
  <2>1. /\ gpc' = "await" /\ position' = position /\ step' = step /\ generated' = generated
        /\ kv0' = position + Count /\ Count' = Count /\ (PrefillOnly' <=> PrefillOnly)
        /\ (Prefilling' <=> Prefilling) /\ Input' = Input
    BY <1>3 DEF Count, Prefilling, PrefillOnly, ChunkSize, Minimum, Input, Tensor
  <2>2. GLocal'
    BY <2>1, <1>0, <1>3 DEF GLocal, Before, After
  <2>3. /\ Level /\ ~estopped /\ down = <<>> /\ epc # "acking"
        /\ (epc = "absent" => up = <<Open>>) /\ (epc = "read" => up = <<>>)
    BY <1>3, <1>0 DEF Link
  <2>4. up' = Append(up, Input)
    BY <1>3 DEF Input
  <2>5. (epc = "absent" => up' = <<Open, Input>>) /\ (epc = "read" => up' = <<Input>>)
    <3>1. ASSUME epc = "absent" PROVE up' = <<Open, Input>>
      BY <2>3, <2>4, <3>1, TwoMessages, Zenon
    <3>2. ASSUME epc = "read" PROVE up' = <<Input>>
      BY <2>3, <2>4, <3>2, OneMessage, Zenon
    <3> QED BY <3>1, <3>2
  <2>6. Sound(Input)
    BY <1>0, <2>3, InputIsValid
  <2>7. ELocal'
    BY DEF ELocal
  <2>8. Sound(Input)'
    BY <2>6, <2>1 DEF Sound, ValidTensor, EPrefilling, QueryRows
  <2>9. UpInv'
    <3>1. CASE epc = "absent"
      BY <3>1, <2>5, <2>8, <2>1, TwoMessages DEF UpInv
    <3>2. CASE epc = "read"
      BY <3>2, <2>5, <2>8, <2>1, OneMessage DEF UpInv
    <3> QED BY <3>1, <3>2 DEF UpInv
  <2>10. Asked'
    BY <2>1, <2>3, <2>5 DEF Asked, Level
  <2>11. Link'
    BY <2>1, <2>10 DEF Link, After
  <2> QED BY <1>1, <1>2, <1>3, <2>2, <2>7, <2>9, <2>11
<1>4. CASE ~split
  <2>1. ELocal' /\ UpInv'
    BY <1>4, ExecuteFrame
  <2>2. Alone'
    BY <1>4 DEF Alone
  <2>3. CASE PrefillOnly
    <3>1. /\ gpc' = "loop" /\ step' = step + 1 /\ position' = position + Count
          /\ generated' = generated /\ kv0' = position + Count
      BY <1>4, <2>3
    <3>2. position' < prompt /\ generated = 0
      BY <3>1, <2>3, <1>0, CountFacts DEF PrefillOnly
    <3> QED BY <1>1, <1>2, <1>0, <1>4, <2>1, <2>2, <3>1, <3>2, CountFacts, Numbers DEF GLocal, Before, After
  <2>4. CASE ~PrefillOnly
    <3>1. /\ gpc' = "emit" /\ step' = step /\ position' = position
          /\ generated' = generated /\ kv0' = position + Count
          /\ Count' = Count /\ (PrefillOnly' <=> PrefillOnly)
      BY <1>4, <2>4 DEF Count, Prefilling, PrefillOnly, ChunkSize, Minimum
    <3> QED BY <1>1, <1>2, <1>0, <1>4, <2>1, <2>2, <2>4, <3>1 DEF GLocal, Before, After
  <2> QED BY <2>3, <2>4
<1> QED BY <1>3, <1>4

\* The answer to a chunk that is not the last of the prompt.
LEMMA ReadProgressStep ==
  ASSUME PipelineInv, GReadProgress
  PROVE  PipelineInv'
<1> USE DEF PipelineInv
<1>1. gpc = "await" /\ gpc \in Before /\ PrefillOnly /\ down # <<>> /\ down' = Tail(down) /\ split
  BY DEF GReadProgress, Before, GLocal
<1>2. Answered
  BY <1>1 DEF Link, Asked
<1>3. down = <<Progress(step, position + Count)>>
  BY <1>1, <1>2 DEF Answered
<1>4. Head(down) = Progress(step, position + Count) /\ down' = <<>>
  BY <1>1, <1>3, OneMessage, Zenon
<1>5. /\ step' = step + 1 /\ position' = position + Count /\ gpc' = "loop"
      /\ UNCHANGED <<request, execute, stop0, up, status, kv0, generated, stopToken, lease0,
                     broken, rejected>>
  BY <1>4 DEF GReadProgress
<1> USE DEF request, execute
<1>6. TypeOK'
  <2>1. Counters'
    BY <1>1, <1>5, AdvanceFacts, TypeParts DEF Counters
  <2>2. Flags'
    BY <1>5, TypeParts DEF Flags, Before
  <2> QED BY <2>1, <2>2, TypePartsNext
<1>7. CompletedTogether'
  BY <1>5 DEF CompletedTogether
<1>8. GLocal'
  <2>1. generated = 0 /\ position + Count < prompt
    BY <1>1, CountFacts DEF PrefillOnly
  <2>2. kv0 = position + Count
    BY <1>1 DEF GLocal
  <2> QED BY <1>1, <1>5, <2>1, <2>2, AdvanceFacts, Numbers DEF GLocal, Before, After
<1>9. ELocal'
  BY <1>2, <1>4, <1>5 DEF ELocal
<1>10. /\ Level' /\ ~estopped' /\ epc \in {"read", "done"} /\ (epc = "read" => up = <<>>)
  BY <1>1, <1>2, <1>5 DEF Answered, Ahead, Level
<1>11. UpInv'
  BY <1>5, <1>10 DEF UpInv
<1>12. Link'
  BY <1>4, <1>5, <1>10 DEF Link, After
<1> QED BY <1>1, <1>5, <1>6, <1>7, <1>8, <1>9, <1>11, <1>12

\* The answer that carries a token.
LEMMA ReadSampledStep ==
  ASSUME PipelineInv, GReadSampled
  PROVE  PipelineInv'
<1> USE DEF PipelineInv
<1>1. gpc = "await" /\ gpc \in Before /\ ~PrefillOnly /\ down # <<>> /\ down' = Tail(down) /\ split
  BY DEF GReadSampled, Before, GLocal
<1>2. Answered
  BY <1>1 DEF Link, Asked
<1>3. PICK stop \in BOOLEAN : /\ down = <<Sampled(step, position + Count, stop)>>
                              /\ estopped = (egen = maxNew \/ stop)
  BY <1>1, <1>2 DEF Answered
<1>4. Head(down) = Sampled(step, position + Count, stop) /\ down' = <<>>
  BY <1>1, <1>3, OneMessage, Zenon
<1>5. Head(down).stop = stop
  BY <1>4 DEF Sampled
<1>6. /\ gpc' = "emit" /\ stopToken' = stop
      /\ UNCHANGED <<request, execute, stop0, up, status, step, position, kv0, generated, lease0,
                     broken, rejected>>
  BY <1>4, <1>5 DEF GReadSampled
<1> USE DEF request, execute
<1>7. TypeOK'
  <2>1. Counters'
    BY <1>6, TypeParts DEF Counters
  <2>2. Flags'
    BY <1>6, TypeParts DEF Flags, Before
  <2> QED BY <2>1, <2>2, TypePartsNext
<1>8. Count' = Count /\ (PrefillOnly' <=> PrefillOnly)
  BY <1>6 DEF Count, PrefillOnly, Prefilling, ChunkSize, Minimum
<1>9. GLocal' /\ CompletedTogether'
  BY <1>1, <1>6, <1>8 DEF GLocal, CompletedTogether, Before, After
<1>10. ELocal'
  BY <1>2, <1>4, <1>6 DEF ELocal, Answered
<1>11. Ahead' /\ epc \in {"read", "done"} /\ (epc = "read" => up = <<>>)
  BY <1>2, <1>6, <1>8 DEF Answered, Ahead
<1>12. UpInv'
  BY <1>6, <1>11 DEF UpInv
<1>13. Link'
  BY <1>3, <1>4, <1>6, <1>11 DEF Link, After
<1> QED BY <1>1, <1>6, <1>7, <1>9, <1>10, <1>12, <1>13

\* Nothing the handlers and the stream keep changes.
LEMMA QuietStep ==
  ASSUME PipelineInv, UNCHANGED <<request, generate, execute, up, down, status, rejected>>,
         stop0' \in BOOLEAN, broken' \in BOOLEAN
  PROVE  PipelineInv'
<1> USE DEF request, generate, execute, PipelineInv
<1>1. TypeOK' /\ CompletedTogether'
  <2>1. Counters'
    BY TypeParts DEF Counters
  <2>2. Flags'
    BY TypeParts DEF Flags
  <2> QED BY <2>1, <2>2, TypePartsNext DEF CompletedTogether
<1>2. ELocal' /\ UpInv'
  BY ExecuteFrame
<1>3. Count' = Count /\ (PrefillOnly' <=> PrefillOnly) /\ Input' = Input
  BY DEF Count, PrefillOnly, Prefilling, ChunkSize, Minimum, Input, Tensor
<1>4. GLocal'
  BY <1>3 DEF GLocal
<1>5. (Level' <=> Level) /\ (Ahead' <=> Ahead)
  BY <1>3 DEF Level, Ahead
<1>6. (split => Link)'
  BY <1>3, <1>5 DEF Link, Asked, Answered, Terminate, Progress, Sampled
<1>7. (~split => Alone)'
  BY DEF Alone
<1> QED BY <1>1, <1>2, <1>4, <1>6, <1>7

\* A token goes to the client; the loop goes on or ends.
LEMMA EmitTokenStep ==
  ASSUME PipelineInv, GEmitToken
  PROVE  PipelineInv'
<1> USE DEF PipelineInv
<1>1. /\ gpc = "emit" /\ gpc \in Before /\ ~PrefillOnly
      /\ position' = position + Count /\ generated' = generated + 1 /\ step' = step + 1
      /\ gpc' = IF stopToken \/ generated + 1 = maxNew THEN "finish" ELSE "loop"
      /\ UNCHANGED <<request, kv0, stopToken, lease0, execute, stop0, stream, rejected>>
  BY DEF GEmitToken, Before, GLocal
<1> USE DEF request, execute, stream
<1>2. TypeOK'
  <2>1. Counters'
    BY <1>1, AdvanceFacts, TypeParts DEF Counters
  <2>2. Flags'
    BY <1>1, TypeParts DEF Flags, Before, After
  <2> QED BY <2>1, <2>2, TypePartsNext
<1>3. CompletedTogether'
  BY <1>1 DEF CompletedTogether
<1>4. GLocal'
  <2>1. /\ position' = prompt + generated' - 1 /\ kv0' = position' /\ generated' > 0
        /\ generated' \in Nat /\ generated' <= maxNew
    BY <1>1, CountFacts, AdvanceFacts, Numbers DEF GLocal
  <2>2. step' <= position' /\ step' # 0
    BY <1>1, AdvanceFacts
  <2>3. gpc' = "loop" => generated' < maxNew
    BY <1>1, <2>1, Numbers
  <2>4. gpc' \in {"loop", "finish"}
    BY <1>1
  <2> QED BY <1>1, <2>1, <2>2, <2>3, <2>4, Numbers DEF GLocal, Before, After
<1>5. ELocal' /\ UpInv'
  BY <1>1, ExecuteFrame
<1>6. ASSUME split PROVE Link'
  <2>1. /\ Ahead /\ down = <<>> /\ epc \in {"read", "done"} /\ (epc = "read" => up = <<>>)
        /\ estopped = (egen = maxNew \/ stopToken)
    BY <1>1, <1>6 DEF Link
  <2>2. Level' /\ egen = generated + 1
    BY <1>1, <2>1 DEF Level, Ahead
  <2>3. gpc' = "loop" => ~estopped'
    BY <1>1, <2>1, <2>2
  <2>4. gpc' = "finish" => estopped'
    BY <1>1, <2>1, <2>2
  <2>5. gpc' \in {"loop", "finish"}
    BY <1>1
  <2> QED BY <1>1, <2>1, <2>2, <2>3, <2>4, <2>5 DEF Link, After
<1>7. (~split => Alone)'
  BY <1>1 DEF Alone
<1> QED BY <1>1, <1>2, <1>3, <1>4, <1>5, <1>6, <1>7

\* Generate sends the terminate message, or is alone.
LEMMA FinishStep ==
  ASSUME PipelineInv, GFinish
  PROVE  PipelineInv'
<1> USE DEF PipelineInv
<1>1. /\ gpc = "finish" /\ gpc' = (IF split THEN "ack" ELSE "commit")
      /\ up' = (IF split THEN Append(up, Terminate(generated)) ELSE up)
      /\ UNCHANGED <<request, step, position, kv0, generated, stopToken, lease0, execute, stop0,
                     down, broken, status, rejected>>
  BY DEF GFinish
<1> USE DEF request, execute
<1>2. TypeOK' /\ CompletedTogether'
  <2>1. Counters'
    BY <1>1, TypeParts DEF Counters
  <2>2. Flags'
    BY <1>1, TypeParts DEF Flags, After
  <2> QED BY <1>1, <2>1, <2>2, TypePartsNext DEF CompletedTogether
<1>3. GLocal'
  <2>1. generated > 0 /\ position = prompt + generated - 1 /\ kv0 = position /\ step <= position
        /\ (step = 0 => position = 0)
    BY <1>1 DEF GLocal, After
  <2>2. gpc' \in {"ack", "commit"} /\ (gpc' = "ack" => split)
    BY <1>1
  <2> QED BY <1>1, <2>1, <2>2 DEF GLocal, Before, After
<1>4. CASE split
  <2>1. /\ Level /\ down = <<>> /\ epc \in {"read", "done"} /\ estopped
        /\ (epc = "read" => up = <<>>) /\ gpc' = "ack"
    BY <1>1, <1>4 DEF Link, After
  <2>2. epc = "read" => up' = <<Terminate(generated)>>
    BY <1>1, <1>4, <2>1, OneMessage, Zenon
  <2>3. ELocal'
    BY <1>1 DEF ELocal
  <2>4. Terminate(egen)' = Terminate(generated) /\ Terminate(generated)' = Terminate(generated)
    BY <1>1, <2>1 DEF Terminate, Level
  <2>5. UpInv'
    BY <1>1, <2>1, <2>2, <2>4 DEF UpInv
  <2>6. Level'
    BY <1>1, <2>1 DEF Level
  <2>7. Link'
    BY <1>1, <2>1, <2>2, <2>4, <2>6 DEF Link, After
  <2> QED BY <1>1, <1>2, <1>3, <1>4, <2>3, <2>5, <2>7
<1>5. CASE ~split
  <2>1. ELocal' /\ UpInv'
    BY <1>1, <1>5, ExecuteFrame
  <2>2. Alone'
    BY <1>1, <1>5 DEF Alone
  <2> QED BY <1>1, <1>2, <1>3, <1>5, <2>1, <2>2
<1> QED BY <1>4, <1>5

\* The acknowledgement arrives.
LEMMA ReadAckStep ==
  ASSUME PipelineInv, GReadAck
  PROVE  PipelineInv'
<1> USE DEF PipelineInv
<1>1. gpc = "ack" /\ down # <<>> /\ down' = Tail(down) /\ split
  BY DEF GReadAck, GLocal
<1>2. Level /\ epc = "done" /\ down = <<Acknowledged>> /\ status = "ok"
  BY <1>1 DEF Link, After
<1>3. Head(down) = Acknowledged /\ down' = <<>>
  BY <1>1, <1>2, OneMessage, Zenon
<1>4. /\ gpc' = "eof"
      /\ UNCHANGED <<request, execute, stop0, up, status, step, position, kv0, generated,
                     stopToken, lease0, broken, rejected>>
  BY <1>3 DEF GReadAck
<1> USE DEF request, execute
<1>5. TypeOK' /\ CompletedTogether'
  <2>1. Counters'
    BY <1>4, TypeParts DEF Counters
  <2>2. Flags'
    BY <1>4, TypeParts DEF Flags, After
  <2> QED BY <1>4, <2>1, <2>2, TypePartsNext DEF CompletedTogether
<1>6. GLocal'
  BY <1>1, <1>4 DEF GLocal, Before, After
<1>7. ELocal' /\ UpInv'
  BY <1>2, <1>4 DEF ELocal, UpInv
<1>8. Link'
  BY <1>2, <1>3, <1>4 DEF Link, Level, After
<1> QED BY <1>1, <1>4, <1>5, <1>6, <1>7, <1>8

\* From the end of the stream to the last event only Generate moves.
LEMMA ClosingStep ==
  ASSUME PipelineInv, gpc \in After, lease1 = "completed" \/ ~split,
         gpc' \in {"commit", "usage", "terminal", "done"}, lease0' \in {lease0, "completed"},
         broken' \in BOOLEAN,
         UNCHANGED <<request, step, position, kv0, generated, stopToken, execute, stop0,
                     up, down, status, rejected>>
  PROVE  PipelineInv'
<1> USE DEF request, execute, PipelineInv
<1>1. TypeOK' /\ CompletedTogether'
  <2>1. Counters'
    BY TypeParts DEF Counters
  <2>2. Flags'
    BY TypeParts DEF Flags, After, Leases
  <2>3. CompletedTogether'
    BY DEF CompletedTogether
  <2> QED BY <2>1, <2>2, <2>3, TypePartsNext
<1>2. GLocal'
  BY DEF GLocal, Before, After
<1>3. ELocal' /\ UpInv'
  BY ExecuteFrame
<1>4. (split => Link)'
  BY DEF Link, Level, After
<1>5. (~split => Alone)'
  BY DEF Alone
<1> QED BY <1>1, <1>2, <1>3, <1>4, <1>5

\* The stream ends with its status.
LEMMA ReadEofStep ==
  ASSUME PipelineInv, GReadEof
  PROVE  PipelineInv'
<1>1. gpc = "eof" /\ status = "ok" /\ split
  BY DEF GReadEof, PipelineInv, GLocal
<1>2. down = <<>> /\ lease1 = "completed" /\ broken \in BOOLEAN
  BY <1>1 DEF PipelineInv, Link, ELocal, TypeOK
<1>3. /\ gpc' = "commit"
      /\ UNCHANGED <<request, execute, stop0, up, down, status, step, position, kv0, generated,
                     stopToken, lease0, broken, rejected>>
  BY <1>2 DEF GReadEof
<1> QED BY <1>1, <1>2, <1>3, ClosingStep DEF After

\* The stage behind Generate has completed by the time it commits.
LEMMA CommitStep ==
  ASSUME PipelineInv, GCommit \/ GUsage \/ GTerminal
  PROVE  PipelineInv'
<1>1. gpc \in {"commit", "usage", "terminal"} /\ broken' \in BOOLEAN
  BY DEF GCommit, GUsage, GTerminal, PipelineInv, TypeOK, stream
<1>2. lease1 = "completed" \/ ~split
  BY <1>1 DEF PipelineInv, Link
<1>3. /\ gpc' \in {"commit", "usage", "terminal", "done"} /\ lease0' \in {lease0, "completed"}
      /\ UNCHANGED <<request, step, position, kv0, generated, stopToken, execute, stop0,
                     up, down, status, rejected>>
  BY DEF GCommit, GUsage, GTerminal, stream
<1> QED BY <1>1, <1>2, <1>3, ClosingStep DEF After

\* Generate fails: from here on nothing is said about the link.
LEMMA FailStep ==
  ASSUME PipelineInv, GFail
  PROVE  PipelineInv'
BY ThrowStep DEF GFail

-----------------------------------------------------------------------------
(* Execute *)

\* A failing Execute leaves its counters and what it has sent; Generate keeps
\* waiting for the rest.
LEMMA EThrowStep ==
  ASSUME PipelineInv, EThrow, UNCHANGED <<request, generate, stop0, up, broken, rejected>>,
         epc \in {"read", "acking"} \/ (epc = "absent" /\ up # <<>>)
  PROVE  PipelineInv'
<1> USE DEF EThrow, request, generate, PipelineInv
<1>1. TypeOK'
  <2>1. Counters'
    BY TypeParts DEF Counters
  <2>2. Flags'
    BY TypeParts DEF Flags, Leases
  <2> QED BY <2>1, <2>2, TypePartsNext
<1>2. CompletedTogether'
  BY DEF CompletedTogether
<1>3. Count' = Count /\ (PrefillOnly' <=> PrefillOnly) /\ Input' = Input
  BY DEF Count, PrefillOnly, Prefilling, ChunkSize, Minimum, Input, Tensor
<1>4. GLocal'
  BY <1>3 DEF GLocal
<1>5. ELocal' /\ UpInv'
  BY DEF ELocal, UpInv
<1>6. ASSUME split PROVE Link'
  <2>1. (Level' <=> Level) /\ (Ahead' <=> Ahead)
    BY <1>3 DEF Level, Ahead
  <2>2. gpc = "await" => (Asked \/ Answered)'
    <3>1. Asked => Asked'
      BY <2>1 DEF Asked
    <3>2. Answered => Answered'
      BY <2>1, <1>3 DEF Answered, Progress, Sampled
    <3> QED BY <1>6, <3>1, <3>2 DEF Link
  <2>3. gpc \notin {"start", "eof"}
    BY <1>6 DEF Link, ELocal
  <2>4. gpc \in {"commit", "usage", "terminal", "done"} => lease1' = "completed"
    BY <1>6 DEF Link
  <2> QED BY <1>6, <2>1, <2>2, <2>3, <2>4 DEF Link
<1>7. (~split => Alone)'
  BY DEF Alone, ELocal
<1> QED BY <1>1, <1>2, <1>4, <1>5, <1>6, <1>7

\* Execute fails.
LEMMA EFailStep ==
  ASSUME PipelineInv, EFail
  PROVE  PipelineInv'
BY EThrowStep DEF EFail

\* Execute reads the open message and acquires its lease.
LEMMA EOpenStep ==
  ASSUME PipelineInv, EOpen
  PROVE  PipelineInv'
<1> USE DEF PipelineInv
<1>1. epc = "absent" /\ up # <<>> /\ up' = Tail(up) /\ split
  BY DEF EOpen, Alone
<1>2. up = <<Open>> \/ \E m : up = <<Open, m>> /\ Sound(m)
  BY <1>1, Zenon DEF UpInv
<1>3. Head(up) = Open
  BY <1>2, OneMessage, TwoMessages, Zenon
<1>4. /\ lease1' = "held" /\ epc' = "read"
      /\ UNCHANGED <<request, generate, stop0, broken, eseq, epos, egen, estopped, kv1, down,
                     status, rejected>>
  BY <1>1, <1>3 DEF EOpen
<1> USE DEF request, generate
<1>5. up' = <<>> \/ \E m : up' = <<m>> /\ Sound(m)
  <2>1. CASE up = <<Open>>
    BY <1>1, <2>1, OneMessage, Zenon
  <2>2. ASSUME NEW m, up = <<Open, m>>, Sound(m) PROVE up' = <<m>>
    BY <1>1, <2>2, TwoMessages, Zenon
  <2> QED BY <1>2, <2>1, <2>2
<1>6. TypeOK'
  <2>1. Counters'
    BY <1>4, TypeParts DEF Counters
  <2>2. Flags'
    BY <1>4, TypeParts DEF Flags, Leases
  <2> QED BY <2>1, <2>2, TypePartsNext
<1>7. CompletedTogether'
  BY <1>1, <1>4 DEF CompletedTogether, ELocal
<1>8. Count' = Count /\ (PrefillOnly' <=> PrefillOnly) /\ Input' = Input
  BY <1>4 DEF Count, PrefillOnly, Prefilling, ChunkSize, Minimum, Input, Tensor
<1>9. GLocal' /\ ELocal'
  BY <1>1, <1>4, <1>8 DEF GLocal, ELocal
<1>10. UpInv'
  <2>1. CASE up' = <<>>
    BY <1>4, <2>1 DEF UpInv
  <2>2. ASSUME NEW m, up' = <<m>>, Sound(m) PROVE UpInv'
    <3>1. \A x : Sound(x) => Sound(x)'
      BY <1>4 DEF Sound, ValidTensor, EPrefilling, QueryRows
    <3>2. up'[1] = m
      BY <2>2, OneMessage
    <3> QED BY <1>4, <2>2, <3>1, <3>2 DEF UpInv
  <2> QED BY <1>5, <2>1, <2>2
<1>11. Link'
  <2>1. gpc \in {"loop", "await", "failed"}
    <3>1. gpc \notin {"start", "emit", "finish", "ack", "eof", "commit", "usage", "terminal", "done"}
      BY <1>1 DEF Link, ELocal
    <3> QED BY <3>1, TypeParts DEF Flags, Before, After
  <2>2. CASE gpc = "loop"
    <3>1. Level /\ ~estopped /\ down = <<>> /\ up = <<Open>>
      BY <1>1, <2>2 DEF Link
    <3>2. up' = <<>>
      BY <1>1, <3>1, OneMessage, Zenon
    <3> QED BY <1>4, <2>2, <3>1, <3>2 DEF Link, Level, After
  <2>3. CASE gpc = "await"
    <3>1. Level /\ ~estopped /\ down = <<>> /\ up = <<Open, Input>>
      BY <1>1, <2>3 DEF Link, Asked, Answered
    <3>2. up' = <<Input>>
      BY <1>1, <3>1, TwoMessages, Zenon
    <3>3. Asked'
      BY <1>4, <1>8, <3>1, <3>2 DEF Asked, Level
    <3> QED BY <1>4, <2>3, <3>3 DEF Link, After
  <2>4. CASE gpc = "failed"
    BY <1>4, <2>4 DEF Link, After
  <2> QED BY <2>1, <2>2, <2>3, <2>4
<1> QED BY <1>1, <1>4, <1>6, <1>7, <1>9, <1>10, <1>11

\* What the counters of Execute are after a pass.
LEMMA PassFacts ==
  ASSUME TypeOK, ELocal, NEW m, Sound(m)
  PROVE  /\ m.n \in Nat /\ m.n > 0 /\ egen < maxNew /\ ~estopped
         /\ epos + m.n \in 0..(prompt + maxNew - 1) /\ epos + m.n \in 0..(prompt + maxNew)
         /\ eseq + 1 \in 0..Steps /\ eseq + 1 <= epos + m.n /\ eseq + 1 # 0
         /\ egen + 1 \in 0..maxNew
         /\ EPrefilling /\ epos + m.n < prompt => egen = 0
         /\ ~(EPrefilling /\ epos + m.n < prompt) => epos + m.n = prompt + egen
<1>1. /\ m.n \in Nat /\ m.n > 0 /\ ~estopped /\ (EPrefilling => m.n <= prompt - epos)
      /\ (~EPrefilling => m.n = 1)
  BY DEF Sound, ValidTensor
<1>2. /\ egen < maxNew /\ (egen = 0 => epos < prompt) /\ (egen > 0 => epos = prompt + egen - 1)
      /\ eseq <= epos /\ (eseq = 0 => epos = 0)
  BY <1>1 DEF ELocal
<1>3. /\ prompt \in Nat /\ prompt > 0 /\ maxNew \in Nat /\ eseq \in Nat /\ epos \in Nat /\ egen \in Nat
      /\ prompt <= MaxPrompt /\ maxNew <= MaxOutput /\ MaxPrompt \in Nat /\ MaxOutput \in Nat
  BY Numbers
<1>4. EPrefilling <=> epos < prompt
  BY <1>2, <1>3 DEF EPrefilling
<1>5. EPrefilling <=> egen = 0
  BY <1>2, <1>3, <1>4
<1>6. epos + m.n <= prompt + egen
  BY <1>1, <1>2, <1>3, <1>5
<1>7. ~(EPrefilling /\ epos + m.n < prompt) => epos + m.n = prompt + egen
  BY <1>1, <1>2, <1>3, <1>4, <1>5
<1>8. eseq + 1 \in 0..(MaxPrompt + MaxOutput)
  BY <1>1, <1>2, <1>3, <1>6
<1> QED BY <1>1, <1>2, <1>3, <1>5, <1>6, <1>7, <1>8 DEF Steps

\* A tensor that arrives is the input of a Generate that waits, or of one that failed.
LEMMA ETensorStep ==
  ASSUME PipelineInv, ETensor
  PROVE  PipelineInv'
<1> USE DEF PipelineInv
<1>1. epc = "read" /\ up # <<>> /\ Head(up).type # "terminate" /\ up' = Tail(up)
  BY DEF ETensor
<1>2. PICK m : up = <<m>> /\ Sound(m)
  <2>1. up # <<Terminate(egen)>>
    BY <1>1, OneMessage, MessageTypes
  <2> QED BY <1>1, <2>1, Zenon DEF UpInv
<1>3. Head(up) = m /\ up' = <<>>
  BY <1>1, <1>2, OneMessage, Zenon
<1>4. EPass(m) /\ UNCHANGED <<request, generate, stop0, broken>>
  BY <1>2, <1>3 DEF ETensor, Sound
<1>5. /\ eseq' = eseq + 1 /\ epos' = epos + m.n /\ kv1' = kv1 + m.n
      /\ UNCHANGED <<epc, lease1, status, rejected>>
  BY <1>4 DEF EPass
<1>6. \/ /\ EPrefilling /\ epos + m.n < prompt
         /\ down' = Append(down, Progress(eseq, epos + m.n)) /\ egen' = egen /\ estopped' = estopped
      \/ /\ ~(EPrefilling /\ epos + m.n < prompt)
         /\ \E stop \in BOOLEAN : /\ down' = Append(down, Sampled(eseq, epos + m.n, stop))
                                  /\ egen' = egen + 1
                                  /\ estopped' = (egen + 1 = maxNew \/ stop)
  BY <1>4 DEF EPass
<1> USE DEF request, generate
<1>7. kv1 = epos /\ split
  BY <1>1 DEF ELocal, Alone
<1>8. TypeOK'
  <2>1. egen' \in {egen, egen + 1}
    BY <1>6
  <2>2. Counters'
    BY <1>2, <1>4, <1>5, <1>7, <2>1, PassFacts, TypeParts DEF Counters
  <2>3. estopped' \in BOOLEAN
    BY <1>6, TypeParts DEF Flags
  <2>4. Flags'
    BY <1>4, <1>5, <2>3, TypeParts DEF Flags
  <2> QED BY <2>2, <2>4, TypePartsNext
<1>9. CompletedTogether'
  BY <1>4, <1>5 DEF CompletedTogether
<1>10. Count' = Count /\ (PrefillOnly' <=> PrefillOnly)
  BY <1>4 DEF Count, PrefillOnly, Prefilling, ChunkSize, Minimum
<1>11. GLocal'
  BY <1>4, <1>10 DEF GLocal
<1>12. ELocal'
  <2>0. /\ egen \in Nat /\ maxNew \in Nat /\ prompt \in Nat /\ egen < maxNew
    BY <1>2, PassFacts, Numbers
  <2>1. (egen' = 0 => epos' < prompt) /\ (egen' > 0 => epos' = prompt + egen' - 1)
    <3>1. CASE EPrefilling /\ epos + m.n < prompt
      <4>1. egen' = 0
        BY <1>2, <1>6, <3>1, PassFacts
      <4> QED BY <1>5, <3>1, <4>1
    <3>2. CASE ~(EPrefilling /\ epos + m.n < prompt)
      <4>1. egen' = egen + 1 /\ epos' = prompt + egen
        BY <1>2, <1>5, <1>6, <3>2, PassFacts
      <4> QED BY <2>0, <4>1
    <3> QED BY <3>1, <3>2
  <2>2. ~estopped' => egen' < maxNew
    <3>1. egen' = egen \/ (egen' = egen + 1 /\ (estopped' \/ egen + 1 # maxNew))
      BY <1>6
    <3> QED BY <2>0, <3>1
  <2>3. kv1' = epos' /\ eseq' <= epos' /\ eseq' # 0
    BY <1>2, <1>5, <1>7, PassFacts
  <2> QED BY <1>1, <1>4, <1>5, <2>1, <2>2, <2>3 DEF ELocal
<1>13. UpInv'
  BY <1>1, <1>3, <1>5 DEF UpInv
<1>14. Link'
  <2>1. gpc \in {"await", "failed"}
    <3>1. gpc # "ack"
      BY <1>1, <1>7, OneMessage, MessageTypes DEF Link
    <3>2. gpc \notin {"start", "loop", "emit", "finish", "eof", "commit", "usage", "terminal", "done"}
      BY <1>1, <1>7 DEF Link, ELocal
    <3> QED BY <3>1, <3>2, TypeParts DEF Flags, Before, After
  <2>2. CASE gpc = "await"
    <3>1. Level /\ ~estopped /\ down = <<>> /\ up = <<Input>>
      BY <1>1, <1>7, <2>2 DEF Link, Asked, Answered
    <3>2. m = Input /\ m.n = Count
      <4>1. m = Input
        BY <1>3, <3>1, OneMessage, Zenon
      <4> QED BY <4>1 DEF Input, Tensor
    <3>3. gpc \in Before
      BY <2>2 DEF Before
    <3>4. (EPrefilling /\ epos + m.n < prompt) <=> PrefillOnly
      <4>1. EPrefilling <=> Prefilling
        BY <3>1, Numbers DEF EPrefilling, Prefilling, GLocal, Level
      <4> QED BY <3>1, <3>2, <4>1 DEF PrefillOnly, Level
    <3>5. CASE PrefillOnly
      <4>1. down' = <<Progress(step, position + Count)>> /\ egen' = egen /\ estopped' = estopped
        BY <1>6, <3>1, <3>2, <3>4, <3>5, OneMessage DEF Level
      <4>2. Ahead'
        BY <1>4, <1>5, <1>10, <3>1, <3>2, <3>5, <4>1 DEF Ahead, Level
      <4>3. Progress(step, position + Count)' = Progress(step, position + Count)
        BY <1>4, <1>10 DEF Progress
      <4>4. Answered'
        BY <1>1, <1>3, <1>5, <1>10, <3>5, <4>1, <4>2, <4>3 DEF Answered
      <4> QED BY <1>4, <2>2, <4>4 DEF Link, After
    <3>6. CASE ~PrefillOnly
      <4>1. PICK stop \in BOOLEAN : /\ down' = Append(down, Sampled(eseq, epos + m.n, stop))
                                    /\ egen' = egen + 1
                                    /\ estopped' = (egen + 1 = maxNew \/ stop)
        BY <1>6, <3>4, <3>6
      <4>2. down' = <<Sampled(step, position + Count, stop)>>
        BY <3>1, <3>2, <4>1, OneMessage DEF Level
      <4>3. Ahead'
        BY <1>4, <1>5, <1>10, <3>1, <3>2, <3>6, <4>1 DEF Ahead, Level
      <4>4. \A x : Sampled(step, position + Count, x)' = Sampled(step, position + Count, x)
        BY <1>4, <1>10 DEF Sampled
      <4>5. estopped' = (egen' = maxNew' \/ stop)
        BY <1>4, <4>1
      <4>6. Answered'
        BY <1>1, <1>3, <1>5, <1>10, <3>6, <4>2, <4>3, <4>4, <4>5 DEF Answered
      <4> QED BY <1>4, <2>2, <4>6 DEF Link, After
    <3> QED BY <3>5, <3>6
  <2>3. CASE gpc = "failed"
    BY <1>4, <2>3 DEF Link, After
  <2> QED BY <2>1, <2>2, <2>3
<1> QED BY <1>4, <1>5, <1>7, <1>8, <1>9, <1>11, <1>12, <1>13, <1>14

\* Execute completes its lease.
LEMMA ETerminateStep ==
  ASSUME PipelineInv, ETerminate
  PROVE  PipelineInv'
<1> USE DEF PipelineInv
<1>1. epc = "read" /\ up # <<>> /\ Head(up).type = "terminate" /\ up' = Tail(up) /\ split
  BY DEF ETerminate, Alone
<1>2. up = <<Terminate(egen)>> /\ estopped
  <2>1. ASSUME NEW m, up = <<m>>, Sound(m) PROVE FALSE
    <3>1. Head(up) = m
      BY <2>1, OneMessage, Zenon
    <3> QED BY <1>1, <2>1, <3>1 DEF Sound, ValidTensor
  <2> QED BY <1>1, <2>1, Zenon DEF UpInv
<1>3. Head(up) = Terminate(egen) /\ up' = <<>>
  BY <1>1, <1>2, OneMessage, Zenon
<1>4. /\ lease1' = "completed" /\ epc' = "acking"
      /\ UNCHANGED <<request, generate, stop0, broken, eseq, epos, egen, estopped, kv1, down,
                     status, rejected>>
  BY <1>2, <1>3 DEF ETerminate
<1> USE DEF request, generate
<1>5. TypeOK'
  <2>1. Counters'
    BY <1>4, TypeParts DEF Counters
  <2>2. Flags'
    BY <1>4, TypeParts DEF Flags, Leases
  <2> QED BY <2>1, <2>2, TypePartsNext
<1>6. CompletedTogether'
  BY <1>4 DEF CompletedTogether
<1>7. Count' = Count /\ (PrefillOnly' <=> PrefillOnly)
  BY <1>4 DEF Count, PrefillOnly, Prefilling, ChunkSize, Minimum
<1>8. GLocal' /\ ELocal' /\ UpInv'
  BY <1>1, <1>4, <1>7 DEF GLocal, ELocal, UpInv
<1>9. Link'
  <2>1. gpc \in {"ack", "failed"}
    <3>1. gpc \notin {"start", "loop", "emit", "finish", "eof", "commit", "usage", "terminal", "done"}
      BY <1>1 DEF Link, ELocal
    <3>2. gpc # "await"
      BY <1>1, <1>2 DEF Link, Asked, Answered
    <3> QED BY <3>1, <3>2, TypeParts DEF Flags, Before, After
  <2>2. CASE gpc = "ack"
    <3>1. Level /\ down = <<>>
      BY <1>1, <2>2 DEF Link, After
    <3> QED BY <1>2, <1>4, <2>2, <3>1 DEF Link, Level, After
  <2>3. CASE gpc = "failed"
    BY <1>4, <2>3 DEF Link, After
  <2> QED BY <2>1, <2>2, <2>3
<1> QED BY <1>1, <1>4, <1>5, <1>6, <1>8, <1>9

\* Execute acknowledges and returns.
LEMMA EAckStep ==
  ASSUME PipelineInv, EAck
  PROVE  PipelineInv'
<1> USE DEF PipelineInv
<1>1. /\ epc = "acking" /\ down' = Append(down, Acknowledged) /\ status' = "ok" /\ epc' = "done"
      /\ UNCHANGED <<request, generate, eseq, epos, egen, estopped, kv1, lease1, stop0, up,
                     broken, rejected>>
  BY DEF EAck
<1> USE DEF request, generate
<1>2. TypeOK'
  <2>1. Counters'
    BY <1>1, TypeParts DEF Counters
  <2>2. Flags'
    BY <1>1, TypeParts DEF Flags
  <2> QED BY <2>1, <2>2, TypePartsNext
<1>3. split
  BY <1>1 DEF Alone
<1>4. CompletedTogether'
  BY <1>1 DEF CompletedTogether
<1>5. Count' = Count /\ (PrefillOnly' <=> PrefillOnly)
  BY <1>1 DEF Count, PrefillOnly, Prefilling, ChunkSize, Minimum
<1>6. GLocal' /\ ELocal' /\ UpInv'
  BY <1>1, <1>5 DEF GLocal, ELocal, UpInv
<1>7. Link'
  <2>1. gpc \in {"ack", "commit", "usage", "terminal", "done", "failed"}
    <3>1. gpc \notin {"start", "loop", "await", "emit", "finish", "eof"}
      BY <1>1, <1>3 DEF Link, ELocal, Asked, Answered
    <3> QED BY <3>1, TypeParts DEF Flags, Before, After
  <2>2. CASE gpc = "ack"
    <3>1. Level /\ down = <<>> /\ estopped
      BY <1>1, <1>3, <2>2 DEF Link, After
    <3>2. down' = <<Acknowledged>>
      BY <1>1, <3>1, OneMessage, Zenon
    <3> QED BY <1>1, <2>2, <3>1, <3>2 DEF Link, Level, After, Acknowledged
  <2>3. CASE gpc \in {"commit", "usage", "terminal", "done"}
    BY <1>1, <1>3, <2>3 DEF Link, Level, After
  <2>4. CASE gpc = "failed"
    BY <1>1, <2>4 DEF Link, After
  <2> QED BY <2>1, <2>2, <2>3, <2>4
<1> QED BY <1>1, <1>2, <1>3, <1>4, <1>6, <1>7

-----------------------------------------------------------------------------
(* The whole *)

\* Every step keeps the invariant.
LEMMA NextPipeline ==
  ASSUME PipelineInv, [Next]_vars
  PROVE  PipelineInv'
<1>1. CASE UNCHANGED vars
  BY <1>1, StutterPipeline
<1>2. CASE GenerateStep
  <2>1. CASE GEmitPrefill
    <3>1. stop0 \in BOOLEAN /\ broken \in BOOLEAN
      BY DEF PipelineInv, TypeOK
    <3> QED BY <2>1, <3>1, QuietStep DEF GEmitPrefill, stream
  <2> QED
    BY <1>2, <2>1, OpenStep, ComputeStep, ReadProgressStep, ReadSampledStep, EmitTokenStep,
       FinishStep, ReadAckStep, ReadEofStep, CommitStep, FailStep DEF GenerateStep
<1>3. CASE ExecuteStep
  BY <1>3, EOpenStep, ETensorStep, ETerminateStep, EAckStep, EFailStep DEF ExecuteStep
<1>4. CASE Stop0 \/ Watchdog0 \/ LoseConnection
  <2>1. stop0 \in BOOLEAN /\ broken \in BOOLEAN
    BY DEF PipelineInv, TypeOK
  <2>2. /\ stop0' \in BOOLEAN /\ broken' \in BOOLEAN
        /\ UNCHANGED <<request, generate, execute, up, down, status, rejected>>
    BY <1>4, <2>1 DEF Stop0, Watchdog0, LoseConnection, stream
  <2> QED BY <2>2, QuietStep
<1> QED
  BY <1>1, <1>2, <1>3, <1>4 DEF Next

\* So it always holds.
LEMMA PipelineInvariant == Spec => []PipelineInv
BY InitPipeline, NextPipeline, PTL DEF Spec

\* Neither handler ever rejects a message of the other, whatever the prompt, the chunk
\* and the output length, and wherever one of them fails or the stream breaks: their
\* counters agree although each keeps its own.
THEOREM HandlersAgree == Spec => []NoRejection
<1>1. PipelineInv => NoRejection
  BY DEF PipelineInv, NoRejection
<1> QED BY <1>1, PipelineInvariant, PTL

\* Stage 0 commits a split generation only when stage 1 has completed it.
THEOREM StagesCompleteTogether == Spec => []CompletedTogether
<1>1. PipelineInv => CompletedTogether
  BY DEF PipelineInv
<1> QED BY <1>1, PipelineInvariant, PTL

\* Between two passes and at the commit both caches hold the same tokens.
THEOREM CachesStayLevel == Spec => []CachesAgree
<1>1. PipelineInv => CachesAgree
  <2> SUFFICES ASSUME PipelineInv, gpc \in {"loop", "commit"}
               PROVE  /\ split => kv1 = kv0
                      /\ kv0 = IF generated = 0 THEN position ELSE prompt + generated - 1
    BY DEF CachesAgree
  <2>1. kv0 = position /\ (generated > 0 => position = prompt + generated - 1)
    BY DEF PipelineInv, GLocal, Before, After
  <2>2. split => kv1 = position
    BY DEF PipelineInv, Link, Level, ELocal, After
  <2>3. generated \in Nat
    BY Numbers DEF PipelineInv
  <2> QED BY <2>1, <2>2, <2>3
<1> QED BY <1>1, PipelineInvariant, PTL

-----------------------------------------------------------------------------
(* The client's view *)

\* What a written event makes of the stream.
LEMMA WrittenEvent ==
  ASSUME events \in Seq(Event), NEW e \in Event, events' = Append(events, e)
  PROVE  /\ events' \in Seq(Event) /\ Len(events') = Len(events) + 1 /\ Len(events) \in Nat
         /\ Client!Last' = e
<1>1. /\ events' \in Seq(Event) /\ Len(events') = Len(events) + 1 /\ Len(events) \in Nat
      /\ events'[Len(events) + 1] = e
  BY AppendProperties, LenProperties
<1> QED BY <1>1 DEF Client!Last, Client!Written

\* A step that writes nothing, and moves Generate between places where the client
\* knows the same, or to its end.
LEMMA EventsFrame ==
  ASSUME EventsInv, UNCHANGED <<prompt, maxNew, generated, events>>,
         \/ gpc' \in {gpc, "failed"}
         \/ gpc \in {"start", "loop", "await"} /\ gpc' \in {"loop", "await", "emit"}
            /\ (gpc = "start" => generated = 0)
         \/ gpc \in {"finish", "ack", "eof", "commit"} /\ gpc' \in {"ack", "eof", "commit", "usage"}
  PROVE  EventsInv' /\ UNCHANGED <<prompt, maxNew, events>>
<1>1. Client!Last' = Client!Last /\ Client!PrefillComplete' = Client!PrefillComplete
  BY DEF Client!Last, Client!Written, Client!PrefillComplete
<1>2. TokensSent' <=> TokensSent
  BY <1>1 DEF TokensSent
<1> QED BY <1>1, <1>2 DEF EventsInv

\* The event behind the prompt.
LEMMA EmitPrefillEvents ==
  ASSUME PipelineInv, EventsInv, GEmitPrefill
  PROVE  EventsInv' /\ Client!Next
<1>1. /\ gpc = "emit" /\ generated = 0 /\ events = <<>>
      /\ events' = Append(events, Client!PrefillComplete)
      /\ UNCHANGED <<prompt, maxNew, gpc, generated>>
  BY DEF GEmitPrefill, request, generate
<1>2. Client!PrefillComplete \in Event /\ Client!PrefillComplete' = Client!PrefillComplete
  BY <1>1, Numbers DEF PipelineInv, Event, Client!PrefillComplete
<1>3. events' = <<Client!PrefillComplete>> /\ events' \in Seq(Event)
  <2>1. events' = <<Client!PrefillComplete>>
    BY <1>1, OneMessage, Zenon
  <2> QED BY <1>1, <1>2, <2>1, WrittenEvent DEF EventsInv
<1>4. EventsInv'
  BY <1>1, <1>2, <1>3 DEF EventsInv
<1>5. Client!Next
  BY <1>1 DEF Client!Next, Client!Write
<1> QED BY <1>4, <1>5

\* The token has the next position, because Generate's position is one behind its
\* tokens once the prompt is done.
LEMMA EmitTokenEvents ==
  ASSUME PipelineInv, EventsInv, GEmitToken
  PROVE  EventsInv' /\ Client!Next
<1>1. /\ gpc = "emit" /\ gpc \in Before /\ ~PrefillOnly /\ (generated = 0 => events # <<>>)
      /\ generated' = generated + 1
      /\ gpc' = IF stopToken \/ generated + 1 = maxNew THEN "finish" ELSE "loop"
      /\ events' = Append(events, Client!Token(position + Count, stopToken))
      /\ UNCHANGED <<prompt, maxNew, stopToken>>
  BY DEF GEmitToken, Before, PipelineInv, GLocal, request
<1>2. position + Count = prompt + generated /\ position + Count \in Nat /\ stopToken \in BOOLEAN
  <2>1. position + Count = prompt + generated
    BY <1>1, CountFacts DEF PipelineInv
  <2> QED BY <2>1, Numbers DEF PipelineInv, TypeOK
<1>3. generated \in Nat /\ maxNew \in Nat /\ generated < maxNew
  BY <1>1, Numbers DEF PipelineInv, GLocal
<1> DEFINE e == Client!Token(prompt + generated, stopToken)
<1>4. e \in Event /\ e.type = "token" /\ e.stop = stopToken
  BY <1>2 DEF Event, Client!Token
<1>5. events \in Seq(Event) /\ events' = Append(events, e)
  BY <1>1, <1>2 DEF EventsInv
<1>6. Len(events) = generated + 1 /\ Client!Streaming /\ ~Client!Finished
  <2>1. CASE generated = 0
    <3>1. events = <<Client!PrefillComplete>>
      BY <1>1, <2>1 DEF EventsInv
    <3>2. Len(events) = 1 /\ Client!Last.type = "prefill_complete"
      BY <3>1 DEF Client!Last, Client!Written, Client!PrefillComplete
    <3> QED BY <2>1, <3>2 DEF Client!Streaming, Client!Finished, Client!TokensOut, Client!Written
  <2>2. CASE generated > 0
    <3>1. Len(events) = generated + 1 /\ Client!Last.type = "token" /\ ~Client!Last.stop
      BY <1>1, <2>2 DEF EventsInv, TokensSent
    <3> QED
      BY <1>3, <3>1 DEF Client!Streaming, Client!Finished, Client!TokensOut, Client!Written
  <2> QED BY <1>3, <2>1, <2>2
<1> HIDE DEF e
<1>7. events' \in Seq(Event) /\ Len(events') = generated' + 1 /\ Client!Last' = e
  BY <1>1, <1>3, <1>4, <1>5, <1>6, WrittenEvent
<1>8. EventsInv'
  <2>1. TokensSent' /\ (Client!Last').stop = stopToken
    BY <1>4, <1>7 DEF TokensSent
  <2>2. gpc' \in {"loop", "finish"} /\ (gpc' = "loop" => ~stopToken)
        /\ (gpc' = "finish" => stopToken \/ generated' = maxNew') /\ generated' > 0
    BY <1>1, <1>3
  <2> QED BY <1>7, <2>1, <2>2 DEF EventsInv
<1>9. Client!Next
  <2>1. Client!TokensOut = generated
    BY <1>3, <1>6 DEF Client!TokensOut, Client!Written
  <2>2. Client!Write(Client!Token(prompt + Client!TokensOut, stopToken))
    BY <1>1, <1>5, <2>1 DEF Client!Write, e
  <2> QED BY <1>2, <1>6, <2>2 DEF Client!Next
<1> QED BY <1>8, <1>9

\* The usage event.
LEMMA UsageEvents ==
  ASSUME PipelineInv, EventsInv, GUsage
  PROVE  EventsInv' /\ Client!Next
<1>1. /\ gpc = "usage" /\ gpc' = "terminal" /\ events' = Append(events, Client!Usage(generated))
      /\ UNCHANGED <<prompt, maxNew, generated>>
  BY DEF GUsage, request
<1>2. generated \in Nat /\ generated > 0
  BY <1>1, Numbers DEF PipelineInv, GLocal, After
<1>3. Client!Usage(generated) \in Event /\ Client!Usage(generated).type = "usage"
  BY <1>2 DEF Event, Client!Usage
<1>4. /\ events \in Seq(Event) /\ Len(events) = generated + 1 /\ Client!Last.type = "token"
      /\ (Client!Last.stop \/ generated = maxNew)
  BY <1>1 DEF EventsInv, TokensSent
<1>5. events' \in Seq(Event) /\ Len(events') > 0 /\ (Client!Last').type = "usage"
  BY <1>1, <1>2, <1>3, <1>4, WrittenEvent
<1>6. EventsInv'
  BY <1>1, <1>5 DEF EventsInv
<1>7. Client!Finished /\ Client!TokensOut = generated
  BY <1>2, <1>4 DEF Client!Finished, Client!Streaming, Client!TokensOut, Client!Written
<1>8. Client!Next
  BY <1>1, <1>7 DEF Client!Next, Client!Write
<1> QED BY <1>6, <1>8

\* The terminal event.
LEMMA TerminalEvents ==
  ASSUME PipelineInv, EventsInv, GTerminal
  PROVE  EventsInv' /\ Client!Next
<1>1. /\ gpc = "terminal" /\ gpc' = "done" /\ events' = Append(events, Client!Terminal)
      /\ UNCHANGED <<prompt, maxNew>>
  BY DEF GTerminal, request
<1>2. Client!Terminal \in Event
  BY DEF Event, Client!Terminal
<1>3. events \in Seq(Event) /\ Len(events) > 0 /\ Client!Last.type = "usage"
  BY <1>1 DEF EventsInv
<1>4. events' \in Seq(Event)
  BY <1>1, <1>2, <1>3, WrittenEvent
<1>5. EventsInv'
  BY <1>1, <1>4 DEF EventsInv
<1>6. Client!Next
  BY <1>1, <1>3 DEF Client!Next, Client!Write, Client!Written
<1> QED BY <1>5, <1>6

\* Every step keeps what is known of the events.
LEMMA NextEvents ==
  ASSUME PipelineInv, EventsInv, [Next]_vars
  PROVE  EventsInv' /\ [Client!Next]_<<prompt, maxNew, events>>
<1>1. CASE GEmitPrefill \/ GEmitToken \/ GUsage \/ GTerminal
  BY <1>1, EmitPrefillEvents, EmitTokenEvents, UsageEvents, TerminalEvents
<1>2. CASE \/ GOpen \/ GCompute \/ GReadProgress \/ GReadSampled \/ GFinish \/ GReadAck \/ GReadEof
           \/ GCommit \/ GFail
  <2>1. UNCHANGED <<prompt, maxNew, generated, events>>
    BY <1>2 DEF GOpen, GCompute, GReadProgress, GReadSampled, GFinish, GReadAck, GReadEof, GCommit,
                GFail, GReject, GThrow, request
  <2>2. \/ gpc' \in {gpc, "failed"}
        \/ gpc \in {"start", "loop", "await"} /\ gpc' \in {"loop", "await", "emit"}
        \/ gpc \in {"finish", "ack", "eof", "commit"} /\ gpc' \in {"ack", "eof", "commit", "usage"}
    BY <1>2 DEF GOpen, GCompute, GReadProgress, GReadSampled, GFinish, GReadAck, GReadEof, GCommit,
                GFail, GReject, GThrow
  <2>3. gpc = "start" => generated = 0
    BY DEF PipelineInv, GLocal
  <2> QED BY <2>1, <2>2, <2>3, EventsFrame
<1>3. CASE ExecuteStep \/ Stop0 \/ Watchdog0 \/ LoseConnection \/ UNCHANGED vars
  <2>1. UNCHANGED <<prompt, maxNew, generated, events, gpc>>
    BY <1>3 DEF ExecuteStep, EOpen, ETensor, ETerminate, EAck, EFail, Stop0, Watchdog0,
                LoseConnection, vars, request, generate
  <2> QED BY <2>1, EventsFrame
<1> QED
  BY <1>1, <1>2, <1>3 DEF Next, GenerateStep

\* The client of Generate sees a token stream: the prompt completes once, tokens follow
\* at consecutive positions until one stops or the requested number is out, then their
\* count and the terminal event; a failure anywhere only ends it early.
THEOREM RefinesTokenStream == Spec => ImplementsTokenStream
<1>1. Init => Client!Init /\ EventsInv
  <2> SUFFICES ASSUME Init PROVE Client!Init /\ EventsInv
    OBVIOUS
  <2>1. Client!Init
    BY PipelineAssumption DEF Init, Client!Init
  <2>2. EventsInv
    <3>1. <<>> \in Seq(Event)
      OBVIOUS
    <3> QED BY <3>1 DEF Init, EventsInv
  <2> QED BY <2>1, <2>2
<1>2. PipelineInv /\ EventsInv /\ [Next]_vars
        => EventsInv' /\ [Client!Next]_<<prompt, maxNew, events>>
  BY NextEvents
<1> QED
  BY <1>1, <1>2, PipelineInvariant, PTL DEF Spec, ImplementsTokenStream, Client!Spec
=============================================================================
