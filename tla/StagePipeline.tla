--------------------------- MODULE StagePipeline ----------------------------
(***************************************************************************)
(* One generation across two workers (cpp/src/worker/execution_service.cpp):*)
(* the Generate handler of stage 0 drives the Execute handler of stage 1   *)
(* over a bidirectional stream.  Each handler keeps its own position, step *)
(* and token counts, and rejects any message of the other that does not    *)
(* match them.                                                             *)
(*                                                                         *)
(* The stream is FIFO in both directions until it breaks: a connection is  *)
(* lost, or the client side cancels it (TryCancel), after which nothing is *)
(* promised to arrive.  A handler can fail at any step (backend error,     *)
(* refused reservation, failed write, stop flag), and unwinding releases   *)
(* its lease and cancels the stream.  Activations, sampling, identities    *)
(* and timing are left out; a sampled token is a stop token or not.        *)
(***************************************************************************)
EXTENDS Naturals, Sequences

CONSTANTS
  MaxPrompt,   \* bound: prompts of 1..MaxPrompt tokens
  MaxChunk,    \* bound: prefill_chunk_tokens of 0..MaxChunk
  MaxOutput    \* bound: maximum_new_tokens of 1..MaxOutput

ASSUME PipelineAssumption ==
  MaxPrompt \in Nat \ {0} /\ MaxChunk \in Nat /\ MaxOutput \in Nat \ {0}

VARIABLES
  prompt, chunk, maxNew,  \* the request: prompt length, prefill_chunk_tokens, maximum_new_tokens
  split,                  \* whether the deployment has two stages
  gpc,         \* where Generate is
  step,        \* its loop counter, the sequence number of its next message
  position,    \* its position
  kv0,         \* tokens in the stage-0 cache
  generated,   \* its generated
  stopToken,   \* whether the last sampled token is a stop token
  lease0,      \* stage 0's reservation: "none", "held", or why it was retired
  stop0,       \* stopped on stage 0: cancelled, past its deadline, or client gone
  epc,         \* where Execute is
  eseq, epos, egen, estopped,   \* its sequence, position, generated and stopped
  kv1,         \* tokens in the stage-1 cache
  lease1,      \* as lease0, on stage 1
  up, down,    \* messages in flight to stage 1 and to stage 0
  broken,      \* the stream is lost or was cancelled by its client side
  status,      \* what Execute returned, or "open"
  rejected,    \* history: one end rejected a message of the other
  events       \* what the client of Generate has been sent

request == <<prompt, chunk, maxNew, split>>
generate == <<gpc, step, position, kv0, generated, stopToken, lease0>>
execute == <<epc, eseq, epos, egen, estopped, kv1, lease1>>
stream == <<up, down, broken, status>>
vars == <<request, generate, execute, stop0, stream, rejected, events>>

Minimum(m, n) == IF m <= n THEN m ELSE n

\* query_rows(): the most rows one input of the reservation may carry.
QueryRows ==
  LET total == prompt + maxNew
  IN  IF chunk = 0 \/ chunk > total THEN total ELSE chunk

\* The next input of Generate: a chunk of the prompt, then one token at a time.
ChunkSize == IF chunk = 0 THEN prompt ELSE Minimum(chunk, prompt)
Prefilling == position < prompt
\* Mutation: The last chunk of the prompt is not cut to what is left of it.
CountWholeChunk == IF Prefilling THEN ChunkSize ELSE 1

Count == IF Prefilling THEN Minimum(ChunkSize, prompt - position) ELSE 1
PrefillOnly == Prefilling /\ position + Count < prompt

Open == [type |-> "open", seq |-> 0, at |-> 0, n |-> 0, prefill |-> FALSE]
Tensor(s, p, n, pre) == [type |-> "tensor", seq |-> s, at |-> p, n |-> n, prefill |-> pre]
Terminate(n) == [type |-> "terminate", seq |-> 0, at |-> prompt, n |-> n, prefill |-> FALSE]
Progress(s, p) == [type |-> "progress", seq |-> s, at |-> p, stop |-> FALSE]
Sampled(s, p, stop) == [type |-> "sampled", seq |-> s, at |-> p, stop |-> stop]
Acknowledged == [type |-> "ack", seq |-> 0, at |-> 0, stop |-> FALSE]

Client == INSTANCE TokenStream

-----------------------------------------------------------------------------

Init ==
  /\ prompt \in 1..MaxPrompt /\ chunk \in 0..MaxChunk /\ maxNew \in 1..MaxOutput
  /\ split \in BOOLEAN
  /\ gpc = "start" /\ step = 0 /\ position = 0 /\ kv0 = 0 /\ generated = 0
  /\ stopToken = FALSE /\ lease0 = "none" /\ stop0 = FALSE
  /\ epc = "absent" /\ eseq = 0 /\ epos = 0 /\ egen = 0 /\ estopped = FALSE
  /\ kv1 = 0 /\ lease1 = "none"
  /\ up = <<>> /\ down = <<>> /\ broken = FALSE /\ status = "open"
  /\ rejected = FALSE /\ events = <<>>

-----------------------------------------------------------------------------
(* Generate, on stage 0 *)

\* Mutation: Without CancelPeerOnExit.
GThrowSilently ==
  /\ gpc' = "failed"
  /\ lease0' = IF lease0 = "held" THEN "failed" ELSE lease0
  /\ UNCHANGED <<step, position, kv0, generated, stopToken, broken>>

\* The handler throws: the guard releases what is still reserved, and
\* CancelPeerOnExit cancels the stream.
GThrow ==
  /\ gpc' = "failed"
  /\ lease0' = IF lease0 = "held" THEN "failed" ELSE lease0
  /\ broken' = TRUE
  /\ UNCHANGED <<step, position, kv0, generated, stopToken>>

\* A message that fails the handler's validation.
GReject == GThrow /\ rejected' = TRUE

\* acquire(), the checks of the request, and the opening message.
GOpen ==
  /\ gpc = "start"
  /\ ChunkSize <= QueryRows
  /\ lease0' = "held"
  /\ gpc' = "loop"
  /\ up' = IF split THEN Append(up, Open) ELSE up
  /\ UNCHANGED <<request, step, position, kv0, generated, stopToken, execute, stop0,
                 down, broken, status, rejected, events>>

\* One pass on this stage: the backend demands the position its cache is at.
\* A split deployment ships the activation; the last stage samples itself.
GCompute ==
  /\ gpc = "loop" /\ generated < maxNew
  /\ ~stop0
  /\ position = kv0
  /\ kv0' = kv0 + Count
  /\ IF split
     THEN /\ up' = Append(up, Tensor(step, position, Count, Prefilling))
          /\ gpc' = "await"
          /\ UNCHANGED <<step, position, stopToken>>
     ELSE /\ UNCHANGED up
          /\ IF PrefillOnly
             THEN gpc' = "loop" /\ step' = step + 1 /\ position' = position + Count
                  /\ UNCHANGED stopToken
             ELSE gpc' = "emit" /\ stopToken' \in BOOLEAN /\ UNCHANGED <<step, position>>
  /\ UNCHANGED <<request, generated, lease0, execute, stop0, down, broken, status,
                 rejected, events>>

\* The answer to an incomplete prompt is an acknowledgment of its position.
GReadProgress ==
  /\ gpc = "await" /\ PrefillOnly /\ down # <<>>
  /\ down' = Tail(down)
  /\ IF Head(down) = Progress(step, position + Count)
     THEN /\ step' = step + 1 /\ position' = position + Count /\ gpc' = "loop"
          /\ UNCHANGED <<kv0, generated, stopToken, lease0, broken, rejected>>
     ELSE GReject
  /\ UNCHANGED <<request, execute, stop0, up, status, events>>

\* The answer to anything else is a sampled token for the position behind it.
GReadSampled ==
  /\ gpc = "await" /\ ~PrefillOnly /\ down # <<>>
  /\ down' = Tail(down)
  /\ IF Head(down) = Sampled(step, position + Count, Head(down).stop)
     THEN /\ gpc' = "emit" /\ stopToken' = Head(down).stop
          /\ UNCHANGED <<step, position, kv0, generated, lease0, broken, rejected>>
     ELSE GReject
  /\ UNCHANGED <<request, execute, stop0, up, status, events>>

\* The first token is announced by a prefill_complete event.
GEmitPrefill ==
  /\ gpc = "emit" /\ generated = 0 /\ events = <<>>
  /\ ~stop0
  /\ events' = Append(events, Client!PrefillComplete)
  /\ UNCHANGED <<request, generate, execute, stop0, stream, rejected>>

\* Mutation: The event is written before the position is advanced.
GEmitTokenEarly ==
  /\ gpc = "emit" /\ (generated = 0 => events # <<>>)
  /\ ~stop0
  /\ position' = position + Count
  /\ events' = Append(events, Client!Token(position, stopToken))
  /\ generated' = generated + 1
  /\ step' = step + 1
  /\ gpc' = IF stopToken \/ generated' = maxNew THEN "finish" ELSE "loop"
  /\ UNCHANGED <<request, kv0, stopToken, lease0, execute, stop0, stream, rejected>>

\* A token event, then the loop's exit conditions.
GEmitToken ==
  /\ gpc = "emit" /\ (generated = 0 => events # <<>>)
  /\ ~stop0
  /\ position' = position + Count
  /\ events' = Append(events, Client!Token(position + Count, stopToken))
  /\ generated' = generated + 1
  /\ step' = step + 1
  /\ gpc' = IF stopToken \/ generated' = maxNew THEN "finish" ELSE "loop"
  /\ UNCHANGED <<request, kv0, stopToken, lease0, execute, stop0, stream, rejected>>

\* Mutation: The acknowledgment is not awaited.
GFinishUnacknowledged ==
  /\ gpc = "finish"
  /\ gpc' = "commit"
  /\ up' = IF split THEN Append(up, Terminate(generated)) ELSE up
  /\ UNCHANGED <<request, step, position, kv0, generated, stopToken, lease0, execute, stop0,
                 down, broken, status, rejected, events>>

\* Termination: Write, WritesDone, then the acknowledgment and the end of the
\* stream are both awaited before anything is committed.
GFinish ==
  /\ gpc = "finish"
  /\ gpc' = IF split THEN "ack" ELSE "commit"
  /\ up' = IF split THEN Append(up, Terminate(generated)) ELSE up
  /\ UNCHANGED <<request, step, position, kv0, generated, stopToken, lease0, execute, stop0,
                 down, broken, status, rejected, events>>

GReadAck ==
  /\ gpc = "ack" /\ down # <<>>
  /\ down' = Tail(down)
  /\ IF Head(down) = Acknowledged
     THEN gpc' = "eof" /\ UNCHANGED <<step, position, kv0, generated, stopToken, lease0, broken, rejected>>
     ELSE GReject
  /\ UNCHANGED <<request, execute, stop0, up, status, events>>

\* The second Read finds the end of the stream and Finish() its status.
GReadEof ==
  /\ gpc = "eof" /\ status = "ok"
  /\ IF down = <<>>
     THEN gpc' = "commit" /\ UNCHANGED <<step, position, kv0, generated, stopToken, lease0, broken, rejected>>
     ELSE GReject
  /\ UNCHANGED <<request, execute, stop0, up, down, status, events>>

\* watchdog.stop(), check_running() and release(active, kCompleted).
GCommit ==
  /\ gpc = "commit"
  /\ ~stop0
  /\ lease0' = "completed"
  /\ gpc' = "usage"
  /\ UNCHANGED <<request, step, position, kv0, generated, stopToken, execute, stop0, stream,
                 rejected, events>>

\* The last two events are written without a look at the stop flag.
GUsage ==
  /\ gpc = "usage"
  /\ events' = Append(events, Client!Usage(generated))
  /\ gpc' = "terminal"
  /\ UNCHANGED <<request, step, position, kv0, generated, stopToken, lease0, execute, stop0,
                 stream, rejected>>

\* Returning runs CancelPeerOnExit too; the stream has already finished.
GTerminal ==
  /\ gpc = "terminal"
  /\ events' = Append(events, Client!Terminal)
  /\ gpc' = "done"
  /\ broken' = TRUE
  /\ UNCHANGED <<request, step, position, kv0, generated, stopToken, lease0, execute, stop0,
                 up, down, status, rejected>>

\* Anything that throws: a refused reservation, the backend, a failed write.
GFail ==
  /\ gpc \notin {"done", "failed"}
  /\ GThrow
  /\ UNCHANGED <<request, execute, stop0, up, down, status, rejected, events>>

\* What the code guarantees of it: check_running() sees the stop flag, while a
\* Read of the peer returns only when the stream has broken or was ended.
GUnwind ==
  /\ \/ gpc \in {"loop", "emit", "commit"} /\ stop0
     \/ gpc \in {"await", "ack", "eof"}
        /\ (broken \/ (status # "open" /\ down = <<>>))
  /\ GFail

-----------------------------------------------------------------------------
(* Execute, on stage 1 *)

\* The handler throws: the guard releases what is still reserved.
EThrow ==
  /\ epc' = "done"
  /\ lease1' = IF lease1 = "held" THEN "failed" ELSE lease1
  /\ status' = "failed"
  /\ UNCHANGED <<eseq, epos, egen, estopped, kv1, down>>

\* A message that fails the handler's validation.
EReject == EThrow /\ rejected' = TRUE

\* acquire() and the opening message.
EOpen ==
  /\ epc = "absent" /\ up # <<>>
  /\ up' = Tail(up)
  /\ IF Head(up) = Open
     THEN /\ lease1' = "held" /\ epc' = "read"
          /\ UNCHANGED <<eseq, epos, egen, estopped, kv1, down, status, rejected>>
     ELSE EReject
  /\ UNCHANGED <<request, generate, stop0, broken, events>>

\* Mutation: Only the first message counts as prefill.
EPrefillingOnce == eseq = 0

EPrefilling == eseq = 0 \/ epos < prompt

\* decode_tensor(), the chunk checks, and the backend's own position check.
ValidTensor(m) ==
  /\ m.type = "tensor" /\ ~estopped
  /\ m.seq = eseq /\ m.at = epos /\ m.prefill = EPrefilling
  /\ m.n > 0 /\ epos + m.n <= prompt + maxNew
  /\ IF EPrefilling THEN m.n <= prompt - epos ELSE m.n = 1
  /\ m.n <= QueryRows
  /\ epos = kv1

\* Mutation: The cache advances one token per pass.
EPassByOne(m) ==
  /\ eseq' = eseq + 1
  /\ epos' = epos + m.n
  /\ kv1' = kv1 + 1
  /\ IF EPrefilling /\ epos + m.n < prompt
     THEN down' = Append(down, Progress(eseq, epos + m.n)) /\ UNCHANGED <<egen, estopped>>
     ELSE \E stop \in BOOLEAN :
            /\ down' = Append(down, Sampled(eseq, epos + m.n, stop))
            /\ egen' = egen + 1
            /\ estopped' = (egen + 1 = maxNew \/ stop)
  /\ UNCHANGED <<epc, lease1, status, rejected>>

\* One pass: an acknowledgment for an incomplete prompt, else a sampled token.
EPass(m) ==
  /\ eseq' = eseq + 1
  /\ epos' = epos + m.n
  /\ kv1' = kv1 + m.n
  /\ IF EPrefilling /\ epos + m.n < prompt
     THEN down' = Append(down, Progress(eseq, epos + m.n)) /\ UNCHANGED <<egen, estopped>>
     ELSE \E stop \in BOOLEAN :
            /\ down' = Append(down, Sampled(eseq, epos + m.n, stop))
            /\ egen' = egen + 1
            /\ estopped' = (egen + 1 = maxNew \/ stop)
  /\ UNCHANGED <<epc, lease1, status, rejected>>

ETensor ==
  /\ epc = "read" /\ up # <<>> /\ Head(up).type # "terminate"
  /\ up' = Tail(up)
  /\ IF ValidTensor(Head(up)) THEN EPass(Head(up)) ELSE EReject
  /\ UNCHANGED <<request, generate, stop0, broken, events>>

\* A valid termination retires the request before it is acknowledged.
ETerminate ==
  /\ epc = "read" /\ up # <<>> /\ Head(up).type = "terminate"
  /\ up' = Tail(up)
  /\ IF estopped /\ Head(up) = Terminate(egen)
     THEN /\ lease1' = "completed" /\ epc' = "acking"
          /\ UNCHANGED <<eseq, epos, egen, estopped, kv1, down, status, rejected>>
     ELSE EReject
  /\ UNCHANGED <<request, generate, stop0, broken, events>>

EAck ==
  /\ epc = "acking"
  /\ down' = Append(down, Acknowledged)
  /\ status' = "ok"
  /\ epc' = "done"
  /\ UNCHANGED <<request, generate, eseq, epos, egen, estopped, kv1, lease1, stop0, up,
                 broken, rejected, events>>

\* Anything that throws: a refused reservation, the backend, a failed write.
EFail ==
  /\ epc \in {"read", "acking"} \/ (epc = "absent" /\ up # <<>>)
  /\ EThrow
  /\ UNCHANGED <<request, generate, stop0, up, broken, rejected, events>>

\* A cancelled stream makes the pending Read or Write of the handler fail.
EUnwind == broken /\ epc # "absent" /\ EFail

-----------------------------------------------------------------------------
(* What happens around them *)

\* CancelRequest on stage 0, the request's deadline, or a client that is gone.
Stop0 == ~stop0 /\ stop0' = TRUE
         /\ UNCHANGED <<request, generate, execute, stream, rejected, events>>

\* The watchdog of Generate, alive from the opening message to the commit.
Watchdog0 ==
  /\ stop0 /\ ~broken
  /\ gpc \in {"loop", "await", "emit", "finish", "ack", "eof"}
  /\ broken' = TRUE
  /\ UNCHANGED <<request, generate, execute, stop0, up, down, status, rejected, events>>

LoseConnection ==
  /\ ~broken /\ split /\ gpc # "start"
  /\ broken' = TRUE
  /\ UNCHANGED <<request, generate, execute, stop0, up, down, status, rejected, events>>

GenerateStep ==
  \/ GOpen \/ GCompute \/ GReadProgress \/ GReadSampled \/ GEmitPrefill \/ GEmitToken
  \/ GFinish \/ GReadAck \/ GReadEof \/ GCommit \/ GUsage \/ GTerminal \/ GFail

ExecuteStep == EOpen \/ ETensor \/ ETerminate \/ EAck \/ EFail

Next == GenerateStep \/ ExecuteStep \/ Stop0 \/ Watchdog0 \/ LoseConnection

Spec == Init /\ [][Next]_vars

\* Only the deadline of stage 0, its watchdog and what unwinds the two handlers
\* are fair: the backends and the peers need not make progress.
FairSpec ==
  /\ Spec
  /\ WF_vars(Stop0) /\ WF_vars(Watchdog0)
  /\ WF_vars(GFinish) /\ WF_vars(GUnwind) /\ WF_vars(EUnwind)

-----------------------------------------------------------------------------
(* Properties *)

Steps == MaxPrompt + MaxOutput
Leases == {"none", "held", "completed", "failed"}

\* Every variable has its type; in particular neither cache outgrows what was
\* reserved for it (the last token is never fed back).
TypeOK ==
  /\ prompt \in 1..MaxPrompt /\ chunk \in 0..MaxChunk /\ maxNew \in 1..MaxOutput
  /\ split \in BOOLEAN
  /\ gpc \in {"start", "loop", "await", "emit", "finish", "ack", "eof", "commit", "usage",
              "terminal", "done", "failed"}
  /\ epc \in {"absent", "read", "acking", "done"}
  /\ step \in 0..Steps /\ position \in 0..(prompt + maxNew) /\ generated \in 0..maxNew
  /\ eseq \in 0..Steps /\ epos \in 0..(prompt + maxNew) /\ egen \in 0..maxNew
  /\ kv0 \in 0..(prompt + maxNew - 1) /\ kv1 \in 0..(prompt + maxNew - 1)
  /\ stopToken \in BOOLEAN /\ estopped \in BOOLEAN /\ stop0 \in BOOLEAN
  /\ lease0 \in Leases /\ lease1 \in Leases
  /\ broken \in BOOLEAN /\ rejected \in BOOLEAN /\ status \in {"open", "ok", "failed"}

\* The two handlers keep their counters apart and still never reject a message
\* of the other, for any prompt length, chunk size and output length.  (Every
\* variable has its type as well.)
NoRejection == TypeOK /\ ~rejected

\* Stage 0 commits a split generation as completed only when stage 1 has retired
\* it as completed: no reservation is left behind a successful answer.
CompletedTogether == split /\ lease0 = "completed" => lease1 = "completed"

\* Between two passes, and when the outcome is committed, the caches of the two
\* stages hold the same tokens: what was read so far of the prompt, then every
\* token but the last.
CachesAgree ==
  gpc \in {"loop", "commit"} =>
    /\ split => kv1 = kv0
    /\ kv0 = IF generated = 0 THEN position ELSE prompt + generated - 1

\* The client of Generate sees a token stream, whatever fails behind it.
ImplementsTokenStream == Client!Spec

\* Whatever stalls, fails or is lost, both workers get their reservation back:
\* the deadline of stage 0 ends Generate, and the stream it cancels ends Execute.
ReservationsComeBack == <>[](lease0 # "held" /\ lease1 # "held")
=============================================================================
