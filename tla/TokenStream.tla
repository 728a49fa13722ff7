---------------------------- MODULE TokenStream -----------------------------
(***************************************************************************)
(* What the client of Generate sees, whatever runs behind it: the prompt   *)
(* completes once, tokens follow at consecutive positions until one is a   *)
(* stop token or the requested number is out, then the usage, which counts *)
(* them, and the terminal event.  The stream may end early at any point    *)
(* and is never resumed or replayed.                                       *)
(***************************************************************************)
EXTENDS Naturals, Sequences

VARIABLES
  prompt,   \* number of prompt tokens
  maxNew,   \* maximum_new_tokens
  events    \* the events written so far

PrefillComplete == [type |-> "prefill_complete", at |-> prompt, stop |-> FALSE]
Token(at, stop) == [type |-> "token", at |-> at, stop |-> stop]
Usage(n) == [type |-> "usage", at |-> n, stop |-> FALSE]
Terminal == [type |-> "terminal", at |-> 0, stop |-> FALSE]

\* After the prefill event the sequence holds tokens only, until the usage.
Written == Len(events)
Last == events[Written]
Streaming == Written > 0 /\ Last.type \in {"prefill_complete", "token"}
TokensOut == Written - 1
Finished == Streaming /\ TokensOut > 0 /\ (Last.stop \/ TokensOut = maxNew)

Init == prompt \in Nat \ {0} /\ maxNew \in Nat \ {0} /\ events = <<>>

Write(e) == events' = Append(events, e) /\ UNCHANGED <<prompt, maxNew>>

Next ==
  \/ events = <<>> /\ Write(PrefillComplete)
  \/ /\ Streaming /\ ~Finished
     /\ \E stop \in BOOLEAN : Write(Token(prompt + TokensOut, stop))
  \/ Finished /\ Write(Usage(TokensOut))
  \/ Written > 0 /\ Last.type = "usage" /\ Write(Terminal)

Spec == Init /\ [][Next]_<<prompt, maxNew, events>>
=============================================================================
