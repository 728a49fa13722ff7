----------------------------- MODULE PassServer -----------------------------
(***************************************************************************)
(* What a deployment's scheduler promises its callers, without queues,     *)
(* turns or tickets: passes run one at a time, a pass takes requests that  *)
(* are waiting and at most Width of them, every member is answered when    *)
(* the pass ends and not before, and the only requests answered without a  *)
(* pass are refused before one.                                            *)
(***************************************************************************)
EXTENDS Naturals, FiniteSets

CONSTANTS
  Requests,
  Width      \* the widest pass

VARIABLE state   \* what each request's caller sees

Running == {r \in Requests : state[r] = "running"}
Waiting == {r \in Requests : state[r] = "waiting"}

Init == state = [r \in Requests |-> "idle"]

Arrive(r) ==
  /\ state[r] = "idle"
  /\ state' = [state EXCEPT ![r] = "waiting"]

\* A waiting request gives up by itself.
Withdraw(r) ==
  /\ state[r] = "waiting"
  /\ state' = [state EXCEPT ![r] = "gone"]

\* A pass is formed: `members` run, `refused` are answered instead.
Form(members, refused) ==
  /\ Running = {}
  /\ members \subseteq Waiting /\ refused \subseteq Waiting
  /\ members \cap refused = {}
  /\ Cardinality(members) <= Width
  /\ state' = [r \in Requests |-> IF r \in members THEN "running"
                                  ELSE IF r \in refused THEN "answered"
                                  ELSE state[r]]

\* The running pass ends and answers all its members together.
Finish ==
  /\ Running # {}
  /\ state' = [r \in Requests |-> IF r \in Running THEN "answered" ELSE state[r]]

\* The caller takes its answer and goes on, or ends.
Take(r) ==
  /\ state[r] = "answered"
  /\ \E after \in {"idle", "gone"} : state' = [state EXCEPT ![r] = after]

Next ==
  \/ \E r \in Requests : Arrive(r) \/ Withdraw(r) \/ Take(r)
  \/ \E members, refused \in SUBSET Requests : Form(members, refused)
  \/ Finish

Spec == Init /\ [][Next]_state
=============================================================================
