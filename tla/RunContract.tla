----------------------------- MODULE RunContract -----------------------------
(***************************************************************************)
(* What a run promises to the agent that asked for it, whatever happens    *)
(* inside the pipeline: it moves from queued to running to one terminal    *)
(* status and stays there; nothing reaches the chain unless the gates      *)
(* granted the whole list of actions; a denial means nothing was sent, a   *)
(* success means everything was.  A run may also stay where it is forever  *)
(* (the server crashed, the store or the node failed).                     *)
(***************************************************************************)
EXTENDS Integers

CONSTANTS Runs, Index, None

VARIABLES
  status,   \* status[r]
  wanted,   \* wanted[r]: the actions the strategy asked for
  granted,  \* granted[r]: did every gate let every action through?
  sent      \* sent[r]: the actions handed to the chain so far

vars == <<status, wanted, granted, sent>>

Denied == {"simulation_denied", "policy_denied"}

Init ==
  /\ status = [r \in Runs |-> None]
  /\ wanted = [r \in Runs |-> {}]
  /\ granted = [r \in Runs |-> FALSE]
  /\ sent = [r \in Runs |-> {}]

Submit(r) ==
  /\ status[r] = None
  /\ status' = [status EXCEPT ![r] = "queued"]
  /\ UNCHANGED <<wanted, granted, sent>>

Begin(r) ==
  /\ status[r] = "queued"
  /\ status' = [status EXCEPT ![r] = "running"]
  /\ UNCHANGED <<wanted, granted, sent>>

Ask(r, W) ==
  /\ status[r] = "running"
  /\ wanted[r] = {}
  /\ wanted' = [wanted EXCEPT ![r] = W]
  /\ UNCHANGED <<status, granted, sent>>

Grant(r) ==
  /\ status[r] = "running"
  /\ wanted[r] # {}
  /\ granted' = [granted EXCEPT ![r] = TRUE]
  /\ UNCHANGED <<status, wanted, sent>>

\* Actions leave once, in order, one at a time or all together.
Send(r, S) ==
  /\ status[r] = "running"
  /\ granted[r]
  /\ S \subseteq wanted[r] /\ S \cap sent[r] = {}
  /\ \A i \in S, j \in wanted[r] \ (S \cup sent[r]) : i < j
  /\ sent' = [sent EXCEPT ![r] = @ \cup S]
  /\ UNCHANGED <<status, wanted, granted>>

Finish(r, st) ==
  /\ status[r] = "running"
  /\ st \in Denied => sent[r] = {}
  /\ st = "succeeded" => sent[r] = wanted[r]
  /\ status' = [status EXCEPT ![r] = st]
  /\ UNCHANGED <<wanted, granted, sent>>

Next ==
  \E r \in Runs :
    \/ Submit(r) \/ Begin(r) \/ Grant(r)
    \/ \E W \in (SUBSET Index) \ {{}} : Ask(r, W)
    \/ \E S \in (SUBSET Index) \ {{}} : Send(r, S)
    \/ \E st \in Denied \cup {"succeeded", "failed"} : Finish(r, st)

Spec == Init /\ [][Next]_vars

=============================================================================
