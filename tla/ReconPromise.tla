---------------------------- MODULE ReconPromise ----------------------------
(***************************************************************************)
(* What full_recon promises to its caller, without threads, pools or a     *)
(* shared dictionary: every registered tool comes to exactly one outcome,  *)
(* a tool only after all tools of the earlier waves, and the report, if    *)
(* the domain was accepted, shows the final outcome of every tool.         *)
(***************************************************************************)
EXTENDS Naturals

CONSTANTS Tools,   \* the registered tools
          Wave,    \* Wave[t] is the wave in which tool t runs
          Gated    \* the tools that declare a should_run callback

VARIABLES outcome,    \* outcome[t]: what became of tool t
          status,     \* what the caller has got: nothing, a refusal, a report
          published   \* the coverage table of the report

vars == <<outcome, status, published>>

Pending == "pending"

Verdicts(t) == {"success", "failed"} \cup (IF t \in Gated THEN {"skipped"} ELSE {})

Init == /\ outcome = [t \in Tools |-> Pending]
        /\ status = "waiting"
        /\ published = [t \in Tools |-> Pending]

(* An invalid domain is refused before any tool is touched.                *)
Refuse == /\ status = "waiting"
          /\ \A t \in Tools : outcome[t] = Pending
          /\ status' = "refused"
          /\ UNCHANGED <<outcome, published>>

(* A tool is decided once, after every tool of the earlier waves.          *)
Decide(t) == /\ status = "waiting"
             /\ outcome[t] = Pending
             /\ \A u \in Tools : Wave[u] < Wave[t] => outcome[u] # Pending
             /\ \E v \in Verdicts(t) : outcome' = [outcome EXCEPT ![t] = v]
             /\ UNCHANGED <<status, published>>

(* The report states what became of every tool.                            *)
Publish == /\ status = "waiting"
           /\ \A t \in Tools : outcome[t] # Pending
           /\ published' = outcome
           /\ UNCHANGED <<outcome, status>>

Deliver == /\ status = "waiting"
           /\ \A t \in Tools : published[t] # Pending
           /\ published = outcome
           /\ status' = "report"
           /\ UNCHANGED <<outcome, published>>

Next == Refuse \/ Publish \/ Deliver \/ \E t \in Tools : Decide(t)

(* Once every tool is decided the report comes.  That the tools come to a  *)
(* decision is not promised: one that never returns blocks the report.     *)
Spec == Init /\ [][Next]_vars /\ WF_vars(Publish \/ Deliver)
=============================================================================
