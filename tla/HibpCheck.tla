------------------------------ MODULE HibpCheck ------------------------------
(***************************************************************************)
(* hibp_check (src/tools/hibp_tool.py): the breach service is asked for an *)
(* e-mail address or a domain; for an address it is asked for pastes too,  *)
(* a lookup that is "supplemental".  A reply is its status with the number *)
(* of entries; the entries' fields are left out.                           *)
(***************************************************************************)
EXTENDS Naturals

CONSTANTS EntryCounts  \* numbers of entries in a reply

HibpAssumption == EntryCounts \subseteq Nat

(* no reply: no connection, or a timeout; not JSON: a 200 whose body is no *)
(* JSON, which requests reports as one of its own exceptions; number: a    *)
(* 200 whose JSON is a number, which has no length.                        *)
Replies == ({"200"} \X EntryCounts)
             \cup ({"404", "401", "403", "429", "500", "not JSON", "number", "no reply"} \X {0})

VARIABLES pc,       \* control state
          query,    \* "email" or "domain"
          breachReply, pasteReply, \* the replies, each in a set of at most one
          exposure  \* the fields of the result, likewise

vars == <<pc, query, breachReply, pasteReply, exposure>>

(* _risk_level.                                                            *)
Risk(total) == CASE total <= 0    -> "NONE"
                 [] total \in 1..2  -> "LOW"
                 [] total \in 3..5  -> "MEDIUM"
                 [] total \in 6..10 -> "HIGH"
                 [] OTHER           -> "CRITICAL"

Result(total, pastes) == {[breached |-> total > 0, total |-> total, pastes |-> pastes,
                           risk |-> Risk(total)]}

Init == /\ pc = "called" /\ query = "none"
        /\ breachReply = {} /\ pasteReply = {} /\ exposure = {}

(* The query is neither, or there is no key.                               *)
Reject == /\ pc = "called"
          /\ pc' = "failed"
          /\ UNCHANGED <<query, breachReply, pasteReply, exposure>>

Accept == /\ pc = "called"
          /\ query' \in {"email", "domain"}
          /\ pc' = query'
          /\ UNCHANGED <<breachReply, pasteReply, exposure>>

(* For a domain any status but 200 is an error.                            *)
AskDomain(r) == /\ pc = "domain"
                /\ breachReply' = {r}
                /\ IF r[1] = "200" THEN exposure' = Result(r[2], 0) /\ pc' = "done"
                   ELSE pc' = "failed" /\ UNCHANGED exposure
                /\ UNCHANGED <<query, pasteReply>>

(* For an address 404 says that it is in no breach; pastes are not asked.  *)
AskEmail(r) == /\ pc = "email"
               /\ breachReply' = {r}
               /\ CASE r[1] = "200" -> pc' = "pastes" /\ UNCHANGED exposure
                    [] r[1] = "404" -> exposure' = Result(0, 0) /\ pc' = "done"
                    [] OTHER        -> pc' = "failed" /\ UNCHANGED exposure
               /\ UNCHANGED <<query, pasteReply>>

(* Mutant: no exception of the paste lookup is caught in its place.        *)
AskPastesStrict(r) ==
  /\ pc = "pastes"
  /\ pasteReply' = {r}
  /\ IF r[1] \in {"200", "404", "401", "403"}
     THEN exposure' = UNION {Result(b[2], r[2]) : b \in breachReply} /\ pc' = "done"
     ELSE pc' = "failed" /\ UNCHANGED exposure
  /\ UNCHANGED <<query, breachReply>>

(* Whatever status or RequestException comes of the paste lookup, only its *)
(* count depends on it.  The TypeError of len() on a reply that has no     *)
(* length is neither: the call fails, and the breaches are not returned.   *)
AskPastes(r) == /\ pc = "pastes"
                /\ pasteReply' = {r}
                /\ IF r[1] = "number" THEN pc' = "failed" /\ UNCHANGED exposure
                   ELSE /\ exposure' = UNION {Result(b[2], r[2]) : b \in breachReply}
                        /\ pc' = "done"
                /\ UNCHANGED <<query, breachReply>>

Ended == pc \in {"failed", "done"}

Next == \/ Reject \/ Accept
        \/ \E r \in Replies : AskDomain(r) \/ AskEmail(r) \/ AskPastes(r)

-----------------------------------------------------------------------------
TypeOK == /\ pc \in {"called", "email", "domain", "pastes", "failed", "done"}
          /\ query \in {"none", "email", "domain"}
          /\ breachReply \cup pasteReply \subseteq Replies
          /\ \A e \in exposure : e.total \in Nat /\ e.pastes \in Nat

(* The breaches that the service reported are reported whatever status or  *)
(* failure the paste lookup ends with, unless its reply is JSON of another *)
(* shape, and "not breached" is said, with risk NONE, only of a reply that *)
(* says so: an empty list, or 404 for an address.                          *)
BreachesSurvive ==
  /\ pc = "done" =>
       \A e \in exposure : \E b \in breachReply :
         /\ b[1] = "200" \/ (b[1] = "404" /\ query = "email")
         /\ e.total = b[2]
         /\ e.breached <=> e.risk # "NONE"
         /\ e.breached <=> b[2] > 0
         /\ e.pastes > 0 => \E p \in pasteReply : p = <<"200", e.pastes>>
  /\ (pc = "failed" /\ query # "none") =>
       \A b \in breachReply :
         /\ b[1] = "200" => \E p \in pasteReply : p[1] = "number"
         /\ b[1] = "404" => query = "domain"

(* hibp_tool.py: "Paste lookup is supplemental; breach data remains useful *)
(* alone", so a call fails only over the breaches' own reply.              *)
PastesSupplemental ==
  (pc = "failed" /\ query # "none") => \A b \in breachReply : b[1] # "200"
=============================================================================
