----------------------------- MODULE IpReputation -----------------------------
(***************************************************************************)
(* ip_reputation (src/tools/iprep_tool.py): one question to the abuse      *)
(* database, whose answer is classified; ip_reputation_extractor           *)
(* (src/tools/signals/ip_reputation.py) warns by the class and the score.  *)
(* The descriptive fields of the answer are left out.                      *)
(***************************************************************************)
EXTENDS Naturals

CONSTANTS Scores,  \* abuseConfidenceScore
          Null     \* a score that is null

IpAssumption == Scores \subseteq Nat /\ Null \notin Nat

Evidence == [whitelisted : BOOLEAN, score : Scores \cup {Null}, tor : BOOLEAN]

VARIABLES pc,         \* control state
          evidence,   \* the answer of the service, in a set of at most one
          reputation, \* the class of the result
          abuseScore, flagged, ipWarning \* the signals and the warning

vars == <<pc, evidence, reputation, abuseScore, flagged, ipWarning>>

(* Mutant: the whitelist is asked last.                                    *)
ClassWhitelistLast(e) ==
  IF e.score = Null \/ (e.whitelisted /\ e.score < 25 /\ ~e.tor) THEN "trusted"
  ELSE CASE e.score >= 75                            -> "high-risk"
         [] e.score < 75 /\ (e.tor \/ e.score >= 25) -> "suspicious"
         [] OTHER -> IF e.score > 0 THEN "low-risk" ELSE "clean"

(* classify_reputation.                                                    *)
Class(e) ==
  IF e.whitelisted THEN "trusted"
  ELSE CASE e.score >= 75                            -> "high-risk"
         [] e.score < 75 /\ (e.tor \/ e.score >= 25) -> "suspicious"
         [] OTHER -> IF e.score > 0 THEN "low-risk" ELSE "clean"

Init == /\ pc = "called" /\ evidence = {} /\ reputation = "none"
        /\ abuseScore = 0 /\ flagged = FALSE /\ ipWarning = "none"

(* No address, no key, or the request fails.                               *)
Fails == /\ pc = "called"
         /\ pc' = "failed"
         /\ UNCHANGED <<evidence, reputation, abuseScore, flagged, ipWarning>>

(* A score of null cannot be compared; the exception is caught.            *)
Classify(e) == /\ pc = "called"
               /\ evidence' = {e}
               /\ IF e.whitelisted \/ e.score # Null
                  THEN reputation' = Class(e) /\ pc' = "signals"
                  ELSE pc' = "failed" /\ UNCHANGED reputation
               /\ UNCHANGED <<abuseScore, flagged, ipWarning>>

(* ip_reputation_extractor; is_malicious is of the class.                  *)
Extract == /\ pc = "signals"
           /\ flagged' = (reputation \in {"high-risk", "suspicious"})
           /\ \E e \in evidence : abuseScore' = IF e.score = Null THEN 0 ELSE e.score
           /\ ipWarning' = CASE flagged'                       -> "malicious"
                             [] ~flagged' /\ abuseScore' > 20  -> "elevated"
                             [] OTHER                          -> "none"
           /\ pc' = "done"
           /\ UNCHANGED <<evidence, reputation>>

Ended == pc \in {"failed", "done"}

Next == Fails \/ Extract \/ \E e \in Evidence : Classify(e)

-----------------------------------------------------------------------------
TypeOK == /\ pc \in {"called", "signals", "failed", "done"}
          /\ evidence \subseteq Evidence
          /\ reputation \in {"none", "trusted", "clean", "low-risk", "suspicious", "high-risk"}
          /\ abuseScore \in Nat /\ flagged \in BOOLEAN
          /\ ipWarning \in {"none", "malicious", "elevated"}

Severity(r) == CASE r = "high-risk" -> 3 [] r = "suspicious" -> 2 [] r = "low-risk" -> 1
                 [] OTHER -> 0

(* The verdict is the service's: more abuse, or a Tor exit, never makes it *)
(* milder, but whitelisting does; "MALICIOUS" is warned of exactly when    *)
(* the class is suspicious or worse; without a warning the score is low,   *)
(* the address no Tor exit unless whitelisted; and a score that is null    *)
(* makes the call fail, or is of a whitelisted address.                    *)
VerdictFollowsEvidence ==
  /\ pc = "done" =>
       \A e \in evidence :
         /\ e.score = Null => e.whitelisted
         /\ \A d \in [whitelisted : {e.whitelisted}, score : Scores, tor : BOOLEAN] :
              (e.score # Null /\ d.score <= e.score /\ (d.tor => e.tor)) =>
                Severity(Class(d)) <= Severity(reputation)
         /\ ipWarning = "malicious" <=> Severity(reputation) >= 2
         /\ ipWarning = "none" => abuseScore <= 20 /\ (e.tor => e.whitelisted)
         /\ e.whitelisted => ipWarning # "malicious"
  /\ pc = "failed" => ~flagged /\ abuseScore = 0 /\ ipWarning = "none"
=============================================================================
