---------------------------- MODULE ToolCallsProofs ----------------------------
(***************************************************************************)
(* Proofs about ToolCalls: the invariant of a tool only has to be kept by  *)
(* the tool's own steps, since a call is of one tool and no other tool's   *)
(* variables change.                                                       *)
(***************************************************************************)
EXTENDS ToolCalls, FiniteSetTheorems, FunctionTheorems, WellFoundedInduction, TLAPS

(* Every non-empty set of naturals has a least element, since < on them is *)
(* well-founded.                                                           *)
LEMMA LeastElement ==
  ASSUME NEW T \in SUBSET Nat, T # {}
  PROVE  \E n \in T : \A m \in T : n <= m
<1> DEFINE R == {ss \in Nat \X Nat : ss[1] < ss[2]}
<1>1. IsWellFoundedOn(R, Nat)
  BY NatLessThanWellFounded DEF OpToRel
<1>2. \A x, y \in Nat : <<y, x>> \notin R => x <= y
  OBVIOUS
<1> HIDE DEF R
<1>3. PICK n \in T : \A m \in T : <<m, n>> \notin R
  BY <1>1, WFMin
<1> QED
  BY <1>2, <1>3

(* Induction, with a set of naturals in place of a predicate.              *)
LEMMA Induction ==
  ASSUME NEW S \in SUBSET Nat, 0 \in S, \A n \in S : n + 1 \in S
  PROVE  S = Nat
<1> SUFFICES ASSUME Nat \ S # {} PROVE FALSE
  OBVIOUS
<1>1. PICK n \in Nat \ S : \A m \in Nat \ S : n <= m
  BY LeastElement
<1>2. n - 1 \in Nat /\ ~(n <= n - 1)
  BY <1>1
<1>3. n - 1 \in S
  BY <1>1, <1>2
<1> QED
  BY <1>1, <1>3

(* A step of a call is a step of its tool, or leaves its variables alone.  *)
LEMMA StepsAreOwn ==
  ASSUME [Next]_vars
  PROVE  /\ tool' = tool
         /\ tool = "robots_txt_inspect" => Robots!Next \/ UNCHANGED <<pc, robots>>
         /\ tool = "port_scan" => Scan!Next \/ UNCHANGED <<pc, scan>>
         /\ tool = "tech_stack_detect" => Tech!Next \/ UNCHANGED <<pc, tech>>
         /\ tool = "cloud_exposure_check" => Cloud!Next \/ UNCHANGED <<pc, cloud>>
         /\ tool = "cert_transparency" => Cert!Next \/ UNCHANGED <<pc, certs>>
         /\ tool = "asn_lookup"        => Asn!Next \/ UNCHANGED <<pc, whose>>
         /\ tool = "cve_lookup"        => Cve!Next \/ UNCHANGED <<pc, cve>>
         /\ tool = "ssl_inspect"       => Ssl!Next \/ UNCHANGED <<pc, ssl>>
         /\ tool = "ip_reputation"     => Ip!Next \/ UNCHANGED <<pc, abuse>>
         /\ tool = "hibp_check"        => Hibp!Next \/ UNCHANGED <<pc, hibp>>
         /\ tool = "whois_lookup"      => Whois!Next \/ UNCHANGED <<pc, whois>>
         /\ tool = "headers_analyzer"  => Sec!Next \/ UNCHANGED <<pc, security>>
<1>1. CASE UNCHANGED vars
  BY <1>1 DEF vars
<1>2. CASE Tool
  BY <1>2 DEF Tool, RobotsTxtInspect, TechStackDetect, CloudExposureCheck, AsnCaller, CveSearch,
              CertificateLog, NmapScan, Certificate, Reputation, Breaches, Registration,
              SecurityHeaders, Asn!Next
<1>3. CASE AsnService
  BY <1>3 DEF AsnService, Asn!Next
<1> QED
  BY <1>1, <1>2, <1>3 DEF Next, Terminated

-----------------------------------------------------------------------------
(* Stage 1 answers from the first reply, stage 2 from the second.          *)
CveInv ==
  /\ pc \in {"called", "narrow", "broad", "failed", "done"}
  /\ version \subseteq Versions /\ \A v, w \in version : v = w
  /\ replies \in Seq(CveReplies)
  /\ pc = "broad" => Len(replies) = 1 /\ Cve!Filtered(replies[1]) = {}
  /\ pc = "done" => /\ Len(replies) \in {1, 2}
                    /\ cves = Cve!Filtered(replies[Len(replies)])
                    /\ Len(replies) = 1 => cves # {}
                    /\ Len(replies) = 2 => Cve!Filtered(replies[1]) = {}

LEMMA CveKept ==
  ASSUME CveInv, Cve!Next \/ UNCHANGED <<pc, cve>>
  PROVE  CveInv'
<1>1. CASE UNCHANGED <<pc, cve>>
  BY <1>1 DEF CveInv, cve, Cve!Filtered, Cve!AffectsVersion
<1>2. CASE Cve!Reject \/ Cve!Accept \/ Cve!SearchFails
  BY <1>2 DEF CveInv, Cve!Reject, Cve!Accept, Cve!SearchFails
<1>3. ASSUME NEW r \in CveReplies, Cve!SearchNarrow(r) PROVE CveInv'
  BY <1>3 DEF CveInv, Cve!SearchNarrow, Cve!Filtered
<1>4. ASSUME NEW r \in CveReplies, Cve!SearchBroad(r) PROVE CveInv'
  <2>1. Len(replies) = 1 /\ Cve!Filtered(replies[1]) = {}
    BY <1>4 DEF CveInv, Cve!SearchBroad
  <2>2. /\ replies' \in Seq(CveReplies) /\ Len(replies') = 2
        /\ replies'[1] = replies[1] /\ replies'[2] = r
    <3>1. replies[1] \in CveReplies
      BY <2>1 DEF CveInv
    <3> QED
      BY <1>4, <3>1 DEF Cve!SearchBroad
  <2>3. pc' = "done" /\ version' = version /\ cves' = Cve!Filtered(r)
    BY <1>4 DEF Cve!SearchBroad
  <2>4. (Cve!Filtered(replies[1]))' = {} /\ (Cve!Filtered(replies[Len(replies)]))' = cves'
    BY <2>1, <2>2, <2>3 DEF Cve!Filtered
  <2> QED
    BY <2>2, <2>3, <2>4 DEF CveInv
<1> QED
  BY <1>1, <1>2, <1>3, <1>4 DEF Cve!Next

(* The comparisons of _version_in_range are those of the span of bounds.   *)
LEMMA SpanIsRange ==
  ASSUME NEW m \in Cve!Match, NEW v \in Versions
  PROVE  Cve!InRange(v, m) <=> v \in Cve!Span(m)
<1> DEFINE S(b, lo) == b = Absent \/ (b # Invalid /\ lo)
<1>1. /\ Versions \subseteq Nat /\ Absent \notin Nat /\ Invalid \notin Nat /\ Absent # Invalid
      /\ v \in Nat
  <2>1. Cve!CveAssumption
    BY ToolAssumption
  <2> QED
    BY <2>1 DEF Cve!CveAssumption
<1>2. /\ m.startIncluding \in Versions \cup {Absent, Invalid}
      /\ m.startExcluding \in Versions \cup {Absent, Invalid}
      /\ m.endIncluding \in Versions \cup {Absent, Invalid}
      /\ m.endExcluding \in Versions \cup {Absent, Invalid}
  BY DEF Cve!Match, Cve!Bound
<1>3. Cve!InRange(v, m) <=>
        /\ {m.startIncluding, m.startExcluding, m.endIncluding, m.endExcluding} # {Absent}
        /\ S(m.startIncluding, v >= m.startIncluding)
        /\ S(m.startExcluding, v > m.startExcluding)
        /\ S(m.endIncluding, v <= m.endIncluding)
        /\ S(m.endExcluding, v < m.endExcluding)
  BY DEF Cve!InRange, Cve!Satisfies
<1>4. v \in Cve!Span(m) <=>
        /\ {m.startIncluding, m.startExcluding, m.endIncluding, m.endExcluding} # {Absent}
        /\ Invalid \notin {m.startIncluding, m.startExcluding, m.endIncluding, m.endExcluding}
        /\ m.startIncluding \in Versions => m.startIncluding <= v
        /\ m.startExcluding \in Versions => m.startExcluding + 1 <= v
        /\ m.endIncluding \in Versions => v <= m.endIncluding
        /\ m.endExcluding \in Versions => v <= m.endExcluding - 1
  BY DEF Cve!Span
<1>5. S(m.startIncluding, v >= m.startIncluding) <=>
        m.startIncluding # Invalid /\ (m.startIncluding \in Versions => m.startIncluding <= v)
  BY <1>1, <1>2
<1>6. S(m.startExcluding, v > m.startExcluding) <=>
        m.startExcluding # Invalid /\ (m.startExcluding \in Versions => m.startExcluding + 1 <= v)
  <2>1. CASE m.startExcluding \in Versions
    <3>1. m.startExcluding \in Nat
      BY <1>1, <2>1
    <3> QED
      BY <1>1, <2>1, <3>1
  <2>2. CASE m.startExcluding \notin Versions
    BY <1>1, <1>2, <2>2
  <2> QED
    BY <2>1, <2>2
<1>7. S(m.endIncluding, v <= m.endIncluding) <=>
        m.endIncluding # Invalid /\ (m.endIncluding \in Versions => v <= m.endIncluding)
  BY <1>1, <1>2
<1>8. S(m.endExcluding, v < m.endExcluding) <=>
        m.endExcluding # Invalid /\ (m.endExcluding \in Versions => v <= m.endExcluding - 1)
  <2>1. CASE m.endExcluding \in Versions
    <3>1. m.endExcluding \in Nat
      BY <1>1, <2>1
    <3> QED
      BY <1>1, <2>1, <3>1
  <2>2. CASE m.endExcluding \notin Versions
    BY <1>1, <1>2, <2>2
  <2> QED
    BY <2>1, <2>2
<1> HIDE DEF S
<1> QED
  BY <1>3, <1>4, <1>5, <1>6, <1>7, <1>8

LEMMA CveRight ==
  ASSUME CveInv
  PROVE  Cve!CvesAffect
<1> SUFFICES ASSUME pc = "done", NEW v \in version
             PROVE  /\ cves = {c \in replies[Len(replies)] :
                                 \E m \in c : m.vulnerable /\ m.named /\ v \in Cve!Span(m)}
                    /\ cves = {} =>
                         /\ Len(replies) = 2
                         /\ \A c \in replies[1], m \in UNION replies[1] :
                              m \in c /\ m.vulnerable /\ m.named => v \notin Cve!Span(m)
  BY DEF Cve!CvesAffect
<1> DEFINE Hit(c) == \E m \in c : m.vulnerable /\ m.named /\ v \in Cve!Span(m)
<1>1. v \in Versions /\ version = {v}
  BY DEF CveInv
<1>2. ASSUME NEW i \in DOMAIN replies PROVE Cve!Filtered(replies[i]) = {c \in replies[i] : Hit(c)}
  <2>1. \A c \in replies[i] : c \subseteq Cve!Match
    <3>1. Cve!CveAssumption
      BY ToolAssumption
    <3> QED
      BY <3>1 DEF CveInv, Cve!CveAssumption
  <2>2. ASSUME NEW c \in replies[i] PROVE Cve!AffectsVersion(c, v) <=> Hit(c)
    BY <1>1, <2>1, <2>2, SpanIsRange DEF Cve!AffectsVersion
  <2> QED
    BY <1>1, <2>2 DEF Cve!Filtered
<1>3. Len(replies) \in {1, 2} /\ DOMAIN replies = 1..Len(replies)
  BY DEF CveInv
<1>4. cves = {c \in replies[Len(replies)] : Hit(c)}
  BY <1>2, <1>3 DEF CveInv
<1>5. ASSUME cves = {}
      PROVE  /\ Len(replies) = 2
             /\ \A c \in replies[1], m \in UNION replies[1] :
                  m \in c /\ m.vulnerable /\ m.named => v \notin Cve!Span(m)
  <2>1. Len(replies) = 2 /\ Cve!Filtered(replies[1]) = {}
    BY <1>3, <1>5 DEF CveInv
  <2>2. {c \in replies[1] : Hit(c)} = {}
    BY <1>2, <1>3, <2>1
  <2> QED
    BY <2>1, <2>2
<1> QED
  BY <1>4, <1>5

-----------------------------------------------------------------------------
(* The class, the signals and the warning are functions of the evidence.   *)
IpInv ==
  /\ pc \in {"called", "signals", "failed", "done"}
  /\ evidence \subseteq Ip!Evidence /\ \A d, e \in evidence : d = e
  /\ pc = "called" => evidence = {}
  /\ pc # "done" => ~flagged /\ abuseScore = 0 /\ ipWarning = "none"
  /\ pc \in {"signals", "done"} =>
       \E e \in evidence : reputation = Ip!Class(e) /\ (e.whitelisted \/ e.score # Null)
  /\ pc = "done" =>
       /\ flagged = (reputation \in {"high-risk", "suspicious"})
       /\ \E e \in evidence : abuseScore = IF e.score = Null THEN 0 ELSE e.score
       /\ ipWarning = IF flagged THEN "malicious"
                      ELSE IF abuseScore > 20 THEN "elevated" ELSE "none"

LEMMA IpKept ==
  ASSUME IpInv, Ip!Next \/ UNCHANGED <<pc, abuse>>
  PROVE  IpInv'
<1>1. CASE UNCHANGED <<pc, abuse>>
  BY <1>1 DEF IpInv, abuse
<1>2. CASE Ip!Fails
  BY <1>2 DEF IpInv, Ip!Fails
<1>3. ASSUME NEW e \in Ip!Evidence, Ip!Classify(e) PROVE IpInv'
  BY <1>3 DEF IpInv, Ip!Classify
<1>4. CASE Ip!Extract
  <2>1. /\ pc' = "done" /\ evidence' = evidence /\ reputation' = reputation
        /\ flagged' = (reputation \in {"high-risk", "suspicious"})
        /\ \E e \in evidence : abuseScore' = IF e.score = Null THEN 0 ELSE e.score
    BY <1>4 DEF Ip!Extract
  <2>2. ipWarning' = IF flagged' THEN "malicious"
                     ELSE IF abuseScore' > 20 THEN "elevated" ELSE "none"
    BY <1>4, <2>1 DEF Ip!Extract
  <2> QED
    BY <1>4, <2>1, <2>2 DEF IpInv, Ip!Extract
<1> QED
  BY <1>1, <1>2, <1>3, <1>4 DEF Ip!Next

LEMMA IpRight ==
  ASSUME IpInv
  PROVE  Ip!VerdictFollowsEvidence
<1>1. Scores \subseteq Nat /\ Null \notin Nat
  <2>1. Ip!IpAssumption
    BY ToolAssumption
  <2> QED
    BY <2>1 DEF Ip!IpAssumption
<1>2. pc = "failed" => ~flagged /\ abuseScore = 0 /\ ipWarning = "none"
  BY DEF IpInv
<1>3. ASSUME pc = "done", NEW e \in evidence
      PROVE  /\ e.score = Null => e.whitelisted
             /\ \A d \in [whitelisted : {e.whitelisted}, score : Scores, tor : BOOLEAN] :
                  (e.score # Null /\ d.score <= e.score /\ (d.tor => e.tor)) =>
                    Ip!Severity(Ip!Class(d)) <= Ip!Severity(reputation)
             /\ ipWarning = "malicious" <=> Ip!Severity(reputation) >= 2
             /\ ipWarning = "none" => abuseScore <= 20 /\ (e.tor => e.whitelisted)
             /\ e.whitelisted => ipWarning # "malicious"
  <2>1. /\ reputation = Ip!Class(e) /\ (e.whitelisted \/ e.score # Null)
        /\ e \in Ip!Evidence
        /\ abuseScore = IF e.score = Null THEN 0 ELSE e.score
        /\ flagged = (reputation \in {"high-risk", "suspicious"})
        /\ ipWarning = IF flagged THEN "malicious"
                       ELSE IF abuseScore > 20 THEN "elevated" ELSE "none"
    BY <1>3 DEF IpInv
  <2>2. /\ e.score \in Nat \cup {Null} /\ abuseScore \in Nat
        /\ e.whitelisted \in BOOLEAN /\ e.tor \in BOOLEAN
    BY <1>1, <2>1 DEF Ip!Evidence
  <2>3. ASSUME NEW d \in [whitelisted : BOOLEAN, score : Nat, tor : BOOLEAN]
        PROVE  Ip!Class(d) = IF d.whitelisted THEN "trusted"
                             ELSE IF d.score >= 75 THEN "high-risk"
                             ELSE IF d.tor \/ d.score >= 25 THEN "suspicious"
                             ELSE IF d.score > 0 THEN "low-risk" ELSE "clean"
    BY DEF Ip!Class
  <2>4. e.whitelisted => reputation = "trusted"
    BY <2>1 DEF Ip!Class
  <2>5. ~e.whitelisted => e \in [whitelisted : BOOLEAN, score : Nat, tor : BOOLEAN]
    BY <1>1, <2>1 DEF Ip!Evidence
  <2>6. Ip!Severity("high-risk") = 3 /\ Ip!Severity("suspicious") = 2
        /\ Ip!Severity("low-risk") = 1 /\ Ip!Severity("clean") = 0 /\ Ip!Severity("trusted") = 0
    BY DEF Ip!Severity
  <2>7. ASSUME NEW d \in [whitelisted : {e.whitelisted}, score : Scores, tor : BOOLEAN],
               e.score # Null, d.score <= e.score, d.tor => e.tor
        PROVE  Ip!Severity(Ip!Class(d)) <= Ip!Severity(reputation)
    <3>1. /\ d \in [whitelisted : BOOLEAN, score : Nat, tor : BOOLEAN]
          /\ d.whitelisted = e.whitelisted
      BY <1>1, <2>2
    <3>2. CASE e.whitelisted
      <4>1. Ip!Class(d) = "trusted"
        BY <3>1, <3>2 DEF Ip!Class
      <4> QED
        BY <2>4, <2>6, <3>2, <4>1
    <3>3. CASE ~e.whitelisted
      BY <2>1, <2>2, <2>3, <2>5, <2>6, <2>7, <3>1, <3>3
    <3> QED
      BY <3>2, <3>3
  <2>8. flagged <=> Ip!Severity(reputation) >= 2
    <3>1. reputation \in {"trusted", "high-risk", "suspicious", "low-risk", "clean"}
      BY <2>1, <2>3, <2>4, <2>5
    <3>2. Ip!Severity(reputation) >= 2 <=> reputation \in {"high-risk", "suspicious"}
      BY <2>6, <3>1
    <3>3. flagged <=> reputation \in {"high-risk", "suspicious"}
      BY <2>1
    <3> QED
      BY <3>2, <3>3
  <2>9. ipWarning = "none" => abuseScore <= 20 /\ (e.tor => e.whitelisted)
    <3>1. e.tor /\ ~e.whitelisted => reputation \in {"high-risk", "suspicious"}
      BY <2>1, <2>2, <2>3, <2>5
    <3> QED
      BY <2>1, <2>2, <3>1
  <2> QED
    BY <2>1, <2>4, <2>7, <2>8, <2>9
<1> QED
  BY <1>2, <1>3 DEF Ip!VerdictFollowsEvidence

-----------------------------------------------------------------------------
(* What the replies so far allow the result to say.                        *)
HibpInv ==
  /\ pc \in {"called", "email", "domain", "pastes", "failed", "done"}
  /\ breachReply \subseteq Hibp!Replies /\ pasteReply \subseteq Hibp!Replies
  /\ pc \in {"called", "email", "domain"} => breachReply = {}
  /\ pc \in {"email", "domain"} => query = pc
  /\ pc = "pastes" => query = "email" /\ \A b \in breachReply : b[1] = "200"
  /\ pc = "failed" /\ query # "none" =>
       \A b \in breachReply : /\ b[1] = "200" => \E p \in pasteReply : p[1] = "number"
                              /\ b[1] = "404" => query = "domain"
  /\ pc = "done" =>
       \A e \in exposure : \E b \in breachReply :
         /\ b[1] = "200" \/ (b[1] = "404" /\ query = "email")
         /\ \E n \in Nat : /\ e \in Hibp!Result(b[2], n)
                           /\ n > 0 => \E p \in pasteReply : p[2] = n

(* Only a reply of status 200 counts anything.                             *)
LEMMA ReplyKnown ==
  \A b \in Hibp!Replies : b[2] \in Nat /\ (b[2] > 0 => b[1] = "200" /\ b = <<"200", b[2]>>)
<1>1. EntryCounts \subseteq Nat
  <2>1. Hibp!HibpAssumption
    BY ToolAssumption
  <2> QED
    BY <2>1 DEF Hibp!HibpAssumption
<1>2. ASSUME NEW b \in {"200"} \X EntryCounts
      PROVE  b[2] \in Nat /\ b[1] = "200" /\ b = <<"200", b[2]>>
  <2>1. PICK n \in EntryCounts : b = <<"200", n>>
    OBVIOUS
  <2> QED
    BY <1>1, <2>1
<1>3. ASSUME NEW b \in {"404", "401", "403", "429", "500", "not JSON", "number", "no reply"} \X {0}
      PROVE  b[2] = 0
  OBVIOUS
<1>4. ASSUME NEW b \in Hibp!Replies
      PROVE  b[2] \in Nat /\ (b[2] > 0 => b[1] = "200" /\ b = <<"200", b[2]>>)
  <2>1. b \in {"200"} \X EntryCounts
        \/ b \in {"404", "401", "403", "429", "500", "not JSON", "number", "no reply"} \X {0}
    BY DEF Hibp!Replies
  <2>2. CASE b \in {"200"} \X EntryCounts
    BY <1>2, <2>2
  <2>3. CASE b \in {"404", "401", "403", "429", "500", "not JSON", "number", "no reply"} \X {0}
    <3>1. b[2] = 0
      BY <1>3, <2>3
    <3> QED
      BY <3>1
  <2> QED
    BY <2>1, <2>2, <2>3
<1> QED
  BY <1>4

LEMMA HibpKept ==
  ASSUME HibpInv, Hibp!Next \/ UNCHANGED <<pc, hibp>>
  PROVE  HibpInv'
<1>1. CASE UNCHANGED <<pc, hibp>>
  BY <1>1 DEF HibpInv, hibp
<1>2. CASE Hibp!Reject
  BY <1>2 DEF HibpInv, Hibp!Reject
<1>3. CASE Hibp!Accept
  BY <1>3 DEF HibpInv, Hibp!Accept
<1>4. ASSUME NEW r \in Hibp!Replies, Hibp!AskDomain(r) PROVE HibpInv'
  BY <1>4 DEF HibpInv, Hibp!AskDomain
<1>5. ASSUME NEW r \in Hibp!Replies, Hibp!AskEmail(r) PROVE HibpInv'
  <2>1. /\ pc = "email" /\ query = "email" /\ query' = query
        /\ breachReply' = {r} /\ pasteReply' = pasteReply
    BY <1>5 DEF HibpInv, Hibp!AskEmail
  <2>2. CASE r[1] = "404"
    <3>1. exposure' = Hibp!Result(0, 0) /\ pc' = "done"
      BY <1>5, <2>2 DEF Hibp!AskEmail
    <3>2. r[2] = 0
      BY <2>2 DEF Hibp!Replies
    <3> QED
      BY <1>5, <2>1, <2>2, <3>1, <3>2 DEF HibpInv
  <2>3. CASE r[1] # "404"
    <3>1. pc' = IF r[1] = "200" THEN "pastes" ELSE "failed"
      BY <1>5, <2>3 DEF Hibp!AskEmail
    <3> QED
      BY <1>5, <2>1, <2>3, <3>1 DEF HibpInv
  <2> QED
    BY <2>2, <2>3
<1>6. ASSUME NEW r \in Hibp!Replies, Hibp!AskPastes(r) PROVE HibpInv'
  <2>1. /\ pc = "pastes" /\ query = "email" /\ query' = query
        /\ breachReply' = breachReply /\ pasteReply' = {r}
    BY <1>6 DEF HibpInv, Hibp!AskPastes
  <2>2. r[2] \in Nat
    BY ReplyKnown
  <2>3. ASSUME r[1] # "number", NEW e \in exposure'
        PROVE  \E b \in breachReply' :
                 /\ b[1] = "200" \/ (b[1] = "404" /\ query' = "email")
                 /\ \E n \in Nat : /\ e \in Hibp!Result(b[2], n)
                                   /\ n > 0 => \E p \in pasteReply' : p[2] = n
    <3>1. PICK b \in breachReply : e \in Hibp!Result(b[2], r[2])
      BY <1>6, <2>3 DEF Hibp!AskPastes
    <3>2. b[1] = "200"
      BY <2>1 DEF HibpInv
    <3> QED
      BY <2>1, <2>2, <3>1, <3>2
  <2>4. pc' = IF r[1] = "number" THEN "failed" ELSE "done"
    BY <1>6 DEF Hibp!AskPastes
  <2>5. breachReply' \subseteq Hibp!Replies /\ \A b \in breachReply' : b[1] = "200"
    BY <2>1 DEF HibpInv
  <2> QED
    BY <1>6, <2>1, <2>3, <2>4, <2>5 DEF HibpInv
<1> QED
  BY <1>1, <1>2, <1>3, <1>4, <1>5, <1>6 DEF Hibp!Next

LEMMA HibpRight ==
  ASSUME HibpInv
  PROVE  Hibp!BreachesSurvive
<1>1. \A b \in Hibp!Replies : b[2] \in Nat /\ (b[2] > 0 => b[1] = "200" /\ b = <<"200", b[2]>>)
  BY ReplyKnown
<1>2. ASSUME pc = "done", NEW e \in exposure
      PROVE  \E b \in breachReply :
               /\ b[1] = "200" \/ (b[1] = "404" /\ query = "email")
               /\ e.total = b[2]
               /\ e.breached <=> e.risk # "NONE"
               /\ e.breached <=> b[2] > 0
               /\ e.pastes > 0 => \E p \in pasteReply : p = <<"200", e.pastes>>
  <2>1. PICK b \in breachReply, n \in Nat :
          /\ b[1] = "200" \/ (b[1] = "404" /\ query = "email")
          /\ e \in Hibp!Result(b[2], n)
          /\ n > 0 => \E p \in pasteReply : p[2] = n
    BY <1>2 DEF HibpInv
  <2>2. /\ e.total = b[2] /\ e.pastes = n
        /\ e.breached = (b[2] > 0) /\ e.risk = Hibp!Risk(b[2])
    BY <2>1 DEF Hibp!Result
  <2>3. b[2] \in Nat
    BY <1>1 DEF HibpInv
  <2>4. Hibp!Risk(b[2]) # "NONE" <=> b[2] > 0
    BY <2>3 DEF Hibp!Risk
  <2>5. n > 0 => \E p \in pasteReply : p = <<"200", n>>
    BY <1>1, <2>1 DEF HibpInv
  <2> QED
    BY <2>1, <2>2, <2>4, <2>5
<1>3. (pc = "failed" /\ query # "none") =>
        \A b \in breachReply : /\ b[1] = "200" => \E p \in pasteReply : p[1] = "number"
                               /\ b[1] = "404" => query = "domain"
  BY DEF HibpInv
<1> QED
  BY <1>2, <1>3 DEF Hibp!BreachesSurvive

-----------------------------------------------------------------------------
(* Half days are rounded down to days, before zero as well.                *)
LEMMA Half ==
  ASSUME NEW d \in Int
  PROVE  /\ d \div 2 \in Int /\ d \div 2 < 0 <=> d < 0
         /\ d \div 2 <= 13 <=> d <= 27
         /\ d \div 2 <= 29 <=> d <= 59
         /\ d \div 2 <= 30 <=> d <= 61
         /\ \A c \in Int : c <= d => c \div 2 <= d \div 2
OBVIOUS

(* The date used is the first that can be read, if any can.                *)
LEMMA ParsedKnown ==
  ASSUME NEW dates \in Seq(Dates \cup {Unparsable})
  PROVE  \/ Whois!Parsed(dates) = {} /\ \A i \in DOMAIN dates : dates[i] = Unparsable
         \/ \E i \in DOMAIN dates : /\ Whois!Parsed(dates) = {dates[i]}
                                   /\ dates[i] # Unparsable /\ dates[i] \in Dates
                                   /\ \A j \in DOMAIN dates : dates[j] # Unparsable => i <= j
<1> DEFINE Read == {i \in DOMAIN dates : dates[i] # Unparsable}
<1>1. CASE Read = {}
  BY <1>1 DEF Whois!Parsed
<1>2. CASE Read # {}
  <2>1. PICK i \in Read : \A j \in Read : i <= j
    <3>1. Read \in SUBSET Nat
      OBVIOUS
    <3> HIDE DEF Read
    <3> QED
      BY <1>2, <3>1, LeastElement
  <2>2. ASSUME NEW k \in Read
        PROVE  (\A j \in 1..(k - 1) : dates[j] = Unparsable) <=> k = i
    <3>1. i <= k /\ i \in Nat /\ k \in Nat /\ i \in 1..Len(dates) /\ k \in 1..Len(dates)
      BY <2>1
    <3>2. ASSUME k # i PROVE i \in 1..(k - 1) /\ dates[i] # Unparsable
      BY <3>1, <3>2
    <3>3. ASSUME NEW j \in 1..(i - 1) PROVE dates[j] = Unparsable
      <4>1. j \in DOMAIN dates /\ ~(i <= j)
        BY <3>1
      <4> QED
        BY <2>1, <4>1
    <3> QED
      BY <3>2, <3>3
  <2>3. Whois!Parsed(dates) = {dates[k] : k \in {k \in Read :
                                 \A j \in 1..(k - 1) : dates[j] = Unparsable}}
    BY DEF Whois!Parsed
  <2>4. Whois!Parsed(dates) = {dates[i]}
    BY <2>1, <2>2, <2>3
  <2> QED
    BY <2>1, <2>4
<1> QED
  BY <1>1, <1>2

WhoisInv ==
  /\ pc \in {"called", "signals", "failed", "done"}
  /\ expiration \in Seq(Dates \cup {Unparsable})
  /\ pc = "done" =>
       /\ expiryDays = {d \div 2 : d \in Whois!Parsed(expiration)}
       /\ domainWarning = IF expiryDays \cap 0..13 # {} THEN "critical"
                          ELSE IF expiryDays \cap 14..29 # {} THEN "high"
                          ELSE IF \E d \in expiryDays : d < 0 THEN "expired" ELSE "none"

LEMMA WhoisKept ==
  ASSUME WhoisInv, Whois!Next \/ UNCHANGED <<pc, whois>>
  PROVE  WhoisInv'
<1>1. CASE UNCHANGED <<pc, whois>>
  BY <1>1 DEF WhoisInv, whois, Whois!Parsed
<1>2. CASE Whois!Fails
  BY <1>2 DEF WhoisInv, Whois!Fails
<1>3. ASSUME NEW n \in 0..MaxDates, NEW dates \in [1..n -> Dates \cup {Unparsable}],
             Whois!Answered(dates)
      PROVE  WhoisInv'
  <2>1. Whois!WhoisAssumption
    BY ToolAssumption
  <2>2. n \in Nat
    BY <2>1 DEF Whois!WhoisAssumption
  <2>3. dates \in Seq(Dates \cup {Unparsable})
    BY <2>2
  <2> QED
    BY <1>3, <2>3 DEF WhoisInv, Whois!Answered
<1>4. CASE Whois!Extract
  <2>1. /\ pc' = "done" /\ expiration' = expiration
        /\ expiryDays' = {d \div 2 : d \in Whois!Parsed(expiration)}
    BY <1>4 DEF Whois!Extract
  <2>2. domainWarning' = IF expiryDays' \cap 0..13 # {} THEN "critical"
                         ELSE IF expiryDays' \cap 14..29 # {} THEN "high"
                         ELSE IF \E d \in expiryDays' : d < 0 THEN "expired" ELSE "none"
    <3>1. \A d, e \in expiryDays' : d = e /\ d \in Int
      <4>1. Whois!WhoisAssumption
        BY ToolAssumption
      <4>2. \A d, e \in Whois!Parsed(expiration) : d = e /\ d \in Int
        BY <4>1, ParsedKnown DEF Whois!WhoisAssumption, WhoisInv
      <4> QED
        BY <2>1, <4>2, Half
    <3>2. /\ expiryDays' \cap 0..13 # {} => expiryDays' \cap 14..29 = {}
          /\ expiryDays' \cap (0..13 \cup 14..29) # {} => ~\E d \in expiryDays' : d < 0
      BY <3>1
    <3> QED
      BY <1>4, <3>2 DEF Whois!Extract
  <2>3. Whois!Parsed(expiration)' = Whois!Parsed(expiration)
    BY <2>1 DEF Whois!Parsed
  <2> QED
    BY <2>1, <2>2, <2>3 DEF WhoisInv
<1> QED
  BY <1>1, <1>2, <1>3, <1>4 DEF Whois!Next

LEMMA WhoisRight ==
  ASSUME WhoisInv
  PROVE  Whois!ExpiryNotMissed
<1> SUFFICES ASSUME pc = "done" PROVE Whois!ExpiryNotMissed
  BY DEF Whois!ExpiryNotMissed
<1>1. /\ expiryDays = {d \div 2 : d \in Whois!Parsed(expiration)}
      /\ domainWarning = IF expiryDays \cap 0..13 # {} THEN "critical"
                         ELSE IF expiryDays \cap 14..29 # {} THEN "high"
                         ELSE IF \E d \in expiryDays : d < 0 THEN "expired" ELSE "none"
      /\ expiration \in Seq(Dates \cup {Unparsable})
  BY DEF WhoisInv
<1>2. CASE Whois!Parsed(expiration) = {} /\ \A i \in DOMAIN expiration : expiration[i] = Unparsable
  <2>1. domainWarning = "none"
    BY <1>1, <1>2
  <2> QED
    BY <1>2, <2>1 DEF Whois!ExpiryNotMissed
<1>3. ASSUME NEW i \in DOMAIN expiration, Whois!Parsed(expiration) = {expiration[i]},
             expiration[i] # Unparsable, expiration[i] \in Dates,
             \A j \in DOMAIN expiration : expiration[j] # Unparsable => i <= j
      PROVE  Whois!ExpiryNotMissed
  <2> DEFINE d == expiration[i]
             days == d \div 2
  <2>1. d \in Int
    <3>1. Whois!WhoisAssumption
      BY ToolAssumption
    <3> QED
      BY <1>3, <3>1 DEF Whois!WhoisAssumption
  <2>2. expiryDays = {days}
    BY <1>1, <1>3
  <2>3. /\ days \in Int /\ (days < 0 <=> d < 0)
        /\ days <= 13 <=> d <= 27
        /\ days <= 29 <=> d <= 59
    BY <2>1, Half
  <2>4. domainWarning = IF days < 0 THEN "expired"
                        ELSE IF days <= 13 THEN "critical"
                        ELSE IF days <= 29 THEN "high" ELSE "none"
    <3> HIDE DEF days
    <3>1. /\ expiryDays \cap 0..13 # {} <=> days \in 0..13
          /\ expiryDays \cap 14..29 # {} <=> days \in 14..29
          /\ (\E x \in expiryDays : x < 0) <=> days < 0
      BY <2>2
    <3>2. /\ days \in 0..13 <=> ~(days < 0) /\ days <= 13
          /\ days \in 14..29 <=> ~(days <= 13) /\ days <= 29
          /\ days < 0 => days <= 13
      BY <2>3
    <3> QED
      BY <1>1, <3>1, <3>2
  <2>5. /\ domainWarning = "expired" <=> d < 0
        /\ domainWarning = "critical" <=> d \in 0..27
        /\ domainWarning = "high" <=> d \in 28..59
    <3> HIDE DEF days, d
    <3>1. /\ d < 0 <=> days < 0
          /\ d \in 0..27 <=> ~(days < 0) /\ days <= 13
          /\ d \in 28..59 <=> ~(days <= 13) /\ days <= 29
          /\ days < 0 => days <= 13
      BY <2>1, <2>3
    <3> QED
      BY <2>4, <3>1
  <2>6. \A k \in DOMAIN expiration : (k <= i /\ i <= k) => k = i
    BY <1>1, <1>3
  <2>7. ASSUME NEW k \in DOMAIN expiration, expiration[k] # Unparsable,
               \A j \in DOMAIN expiration : expiration[j] # Unparsable => k <= j
        PROVE  k = i
    BY <1>3, <2>6, <2>7
  <2> QED
    BY <1>3, <2>5, <2>7 DEF Whois!ExpiryNotMissed
<1> QED
  BY <1>1, <1>2, <1>3, ParsedKnown

-----------------------------------------------------------------------------
(* The judgement of a connection some half days after it was verified.     *)
SslJudgement(c, late) ==
  LET days == Ssl!DaysLeft(c.lead, late)
  IN [days |-> days, status |-> Ssl!Status(days), tls |-> Ssl!Tls(c),
      cipher |-> Ssl!Cipher(c), rating |-> Ssl!Rating(c, days)]

SslInv ==
  /\ pc \in {"called", "judge", "signals", "failed", "done"}
  /\ connection \subseteq Ssl!Connections /\ \A c, d \in connection : c = d
  /\ pc \in {"signals", "done"} =>
       delay \in JudgeDelays /\ judgement = {SslJudgement(c, delay) : c \in connection}
  /\ pc = "done" => \A j \in judgement :
       expiryWarning = IF j.days < 0 THEN "expired" ELSE IF j.days <= 13 THEN "critical"
                       ELSE IF j.days <= 29 THEN "high" ELSE "none"

(* Time is a number, so are the days left.                                 *)
LEMMA DaysKnown ==
  ASSUME NEW c \in Ssl!Connections, NEW late \in JudgeDelays
  PROVE  /\ c.lead \in Nat /\ late \in Nat /\ c.validity \in Nat /\ c.lead - late \in Int
         /\ Ssl!DaysLeft(c.lead, late) = (c.lead - late) \div 2
         /\ Ssl!DaysLeft(c.lead, late) \in Int
<1>1. Ssl!SslAssumption
  BY ToolAssumption
<1>2. c.lead \in Nat /\ late \in Nat /\ c.validity \in Nat
  BY <1>1 DEF Ssl!SslAssumption, Ssl!Connections
<1>3. c.lead - late \in Int
  BY <1>2
<1> QED
  BY <1>2, <1>3, Half DEF Ssl!DaysLeft

LEMMA SslKept ==
  ASSUME SslInv, Ssl!Next \/ UNCHANGED <<pc, ssl>>
  PROVE  SslInv'
<1>1. CASE UNCHANGED <<pc, ssl>>
  BY <1>1 DEF SslInv, ssl, SslJudgement
<1>2. CASE Ssl!Fails
  BY <1>2 DEF SslInv, Ssl!Fails
<1>3. ASSUME NEW c \in Ssl!Connections, Ssl!Verified(c) PROVE SslInv'
  BY <1>3 DEF SslInv, Ssl!Verified
<1>4. CASE Ssl!Judge
  <2>1. /\ pc' = "signals" /\ connection' = connection /\ delay' \in JudgeDelays
        /\ judgement' = {SslJudgement(c, delay') : c \in connection}
    BY <1>4 DEF Ssl!Judge, SslJudgement
  <2> QED
    BY <2>1 DEF SslInv
<1>5. CASE Ssl!Extract
  <2>1. /\ pc = "signals" /\ pc' = "done"
        /\ connection' = connection /\ delay' = delay /\ judgement' = judgement
    BY <1>5 DEF Ssl!Extract
  <2>2. \A j, k \in judgement : j = k
    BY <2>1 DEF SslInv
  <2>3. ASSUME NEW j \in judgement PROVE j.days \in Int
    BY <2>1, DaysKnown DEF SslInv, SslJudgement
  <2>4. ASSUME NEW j \in judgement
        PROVE  expiryWarning' = IF j.days < 0 THEN "expired" ELSE IF j.days <= 13 THEN "critical"
                                ELSE IF j.days <= 29 THEN "high" ELSE "none"
    BY <1>5, <2>2, <2>3 DEF Ssl!Extract
  <2> QED
    BY <2>1, <2>4 DEF SslInv, SslJudgement
<1> QED
  BY <1>1, <1>2, <1>3, <1>4, <1>5 DEF Ssl!Next

(* More bits, a later protocol, a shorter validity and more days never     *)
(* lower the rating.                                                       *)
LEMMA RatingMonotone ==
  ASSUME NEW c \in Ssl!Connections, NEW d \in Ssl!Connections, NEW late \in JudgeDelays,
         Ssl!NoWorse(c, d)
  PROVE  Ssl!Grades[Ssl!Rating(c, Ssl!DaysLeft(c.lead, late))]
           >= Ssl!Grades[Ssl!Rating(d, Ssl!DaysLeft(d.lead, late))]
<1> DEFINE m == Ssl!DaysLeft(c.lead, late)
           n == Ssl!DaysLeft(d.lead, late)
           Q == {"Weak", "Unknown", "Good", "Strong"}
<1>1. /\ m \in Int /\ n \in Int /\ n <= m
      /\ c.validity \in Nat /\ d.validity \in Nat /\ c.validity <= d.validity
  <2>1. c.lead - late \in Int /\ d.lead - late \in Int /\ d.lead - late <= c.lead - late
    BY DaysKnown DEF Ssl!NoWorse
  <2> QED
    BY <2>1, DaysKnown, Half DEF Ssl!NoWorse
<1>2. /\ Ssl!Grades["Poor"] = 0 /\ Ssl!Grades["Fair"] = 1 /\ Ssl!Grades["Good"] = 2
      /\ Ssl!Grades["Excellent"] = 3 /\ Ssl!Grades["Weak"] = 0 /\ Ssl!Grades["Unknown"] = 1
      /\ Ssl!Grades["Strong"] = 3
  BY DEF Ssl!Grades
<1>3. ASSUME NEW x \in Ssl!Connections
      PROVE  /\ Ssl!Cipher(x) \in Q
             /\ Ssl!Tls(x) \in {"Strong", "Good"}
             /\ Ssl!Rank(x.tls) = IF Ssl!Tls(x) = "Strong" THEN 5 ELSE 4
  BY DEF Ssl!Connections, Ssl!Cipher, Ssl!WeakCipher, Ssl!Tls, Ssl!Rank
<1> DEFINE Part(x) == CASE Ssl!Cipher(x) = "Strong" -> 3 [] Ssl!Cipher(x) = "Good" -> 2
                        [] OTHER -> 0
           Proto(x) == IF Ssl!Tls(x) = "Strong" THEN 3 ELSE 2
           Left(days) == IF days > 30 THEN 2 ELSE 1
           Valid(v) == CASE v <= 398 -> 2 [] v \in 399..825 -> 1 [] OTHER -> 0
<1>4. Part(c) \in Nat /\ Part(d) \in Nat /\ Part(c) >= Part(d)
  BY <1>2, <1>3 DEF Ssl!NoWorse
<1>5. Proto(c) \in Nat /\ Proto(d) \in Nat /\ Proto(c) >= Proto(d)
  BY <1>3 DEF Ssl!NoWorse
<1>6. Left(m) \in Nat /\ Left(n) \in Nat /\ Left(m) >= Left(n)
  <2> HIDE DEF m, n
  <2> QED
    BY <1>1
<1>7. Valid(c.validity) \in Nat /\ Valid(d.validity) \in Nat
      /\ Valid(c.validity) >= Valid(d.validity)
  <2>1. ASSUME NEW v \in Nat
        PROVE  Valid(v) = IF v <= 398 THEN 2 ELSE IF v <= 825 THEN 1 ELSE 0
    BY <2>1
  <2>2. /\ Valid(c.validity) = IF c.validity <= 398 THEN 2 ELSE IF c.validity <= 825 THEN 1 ELSE 0
        /\ Valid(d.validity) = IF d.validity <= 398 THEN 2 ELSE IF d.validity <= 825 THEN 1 ELSE 0
    BY <1>1, <2>1
  <2> HIDE DEF Valid
  <2> QED
    BY <1>1, <2>2
<1>8. /\ Ssl!Score(c, m) = Proto(c) + Part(c) + Left(m) + Valid(c.validity)
      /\ Ssl!Score(d, n) = Proto(d) + Part(d) + Left(n) + Valid(d.validity)
  BY DEF Ssl!Score
<1>9. /\ Ssl!Score(c, m) \in Nat /\ Ssl!Score(d, n) \in Nat
      /\ Ssl!Score(c, m) >= Ssl!Score(d, n)
  <2> HIDE DEF m, n, Proto, Part, Left, Valid
  <2> QED
    BY <1>4, <1>5, <1>6, <1>7, <1>8
<1>10. ASSUME NEW s \in Nat
       PROVE  Ssl!Grades[Ssl!Grade(s)] = IF s >= 9 THEN 3 ELSE IF s >= 7 THEN 2
                                         ELSE IF s >= 4 THEN 1 ELSE 0
  BY <1>2 DEF Ssl!Grade
<1>11. CASE n < 0 \/ Ssl!Cipher(d) = "Weak"
  <2>1. Ssl!Rating(d, n) = "Poor"
    BY <1>11 DEF Ssl!Rating
  <2>2. Ssl!Grades[Ssl!Rating(c, m)] >= 0
    BY <1>2, <1>9, <1>10 DEF Ssl!Rating
  <2> QED
    BY <1>2, <2>1, <2>2
<1>12. CASE ~(n < 0) /\ Ssl!Cipher(d) # "Weak"
  <2>1. ~(m < 0) /\ Ssl!Cipher(c) # "Weak"
    <3> HIDE DEF m, n
    <3> QED
      BY <1>1, <1>2, <1>3, <1>12 DEF Ssl!NoWorse
  <2>2. Ssl!Rating(c, m) = Ssl!Grade(Ssl!Score(c, m)) /\ Ssl!Rating(d, n) = Ssl!Grade(Ssl!Score(d, n))
    BY <1>12, <2>1 DEF Ssl!Rating
  <2> DEFINE x == Ssl!Score(c, m)
             y == Ssl!Score(d, n)
  <2>3. /\ Ssl!Grades[Ssl!Grade(x)] = IF x >= 9 THEN 3 ELSE IF x >= 7 THEN 2
                                     ELSE IF x >= 4 THEN 1 ELSE 0
        /\ Ssl!Grades[Ssl!Grade(y)] = IF y >= 9 THEN 3 ELSE IF y >= 7 THEN 2
                                     ELSE IF y >= 4 THEN 1 ELSE 0
    BY <1>9, <1>10
  <2>4. x \in Nat /\ y \in Nat /\ x >= y
    BY <1>9
  <2> HIDE DEF m, n, x, y
  <2>5. Ssl!Grades[Ssl!Grade(x)] >= Ssl!Grades[Ssl!Grade(y)]
    BY <2>3, <2>4
  <2> QED
    BY <2>2, <2>5 DEF x, y, m, n
<1> QED
  BY <1>11, <1>12

LEMMA SslRight ==
  ASSUME SslInv
  PROVE  Ssl!RatingFollowsEvidence
<1> SUFFICES ASSUME pc = "done", NEW c \in connection, NEW j \in judgement
             PROVE  /\ \A d \in Ssl!Connections : Ssl!NoWorse(c, d) =>
                         Ssl!Grades[j.rating]
                           >= Ssl!Grades[Ssl!Rating(d, Ssl!DaysLeft(d.lead, delay))]
                    /\ j.status = "Expired" <=> c.lead < delay
                    /\ j.status = "Expired" <=> expiryWarning = "expired"
                    /\ (j.status = "Expired" \/ j.cipher = "Weak") => j.rating = "Poor"
                    /\ expiryWarning # "none" => j.status # "Healthy"
  BY DEF Ssl!RatingFollowsEvidence
<1> DEFINE days == Ssl!DaysLeft(c.lead, delay)
<1>1. c \in Ssl!Connections /\ delay \in JudgeDelays /\ j = SslJudgement(c, delay)
  BY DEF SslInv
<1>2. /\ j.days = days /\ j.status = Ssl!Status(days)
      /\ j.cipher = Ssl!Cipher(c) /\ j.rating = Ssl!Rating(c, days)
  BY <1>1 DEF SslJudgement
<1>3. days \in Int /\ (days < 0 <=> c.lead < delay)
  <2>1. /\ c.lead \in Nat /\ delay \in Nat /\ c.lead - delay \in Int
        /\ days = (c.lead - delay) \div 2
    BY <1>1, DaysKnown
  <2>2. (c.lead - delay) \div 2 \in Int /\ ((c.lead - delay) \div 2 < 0 <=> c.lead - delay < 0)
    BY <2>1, Half
  <2>3. c.lead - delay < 0 <=> c.lead < delay
    BY <2>1
  <2> QED
    BY <2>1, <2>2, <2>3
<1>4. expiryWarning = IF days < 0 THEN "expired" ELSE IF days <= 13 THEN "critical"
                      ELSE IF days <= 29 THEN "high" ELSE "none"
  BY <1>2 DEF SslInv
<1>5. Ssl!Status(days) = IF days < 0 THEN "Expired"
                         ELSE IF days <= 30 THEN "Expiring Soon" ELSE "Healthy"
  <2>1. /\ days < 0 => ~(days \in 0..30)
        /\ ~(days < 0) => (days \in 0..30 <=> days <= 30)
    BY <1>3
  <2> HIDE DEF days
  <2> QED
    BY <2>1 DEF Ssl!Status
<1>6. \A d \in Ssl!Connections : Ssl!NoWorse(c, d) =>
        Ssl!Grades[j.rating] >= Ssl!Grades[Ssl!Rating(d, Ssl!DaysLeft(d.lead, delay))]
  BY <1>1, <1>2, RatingMonotone
<1>7. (days < 0 \/ Ssl!Cipher(c) = "Weak") => Ssl!Rating(c, days) = "Poor"
  BY DEF Ssl!Rating
<1> HIDE DEF days
<1>8. (j.status = "Expired" <=> c.lead < delay) /\ (j.status = "Expired" <=> expiryWarning = "expired")
  BY <1>2, <1>3, <1>4, <1>5
<1>9. (j.status = "Expired" \/ j.cipher = "Weak") => j.rating = "Poor"
  BY <1>2, <1>5, <1>7
<1>10. expiryWarning # "none" => j.status # "Healthy"
  <2>1. days <= 13 \/ days <= 29 => days <= 30
    BY <1>3
  <2>2. expiryWarning # "none" => days < 0 \/ days <= 13 \/ days <= 29
    BY <1>4
  <2> QED
    BY <1>2, <1>5, <2>1, <2>2
<1> QED
  BY <1>6, <1>8, <1>9, <1>10

-----------------------------------------------------------------------------
LEMMA Weights ==
  /\ Sec!Severities["low"] = 0 /\ Sec!Severities["medium"] = 1 /\ Sec!Severities["high"] = 2
  /\ \A i \in {"no max-age", "negative max-age", "max-age 0", "'unsafe-inline'",
               "'unsafe-eval'", "*"} : Sec!Weight(i) = 2
  /\ \A i \in {"unreadable max-age", "short max-age", "no subdomains", "no default-src",
               "report-only", "unexpected value", "leaky", "camera", "payment"} :
        Sec!Weight(i) = 1
BY DEF Sec!Severities, Sec!Weight

LEMMA AtMost ==
  ASSUME NEW w, NEW s, NEW n \in Nat, NEW m \in Nat, w = n, s = m, n <= m
  PROVE  w <= s
OBVIOUS

LEMMA Small == 1 <= 1 /\ 1 <= 2 /\ 2 <= 2 /\ 1 \in Nat /\ 2 \in Nat
OBVIOUS

(* The same facts by name, where a list would hide them.                   *)
LEMMA WeightsByName ==
  /\ Sec!Weight("no max-age") = 2 /\ Sec!Weight("negative max-age") = 2
  /\ Sec!Weight("max-age 0") = 2
  /\ Sec!Weight("unreadable max-age") = 1 /\ Sec!Weight("short max-age") = 1
  /\ Sec!Weight("no subdomains") = 1 /\ Sec!Weight("no default-src") = 1
  /\ Sec!Weight("report-only") = 1 /\ Sec!Weight("unexpected value") = 1
  /\ Sec!Weight("leaky") = 1
BY Weights

LEMMA YearKnown ==
  /\ RawHeaders \subseteq Sec!Raw /\ Year \in Nat \ {0}
  /\ Missing \notin {"expected", "unexpected", "nosniff"}
<1>1. Sec!HeaderAssumption
  BY ToolAssumption
<1> QED
  BY <1>1 DEF Sec!HeaderAssumption

(* A header that is absent is fair, and one that is judged if its severity *)
(* bounds the weights of its issues and one of them reaches it.            *)
LEMMA AbsentFair ==
  ASSUME NEW v
  PROVE  Sec!WorstIssue(Sec!NotThere(v)) /\ ~Sec!NotThere(v).present /\ Sec!NotThere(v).issues # {}
BY DEF Sec!NotThere, Sec!WorstIssue

LEMMA JudgedFair ==
  ASSUME NEW I, NEW v,
         \A i \in I : Sec!Weight(i) <= Sec!Severities[v],
         v = "low" \/ \E i \in I : Sec!Weight(i) = Sec!Severities[v]
  PROVE  Sec!WorstIssue(Sec!Judged(I, v)) /\ Sec!Judged(I, v).issues = I
<1>1. Sec!Judged(I, v).issues = I /\ Sec!Judged(I, v).severity = v
  BY DEF Sec!Judged
<1> QED
  BY <1>1 DEF Sec!WorstIssue

(* Strict-Transport-Security.                                              *)
LEMMA HstsFair ==
  ASSUME NEW h \in [age : Int \cup {NoAge, BadAge}, subdomains : BOOLEAN] \cup {Missing}
  PROVE  /\ Sec!WorstIssue(Sec!Hsts(h))
         /\ h = Missing => ~Sec!Hsts(h).present
         /\ Sec!Hsts(h).issues = {} => h.subdomains /\ h.age >= Year
<1>1. CASE h = Missing
  BY <1>1, AbsentFair DEF Sec!Hsts
<1>2. CASE h # Missing
  <2> DEFINE issue == Sec!AgeIssue(h.age)
             severity == Sec!AgeSeverity(h.age)
             I == ({issue} \ {"none"}) \cup (IF h.subdomains THEN {} ELSE {"no subdomains"})
             v == Sec!AtLeastMedium(~h.subdomains, severity)
  <2>1. /\ issue \in {"no max-age", "unreadable max-age", "negative max-age", "max-age 0",
                      "short max-age", "none"}
        /\ issue = "none" => h.age >= Year
    BY <1>2, YearKnown DEF Sec!AgeIssue
  <2>2. severity = IF issue = "none" THEN "low"
                   ELSE IF issue \in {"unreadable max-age", "short max-age"} THEN "medium"
                   ELSE "high"
    BY DEF Sec!AgeSeverity
  <2>3. Sec!Hsts(h) = Sec!Judged(I, v) /\ v = IF ~h.subdomains /\ severity = "low"
                                             THEN "medium" ELSE severity
    BY <1>2 DEF Sec!Hsts, Sec!AtLeastMedium
  <2>4. h.subdomains \in BOOLEAN
    BY <1>2
  <2> HIDE DEF issue, severity, v
  <2>5. ASSUME NEW i \in I PROVE Sec!Weight(i) <= Sec!Severities[v]
    <3>1. CASE i = issue /\ issue # "none"
      <4>1. v = severity
        BY <2>1, <2>2, <2>3, <3>1
      <4>2. CASE issue \in {"unreadable max-age", "short max-age"}
        <5>1. Sec!Weight(i) = 1 /\ Sec!Severities[v] = 1
          BY <2>2, <3>1, <4>1, <4>2, Weights
        <5> QED
          BY <5>1, Small, AtMost
      <4>3. CASE issue \in {"no max-age", "negative max-age", "max-age 0"}
        <5>1. Sec!Weight(i) = 2 /\ Sec!Severities[v] = 2
          BY <2>2, <3>1, <4>1, <4>3, Weights
        <5> QED
          BY <5>1, Small, AtMost
      <4> QED
        BY <2>1, <3>1, <4>2, <4>3
    <3>2. CASE i = "no subdomains" /\ ~h.subdomains
      <4>1. v \in {"medium", "high"}
        BY <2>2, <2>3, <3>2
      <4>2. Sec!Weight(i) = 1
        BY <3>2, WeightsByName
      <4>3. Sec!Severities[v] = 1 \/ Sec!Severities[v] = 2
        BY <4>1, Weights
      <4> QED
        BY <4>2, <4>3, Small, AtMost
    <3> QED
      BY <3>1, <3>2
  <2>6. v = "low" \/ \E i \in I : Sec!Weight(i) = Sec!Severities[v]
    <3>1. CASE issue = "none"
      <4>1. v # "low" => v = "medium" /\ "no subdomains" \in I
        BY <2>2, <2>3, <3>1
      <4>2. Sec!Weight("no subdomains") = 1 /\ Sec!Severities["medium"] = 1
        BY Weights, WeightsByName
      <4> HIDE DEF I
      <4>3. CASE v # "low"
        <5>1. v = "medium" /\ "no subdomains" \in I
          BY <4>1, <4>3
        <5> QED
          BY <4>2, <5>1
      <4> QED
        BY <4>3
    <3>2. CASE issue # "none"
      <4>1. issue \in I /\ v = severity
        BY <2>1, <2>2, <2>3, <3>2
      <4>2. Sec!Weight(issue) = Sec!Severities[severity]
        BY <2>1, <2>2, <3>2, Weights
      <4> QED
        BY <4>1, <4>2
    <3> QED
      BY <3>1, <3>2
  <2>7. I = {} => h.subdomains /\ issue = "none"
    BY <2>4
  <2> HIDE DEF I
  <2>8. Sec!WorstIssue(Sec!Judged(I, v)) /\ Sec!Judged(I, v).issues = I
    BY <2>5, <2>6, JudgedFair
  <2> QED
    BY <1>2, <2>1, <2>3, <2>7, <2>8
<1> QED
  BY <1>1, <1>2

(* Content-Security-Policy.                                                *)
LEMMA CspFair ==
  ASSUME NEW policy \in [enforced : BOOLEAN, directives : SUBSET Sec!Directive] \cup {Missing}
  PROVE  /\ Sec!WorstIssue(Sec!Csp(policy))
         /\ policy = Missing => ~Sec!Csp(policy).present
         /\ Sec!Csp(policy).issues = {} =>
              /\ policy.enforced
              /\ \E d \in policy.directives : d.name = "default-src"
              /\ \A d \in policy.directives : d.name # "other" =>
                   d.all \cap {"*", "'unsafe-inline'", "'unsafe-eval'"} = {}
<1>1. CASE policy = Missing
  BY <1>1, AbsentFair DEF Sec!Csp
<1>2. CASE policy # Missing
  <2> DEFINE grave == Sec!Grave(policy)
             bounded == Sec!Restrictive(policy)
             I == grave \cup (IF bounded THEN {} ELSE {"no default-src"})
                    \cup (IF policy.enforced THEN {} ELSE {"report-only"})
             v == Sec!AtLeastMedium(~bounded \/ ~policy.enforced,
                                    IF grave # {} THEN "high" ELSE "low")
  <2>1. grave \subseteq {"'unsafe-inline'", "'unsafe-eval'", "*"}
    BY DEF Sec!Grave
  <2>2. Sec!Csp(policy) = Sec!Judged(I, v)
    BY <1>2 DEF Sec!Csp
  <2>3. v = IF grave # {} THEN "high" ELSE IF ~bounded \/ ~policy.enforced THEN "medium" ELSE "low"
    BY DEF Sec!AtLeastMedium
  <2>4. I = {} => /\ policy.enforced
                  /\ \E d \in policy.directives : d.name = "default-src"
                  /\ \A d \in policy.directives : d.name # "other" =>
                       d.all \cap {"*", "'unsafe-inline'", "'unsafe-eval'"} = {}
    <3>1. I = {} => policy.enforced /\ bounded /\ grave = {}
      <4> HIDE DEF grave, bounded
      <4> QED
        BY <1>2
    <3>2. grave = {} => \A d \in policy.directives : d.name # "other" =>
                          d.all \cap {"*", "'unsafe-inline'", "'unsafe-eval'"} = {}
      BY DEF Sec!Grave
    <3>3. bounded => \E d \in policy.directives : d.name = "default-src"
      BY DEF Sec!Restrictive
    <3> HIDE DEF I, grave, bounded
    <3> QED
      BY <3>1, <3>2, <3>3
  <2> HIDE DEF grave, bounded, v
  <2>5. ASSUME NEW i \in I PROVE Sec!Weight(i) <= Sec!Severities[v]
    <3>1. CASE i \in grave
      <4>1. Sec!Weight(i) = 2
        BY <2>1, <3>1, Weights
      <4>2. v = "high"
        BY <2>3, <3>1
      <4>3. Sec!Severities[v] = 2
        BY <4>2, Weights
      <4> QED
        BY <4>1, <4>3, Small, AtMost
    <3>2. CASE i \notin grave
      <4>1. i \in {"no default-src", "report-only"} /\ (~bounded \/ ~policy.enforced)
        BY <3>2
      <4>2. Sec!Weight(i) = 1
        BY <4>1, WeightsByName
      <4>3. v \in {"medium", "high"}
        BY <2>3, <4>1
      <4>4. Sec!Severities[v] = 1 \/ Sec!Severities[v] = 2
        BY <4>3, Weights
      <4> QED
        BY <4>2, <4>4, Small, AtMost
    <3> QED
      BY <3>1, <3>2
  <2>6. v = "low" \/ \E i \in I : Sec!Weight(i) = Sec!Severities[v]
    <3>1. CASE grave # {}
      BY <2>1, <2>3, <3>1, Weights
    <3>2. CASE grave = {}
      BY <2>3, <3>2, Weights
    <3> QED
      BY <3>1, <3>2
  <2> HIDE DEF I
  <2> QED
    BY <1>2, <2>2, <2>4, <2>5, <2>6, JudgedFair
<1> QED
  BY <1>1, <1>2

(* The other four.                                                         *)
LEMMA OthersFair ==
  ASSUME NEW r \in Sec!Raw
  PROVE  /\ Sec!WorstIssue(Sec!Frame(r.xfo)) /\ Sec!WorstIssue(Sec!ContentType(r.xcto))
         /\ Sec!WorstIssue(Sec!Referrer(r.rp)) /\ Sec!WorstIssue(Sec!Permissions(r.pp))
         /\ r.xfo = Missing => ~Sec!Frame(r.xfo).present
         /\ r.xcto = Missing => ~Sec!ContentType(r.xcto).present
         /\ r.rp = Missing => ~Sec!Referrer(r.rp).present
         /\ r.pp = Missing => ~Sec!Permissions(r.pp).present
<1>1. Sec!WorstIssue(Sec!Judged({}, "low")) /\ Sec!WorstIssue(Sec!Judged({"unexpected value"}, "medium"))
      /\ Sec!WorstIssue(Sec!Judged({"leaky"}, "medium"))
  <2>1. Sec!WorstIssue(Sec!Judged({}, "low"))
    BY JudgedFair
  <2>2. Sec!Weight("unexpected value") = 1 /\ Sec!Weight("leaky") = 1
        /\ Sec!Severities["medium"] = 1 /\ 1 <= 1
    BY Weights, WeightsByName, Small
  <2>3. Sec!WorstIssue(Sec!Judged({"unexpected value"}, "medium"))
    <3>1. /\ \A i \in {"unexpected value"} : Sec!Weight(i) <= Sec!Severities["medium"]
          /\ \E i \in {"unexpected value"} : Sec!Weight(i) = Sec!Severities["medium"]
      BY <2>2
    <3> QED
      BY <3>1, JudgedFair
  <2>4. Sec!WorstIssue(Sec!Judged({"leaky"}, "medium"))
    <3>1. /\ \A i \in {"leaky"} : Sec!Weight(i) <= Sec!Severities["medium"]
          /\ \E i \in {"leaky"} : Sec!Weight(i) = Sec!Severities["medium"]
      BY <2>2
    <3> QED
      BY <3>1, JudgedFair
  <2> QED
    BY <2>1, <2>3, <2>4
<1>2. Sec!WorstIssue(Sec!Frame(r.xfo)) /\ (r.xfo = Missing => ~Sec!Frame(r.xfo).present)
  <2>1. r.xfo \in {"expected", "unexpected", Missing}
    BY DEF Sec!Raw
  <2>2. Sec!Frame(r.xfo) = IF r.xfo = Missing THEN Sec!NotThere("medium")
                           ELSE IF r.xfo = "expected" THEN Sec!Judged({}, "low")
                           ELSE Sec!Judged({"unexpected value"}, "medium")
    BY YearKnown DEF Sec!Frame
  <2> QED
    BY <1>1, <2>2, AbsentFair
<1>3. Sec!WorstIssue(Sec!ContentType(r.xcto)) /\ (r.xcto = Missing => ~Sec!ContentType(r.xcto).present)
  BY <1>1, YearKnown, AbsentFair DEF Sec!ContentType
<1>4. Sec!WorstIssue(Sec!Referrer(r.rp)) /\ (r.rp = Missing => ~Sec!Referrer(r.rp).present)
  BY <1>1, AbsentFair DEF Sec!Referrer
<1>5. Sec!WorstIssue(Sec!Permissions(r.pp)) /\ (r.pp = Missing => ~Sec!Permissions(r.pp).present)
  <2> DEFINE I == r.pp \ {"other"}
  <2>1. CASE r.pp = Missing
    BY <2>1, AbsentFair DEF Sec!Permissions
  <2>2. CASE r.pp # Missing
    <3>1. r.pp \subseteq {"camera", "payment", "other"}
      <4>1. r.pp \in (SUBSET {"camera", "payment", "other"}) \cup {Missing}
        BY DEF Sec!Raw
      <4>2. r.pp # Missing
        BY <2>2
      <4> HIDE DEF I
      <4> QED
        BY <4>1, <4>2
    <3>2. \A i \in I : Sec!Weight(i) = 1
      BY <3>1, Weights
    <3>3. Sec!WorstIssue(Sec!Judged(I, IF I = {} THEN "low" ELSE "medium"))
      <4>1. CASE I = {}
        BY <1>1, <4>1
      <4>2. CASE I # {}
        <5>1. Sec!Severities["medium"] = 1 /\ 1 <= 1
          BY Weights, Small
        <5>2. /\ \A i \in I : Sec!Weight(i) <= Sec!Severities["medium"]
              /\ \E i \in I : Sec!Weight(i) = Sec!Severities["medium"]
          BY <3>2, <4>2, <5>1
        <5> HIDE DEF I
        <5>3. Sec!WorstIssue(Sec!Judged(I, "medium"))
          BY <5>2, JudgedFair
        <5> QED
          BY <4>2, <5>3
      <4> QED
        BY <4>1, <4>2
    <3> QED
      BY <2>2, <3>3 DEF Sec!Permissions
  <2> QED
    BY <2>1, <2>2
<1> QED
  BY <1>2, <1>3, <1>4, <1>5

(* The last known token of Referrer-Policy exists if any is known.         *)
LEMMA ReferrerKnown ==
  ASSUME NEW tokens \in Seq({"good", "leaky", "unknown"}) \cup {Missing},
         Sec!Referrer(tokens).issues = {}
  PROVE  \E i \in DOMAIN tokens : /\ tokens[i] = "good"
                                  /\ \A j \in DOMAIN tokens : j > i => tokens[j] = "unknown"
<1> DEFINE K == Sec!Known(tokens)
           last == CHOOSE i \in K : \A j \in K : j <= i
<1>1. tokens # Missing /\ K # {} /\ tokens[last] = "good"
  BY DEF Sec!Referrer, Sec!NotThere, Sec!Judged
<1>2. tokens \in Seq({"good", "leaky", "unknown"}) /\ Len(tokens) \in Nat
  BY <1>1
<1>3. K \subseteq 1..Len(tokens)
  BY <1>2 DEF Sec!Known
<1>4. \E i \in K : \A j \in K : j <= i
  <2> DEFINE T == {Len(tokens) - i : i \in K}
  <2>1. T \in SUBSET Nat /\ T # {}
    BY <1>1, <1>2, <1>3
  <2>2. PICK t \in T : \A u \in T : t <= u
    <3> HIDE DEF T
    <3> QED
      BY <2>1, LeastElement
  <2>3. PICK i \in K : t = Len(tokens) - i
    BY <2>2
  <2>4. ASSUME NEW j \in K PROVE j <= i
    <3>1. Len(tokens) - j \in T
      OBVIOUS
    <3>2. Len(tokens) - i <= Len(tokens) - j
      BY <2>2, <2>3, <3>1
    <3> QED
      BY <1>2, <1>3, <3>2
  <2> QED
    BY <2>4
<1>5. last \in K /\ \A j \in K : j <= last
  BY <1>4
<1>6. ASSUME NEW j \in DOMAIN tokens, j > last PROVE tokens[j] = "unknown"
  <2>1. j \notin K
    BY <1>2, <1>3, <1>5, <1>6
  <2> QED
    BY <2>1 DEF Sec!Known
<1> QED
  BY <1>1, <1>2, <1>3, <1>5, <1>6

(* The analysis is a function of the headers, and the warning of what it   *)
(* lists as missing.                                                       *)
SecAnalysis(r) == [hsts |-> Sec!Hsts(r.hsts), csp |-> Sec!Csp(r.csp), xfo |-> Sec!Frame(r.xfo),
                   xcto |-> Sec!ContentType(r.xcto), rp |-> Sec!Referrer(r.rp),
                   pp |-> Sec!Permissions(r.pp)]

Unusable == {n \in Sec!Names : \E a \in analysis : ~a[n].present}

SecInv ==
  /\ pc \in {"called", "signals", "failed", "done"}
  /\ raw \subseteq RawHeaders
  /\ pc \in {"signals", "done"} => \A r \in raw, a \in analysis : a = SecAnalysis(r)
  /\ pc = "done" => missing = Unusable /\ (Cardinality(missing) >= 4 => headerWarning = "gap")

(* HeaderAnalysis counts as this module does.                              *)
LEMMA SameCount == \A S : Sec!Cardinality(S) = Cardinality(S)
BY DEF Sec!Cardinality, Cardinality

LEMMA SecKept ==
  ASSUME SecInv, Sec!Next \/ UNCHANGED <<pc, security>>
  PROVE  SecInv'
<1>1. CASE UNCHANGED <<pc, security>>
  <2>1. /\ pc' = pc /\ raw' = raw /\ analysis' = analysis /\ missing' = missing
        /\ headerWarning' = headerWarning
    BY <1>1 DEF security
  <2>2. Unusable' = Unusable
    BY <2>1 DEF Unusable
  <2> QED
    BY <2>1, <2>2 DEF SecInv
<1>2. CASE Sec!Fails
  BY <1>2 DEF SecInv, Sec!Fails
<1>3. ASSUME NEW r \in RawHeaders, Sec!Analyze(r) PROVE SecInv'
  <2>1. pc' = "signals" /\ raw' = {r} /\ analysis' = {SecAnalysis(r)}
    BY <1>3 DEF Sec!Analyze, SecAnalysis
  <2> QED
    BY <2>1 DEF SecInv
<1>4. CASE Sec!Extract
  <2>1. /\ pc = "signals" /\ pc' = "done" /\ raw' = raw /\ analysis' = analysis
        /\ missing' = Unusable
    BY <1>4 DEF Sec!Extract, Unusable
  <2>2. Cardinality(missing') >= 4 => headerWarning' = "gap"
    <3>1. Sec!Cardinality(missing') >= 4 => headerWarning' = "gap"
      BY <1>4 DEF Sec!Extract
    <3> QED
      BY <3>1, SameCount
  <2>3. Unusable' = Unusable
    BY <2>1 DEF Unusable
  <2> QED
    BY <2>1, <2>2, <2>3 DEF SecInv
<1> QED
  BY <1>1, <1>2, <1>3, <1>4 DEF Sec!Next

LEMMA NamesFinite == IsFiniteSet(Sec!Names)
<1>1. /\ IsFiniteSet({"hsts"}) /\ IsFiniteSet({"csp"}) /\ IsFiniteSet({"xfo"})
      /\ IsFiniteSet({"xcto"}) /\ IsFiniteSet({"rp"}) /\ IsFiniteSet({"pp"})
  BY FS_Singleton
<1>2. IsFiniteSet({"hsts"} \cup {"csp"} \cup {"xfo"})
  BY <1>1, FS_Union
<1>3. IsFiniteSet({"xcto"} \cup {"rp"} \cup {"pp"})
  BY <1>1, FS_Union
<1>4. IsFiniteSet(({"hsts"} \cup {"csp"} \cup {"xfo"}) \cup ({"xcto"} \cup {"rp"} \cup {"pp"}))
  BY <1>2, <1>3, FS_Union
<1>5. Sec!Names = ({"hsts"} \cup {"csp"} \cup {"xfo"}) \cup ({"xcto"} \cup {"rp"} \cup {"pp"})
  BY DEF Sec!Names
<1> QED
  BY <1>4, <1>5

LEMMA SecRight ==
  ASSUME SecInv
  PROVE  Sec!SeverityIsWorst
<1> SUFFICES ASSUME pc = "done", NEW r \in raw, NEW a \in analysis
             PROVE  /\ \A n \in Sec!Names : Sec!WorstIssue(a[n])
                    /\ Sec!NoIssueWorks(r, a)
                    /\ Cardinality(Sec!NotSent(r)) >= 4 => headerWarning = "gap"
  BY SameCount DEF Sec!SeverityIsWorst
<1>1. r \in Sec!Raw /\ a = SecAnalysis(r)
  BY YearKnown DEF SecInv
<1>2. /\ a["hsts"] = Sec!Hsts(r.hsts) /\ a["csp"] = Sec!Csp(r.csp) /\ a["xfo"] = Sec!Frame(r.xfo)
      /\ a["xcto"] = Sec!ContentType(r.xcto) /\ a["rp"] = Sec!Referrer(r.rp)
      /\ a["pp"] = Sec!Permissions(r.pp)
  BY <1>1 DEF SecAnalysis
<1>3. /\ r.hsts \in [age : Int \cup {NoAge, BadAge}, subdomains : BOOLEAN] \cup {Missing}
      /\ r.csp \in [enforced : BOOLEAN, directives : SUBSET Sec!Directive] \cup {Missing}
      /\ r.rp \in Seq({"good", "leaky", "unknown"}) \cup {Missing}
  BY <1>1 DEF Sec!Raw
<1>4. ASSUME NEW n \in Sec!Names
      PROVE  Sec!WorstIssue(a[n]) /\ (r[n] = Missing => ~a[n].present)
  <2>1. n \in {"hsts", "csp"} \/ n \in {"xfo", "xcto", "rp", "pp"}
    BY DEF Sec!Names
  <2>5. /\ r["hsts"] = r.hsts /\ r["csp"] = r.csp /\ r["xfo"] = r.xfo
        /\ r["xcto"] = r.xcto /\ r["rp"] = r.rp /\ r["pp"] = r.pp
    OBVIOUS
  <2>2. CASE n = "hsts"
    BY <1>2, <1>3, <2>2, <2>5, HstsFair
  <2>3. CASE n = "csp"
    BY <1>2, <1>3, <2>3, <2>5, CspFair
  <2>4. CASE n \in {"xfo", "xcto", "rp", "pp"}
    BY <1>1, <1>2, <2>4, <2>5, OthersFair
  <2> QED
    BY <2>1, <2>2, <2>3, <2>4
<1>5. a.hsts.issues = {} => r.hsts.subdomains /\ r.hsts.age >= Year
  BY <1>2, <1>3, HstsFair
<1>6. a.csp.issues = {} =>
        /\ r.csp.enforced
        /\ \E d \in r.csp.directives : d.name = "default-src"
        /\ \A d \in r.csp.directives : d.name # "other" =>
             d.all \cap {"*", "'unsafe-inline'", "'unsafe-eval'"} = {}
  BY <1>2, <1>3, CspFair
<1>7. a.rp.issues = {} =>
        \E i \in DOMAIN r.rp : /\ r.rp[i] = "good"
                               /\ \A j \in DOMAIN r.rp : j > i => r.rp[j] = "unknown"
  BY <1>2, <1>3, ReferrerKnown
<1>8. Cardinality(Sec!NotSent(r)) >= 4 => headerWarning = "gap"
  <2> DEFINE A == Sec!NotSent(r)
  <2>1. A \subseteq missing /\ missing \subseteq Sec!Names
    BY <1>4 DEF SecInv, Unusable, Sec!NotSent
  <2>2. IsFiniteSet(missing)
    BY <2>1, NamesFinite, FS_Subset
  <2>3. /\ IsFiniteSet(A) /\ Cardinality(A) <= Cardinality(missing)
        /\ Cardinality(A) \in Nat /\ Cardinality(missing) \in Nat
    BY <2>1, <2>2, FS_Subset, FS_CardinalityType
  <2> QED
    BY <2>3 DEF SecInv
<1>9. Sec!NoIssueWorks(r, a)
  BY <1>5, <1>6, <1>7 DEF Sec!NoIssueWorks
<1> QED
  BY <1>4, <1>8, <1>9

-----------------------------------------------------------------------------
Outcomes == {"untried", "answered", "ssl", "connection", "timeout", "other"}

(* While the body arrives all of it is kept, and it is below the limit.    *)
TechInv ==
  /\ pc \in {"called", "https", "http", "body", "fingerprint", "signals", "failed", "done"}
  /\ outcome \in [Tech!Schemes -> Outcomes]
  /\ pc \in {"called", "https"} => outcome["https"] = "untried" /\ outcome["http"] = "untried"
  /\ pc = "http" => outcome["https"] \in {"ssl", "connection"} /\ outcome["http"] = "untried"
  /\ pc # "http" => (outcome["http"] # "untried" <=> outcome["https"] \in {"ssl", "connection"})
  /\ pc \in {"body", "fingerprint", "signals", "done"} =>
       \/ outcome["http"] = "answered"
       \/ outcome["https"] = "answered" /\ outcome["http"] = "untried"
  /\ open = (pc = "body")
  /\ arrived \in Seq(Tech!Units) /\ body \in Seq(Tech!Units)
  /\ pc \in {"called", "https", "http"} => arrived = <<>>
  /\ pc \in {"called", "https", "http", "body"} => body = arrived /\ Len(body) < MaxBody
  /\ body = SubSeq(arrived, 1, IF Len(arrived) < MaxBody THEN Len(arrived) ELSE MaxBody)

(* A prefix that reaches into the second of two sequences.                 *)
LEMMA PrefixOfConcat ==
  ASSUME NEW S, NEW s \in Seq(S), NEW t \in Seq(S), NEW n \in Nat,
         Len(s) <= n, n - Len(s) <= Len(t)
  PROVE  SubSeq(s \o t, 1, n) = s \o SubSeq(t, 1, n - Len(s))
<1> DEFINE k == n - Len(s)
           u == SubSeq(s \o t, 1, n)
           w == s \o SubSeq(t, 1, k)
<1>1. Len(s) \in Nat /\ Len(t) \in Nat /\ k \in Nat /\ Len(s) + k = n
  OBVIOUS
<1>2. s \o t \in Seq(S) /\ Len(s \o t) = Len(s) + Len(t)
  OBVIOUS
<1>3. SubSeq(t, 1, k) \in Seq(S) /\ Len(SubSeq(t, 1, k)) = k
  BY <1>1
<1>4. u \in Seq(S) /\ Len(u) = n /\ \A i \in 1..n : u[i] = (s \o t)[i]
  BY <1>1, <1>2
<1>5. w \in Seq(S) /\ Len(w) = n
  BY <1>1, <1>3
<1>6. ASSUME NEW i \in 1..n PROVE u[i] = w[i]
  <2>1. CASE i <= Len(s)
    BY <1>1, <1>3, <1>4, <2>1
  <2>2. CASE i > Len(s)
    <3>1. (s \o t)[i] = t[i - Len(s)]
      BY <1>1, <2>2
    <3>2. w[i] = SubSeq(t, 1, k)[i - Len(s)]
      BY <1>1, <1>3, <2>2
    <3>3. SubSeq(t, 1, k)[i - Len(s)] = t[i - Len(s)]
      BY <1>1, <2>2
    <3> QED
      BY <1>4, <3>1, <3>2, <3>3
  <2> QED
    BY <1>1, <2>1, <2>2
<1> HIDE DEF u, w
<1>7. u = w
  BY <1>1, <1>4, <1>5, <1>6
<1> QED
  BY <1>7 DEF u, w

LEMMA WholePrefix ==
  ASSUME NEW S, NEW s \in Seq(S)
  PROVE  SubSeq(s, 1, Len(s)) = s
OBVIOUS

LEMMA LimitKnown == MaxBody \in Nat \ {0} /\ ChunkSize \in Nat \ {0}
<1>1. Tech!TechAssumption
  BY ToolAssumption
<1> QED
  BY <1>1 DEF Tech!TechAssumption

LEMMA TechKept ==
  ASSUME TechInv, Tech!Next \/ UNCHANGED <<pc, tech>>
  PROVE  TechInv'
<1> USE DEF Outcomes, Tech!Schemes
<1>1. CASE UNCHANGED <<pc, tech>>
  <2>1. /\ pc' = pc /\ outcome' = outcome /\ open' = open
        /\ arrived' = arrived /\ body' = body
    BY <1>1 DEF tech
  <2> QED
    BY <2>1 DEF TechInv, Tech!Units, Tech!Texts, Tech!AllMarkers, Tech!Elements
<1>2. CASE Tech!Reject \/ Tech!Accept
  BY <1>2 DEF TechInv, Tech!Reject, Tech!Accept
<1>3. ASSUME NEW s \in Tech!Schemes, Tech!Fetched(s) PROVE TechInv'
  <2>1. CASE s = "https"
    BY <1>3, <2>1 DEF TechInv, Tech!Fetched
  <2>2. CASE s = "http"
    BY <1>3, <2>2 DEF TechInv, Tech!Fetched
  <2> QED
    BY <2>1, <2>2
<1>4. ASSUME NEW s \in Tech!Schemes, NEW why \in {"ssl", "connection", "timeout", "other"},
             Tech!NotFetched(s, why)
      PROVE  TechInv'
  <2>1. CASE s = "https"
    BY <1>4, <2>1 DEF TechInv, Tech!NotFetched
  <2>2. CASE s = "http"
    BY <1>4, <2>2 DEF TechInv, Tech!NotFetched
  <2> QED
    BY <2>1, <2>2
<1>5. ASSUME NEW chunk \in Tech!Chunks, Tech!ReadChunk(chunk) PROVE TechInv'
  <2> DEFINE k == MaxBody - Len(body)
  <2>1. chunk \in Seq(Tech!Units)
    <3>1. PICK n \in 0..ChunkSize : chunk \in [1..n -> Tech!Units]
      BY DEF Tech!Chunks, Tech!Units
    <3> QED
      BY <3>1, LimitKnown
  <2>2. /\ pc = "body" /\ arrived \in Seq(Tech!Units) /\ body = arrived /\ Len(body) < MaxBody
        /\ Len(body) \in Nat /\ Len(chunk) \in Nat /\ MaxBody \in Nat /\ k \in Nat
    BY <1>5, <2>1, LimitKnown DEF TechInv, Tech!ReadChunk
  <2>3. /\ arrived' = arrived \o chunk /\ outcome' = outcome
        /\ arrived' \in Seq(Tech!Units) /\ Len(arrived') = Len(body) + Len(chunk)
    BY <1>5, <2>1, <2>2 DEF Tech!ReadChunk
  <2>4. CASE chunk # <<>> /\ Len(chunk) >= k
    <3>1. body' = body \o SubSeq(chunk, 1, k) /\ open' = FALSE /\ pc' = "fingerprint"
      BY <1>5, <2>4 DEF Tech!ReadChunk, Tech!Remaining
    <3>2. body' = SubSeq(arrived', 1, MaxBody)
      BY <2>1, <2>2, <2>3, <2>4, <3>1, PrefixOfConcat
    <3>3. ~(Len(arrived') < MaxBody)
      BY <2>2, <2>3, <2>4
    <3>4. body' \in Seq(Tech!Units)
      <4>1. SubSeq(chunk, 1, k) \in Seq(Tech!Units)
        BY <2>1, <2>2, <2>4
      <4> QED
        BY <2>2, <3>1, <4>1
    <3> QED
      BY <2>2, <2>3, <3>1, <3>2, <3>3, <3>4 DEF TechInv, Tech!Units, Tech!Texts, Tech!AllMarkers, Tech!Elements
  <2>5. CASE ~(chunk # <<>> /\ Len(chunk) >= k)
    <3>1. body' = body \o chunk /\ open' = open /\ pc' = pc
      BY <1>5, <2>5 DEF Tech!ReadChunk, Tech!Remaining
    <3>2. body' = arrived' /\ Len(arrived') < MaxBody
      <4>1. CASE chunk = <<>>
        <5>1. Len(chunk) = 0
          BY <4>1
        <5> QED
          BY <2>2, <2>3, <3>1, <5>1
      <4>2. CASE Len(chunk) < k
        BY <2>2, <2>3, <3>1, <4>2
      <4> QED
        BY <2>2, <2>5, <4>1, <4>2
    <3>3. body' = SubSeq(arrived', 1, Len(arrived'))
      BY <2>3, <3>2, WholePrefix
    <3> QED
      BY <2>2, <2>3, <3>1, <3>2, <3>3 DEF TechInv, Tech!Units, Tech!Texts, Tech!AllMarkers, Tech!Elements
  <2> QED
    BY <2>4, <2>5
<1>6. CASE Tech!BodyEnds \/ Tech!BodyBreaks
  BY <1>6 DEF TechInv, Tech!BodyEnds, Tech!BodyBreaks, Tech!Units, Tech!Texts, Tech!AllMarkers, Tech!Elements
<1>7. CASE Tech!Fingerprint \/ Tech!Extract
  BY <1>7 DEF TechInv, Tech!Fingerprint, Tech!Extract, Tech!Units, Tech!Texts, Tech!AllMarkers, Tech!Elements
<1> QED
  BY <1>1, <1>2, <1>3, <1>4, <1>5, <1>6, <1>7 DEF Tech!Next

LEMMA TechRight ==
  ASSUME TechInv
  PROVE  Tech!HttpIsLastResort /\ Tech!BodyIsPrefix
<1>1. Tech!HttpIsLastResort
  BY DEF TechInv, Tech!HttpIsLastResort, Outcomes, Tech!Schemes
<1>2. Tech!BodyIsPrefix
  BY DEF TechInv, Tech!BodyIsPrefix
<1> QED
  BY <1>1, <1>2

(* The loop over the markers of one technology.                            *)
Fires(m, inputs) == m[2] \in inputs[m[1]]
Firing(markers, n, inputs) == {markers[j] : j \in {k \in 1..n : Fires(markers[k], inputs)}}

Nothing == [confidence |-> 0, evidence |-> {}]
Better(r, m, inputs) ==
  IF Fires(m, inputs)
  THEN [confidence |-> IF m[3] > r.confidence THEN m[3] ELSE r.confidence,
        evidence   |-> r.evidence \cup {m}]
  ELSE r

Loop(f, markers, inputs, n) ==
  f = [i \in 0..n |-> IF i = 0 THEN Nothing ELSE Better(f[i - 1], markers[i], inputs)]

(* The recursive definition has a solution.                                *)
LEMMA LoopRuns ==
  ASSUME NEW markers, NEW inputs, NEW last \in Nat
  PROVE  \E f : Loop(f, markers, inputs, last)
<1> DEFINE S == {n \in Nat : \E f : Loop(f, markers, inputs, n)}
<1>1. 0 \in S
  <2>1. Loop([i \in 0..0 |-> Nothing], markers, inputs, 0)
    BY DEF Loop
  <2> QED
    BY <2>1
<1>2. ASSUME NEW n \in Nat, NEW f, Loop(f, markers, inputs, n)
      PROVE  \E g : Loop(g, markers, inputs, n + 1)
  <2> DEFINE g == [i \in 0..(n + 1) |-> IF i = n + 1 THEN Better(f[n], markers[n + 1], inputs)
                                        ELSE f[i]]
  <2>1. \A i \in 0..n : f[i] = IF i = 0 THEN Nothing ELSE Better(f[i - 1], markers[i], inputs)
    BY <1>2 DEF Loop
  <2>2. g[n + 1] = Better(f[n], markers[n + 1], inputs) /\ \A i \in 0..n : g[i] = f[i]
    OBVIOUS
  <2>3. ASSUME NEW i \in 0..(n + 1)
        PROVE  g[i] = IF i = 0 THEN Nothing ELSE Better(g[i - 1], markers[i], inputs)
    <3>1. CASE i = n + 1
      BY <2>2, <3>1
    <3>2. CASE i # n + 1
      <4>1. i \in 0..n /\ (i # 0 => i - 1 \in 0..n)
        BY <3>2
      <4> HIDE DEF g
      <4> QED
        BY <2>1, <2>2, <4>1
    <3> QED
      BY <3>1, <3>2
  <2>4. g = [i \in 0..(n + 1) |-> g[i]]
    OBVIOUS
  <2> HIDE DEF g
  <2>5. Loop(g, markers, inputs, n + 1)
    BY <2>3, <2>4 DEF Loop
  <2> QED
    BY <2>5
<1>3. \A n \in S : n + 1 \in S
  BY <1>2
<1>4. S \in SUBSET Nat
  OBVIOUS
<1>5. last \in S
  <2> HIDE DEF S
  <2> QED
    BY <1>1, <1>3, <1>4, Induction
<1> QED
  BY <1>5

LEMMA MatchRuns ==
  ASSUME NEW markers, NEW inputs, Len(markers) \in Nat
  PROVE  \E f : /\ Loop(f, markers, inputs, Len(markers))
                /\ Tech!Match(markers, inputs) = f[Len(markers)]
<1>1. \E f : Loop(f, markers, inputs, Len(markers))
  BY LoopRuns
<1> DEFINE scored == CHOOSE f : f = [i \in 0..Len(markers) |->
               IF i = 0 THEN [confidence |-> 0, evidence |-> {}]
               ELSE IF markers[i][2] \in inputs[markers[i][1]]
                    THEN [confidence |-> IF markers[i][3] > f[i - 1].confidence THEN markers[i][3]
                                         ELSE f[i - 1].confidence,
                          evidence |-> f[i - 1].evidence \cup {markers[i]}]
                    ELSE f[i - 1]]
<1>2. Tech!Match(markers, inputs) = scored[Len(markers)]
  BY DEF Tech!Match
<1>3. Loop(scored, markers, inputs, Len(markers))
  BY <1>1 DEF Loop, Better, Fires, Nothing
<1> QED
  BY <1>2, <1>3

(* What the loop finds: the markers that fire, and the best confidence of  *)
(* them.                                                                   *)
Merged(r, M) ==
  /\ r = [confidence |-> r.confidence, evidence |-> M]
  /\ r.confidence \in Nat
  /\ IF M = {} THEN r.confidence = 0 ELSE \E m \in M : r.confidence = m[3]
  /\ \A m \in M : m[3] <= r.confidence

LEMMA MatchMerges ==
  ASSUME NEW S, NEW markers \in Seq(S), NEW inputs, \A m \in S : m[3] \in Nat \ {0}
  PROVE  Merged(Tech!Match(markers, inputs), Firing(markers, Len(markers), inputs))
<1>1. Len(markers) \in Nat /\ \A i \in 1..Len(markers) : markers[i] \in S
  OBVIOUS
<1>2. PICK f : /\ Loop(f, markers, inputs, Len(markers))
               /\ Tech!Match(markers, inputs) = f[Len(markers)]
  BY <1>1, MatchRuns
<1>3. /\ f[0] = Nothing
      /\ \A i \in 1..Len(markers) : f[i] = Better(f[i - 1], markers[i], inputs)
  BY <1>1, <1>2 DEF Loop
<1> DEFINE T == {n \in Nat : n <= Len(markers) => Merged(f[n], Firing(markers, n, inputs))}
<1>4. 0 \in T
  <2>1. Firing(markers, 0, inputs) = {}
    BY DEF Firing
  <2>2. Merged(Nothing, {})
    BY DEF Merged, Nothing
  <2> QED
    BY <1>3, <2>1, <2>2
<1>5. ASSUME NEW n \in T PROVE n + 1 \in T
  <2> DEFINE M == Firing(markers, n, inputs)
             m == markers[n + 1]
  <2>1. n \in Nat
    OBVIOUS
  <2> SUFFICES ASSUME n + 1 <= Len(markers)
               PROVE  Merged(f[n + 1], Firing(markers, n + 1, inputs))
    BY <2>1
  <2>2. n + 1 \in 1..Len(markers) /\ n <= Len(markers) /\ n + 1 - 1 = n
    BY <1>1, <2>1
  <2>3. Merged(f[n], M)
    BY <2>2
  <2>4. f[n + 1] = Better(f[n], m, inputs) /\ m[3] \in Nat \ {0}
    BY <1>1, <1>3, <2>2
  <2>5. Firing(markers, n + 1, inputs) = IF Fires(m, inputs) THEN M \cup {m} ELSE M
    BY <2>1 DEF Firing
  <2> HIDE DEF T, M, m
  <2>6. CASE Fires(m, inputs)
    <3> DEFINE c == IF m[3] > f[n].confidence THEN m[3] ELSE f[n].confidence
    <3>1. f[n].evidence = M /\ f[n].confidence \in Nat
      BY <2>3 DEF Merged
    <3>2. f[n + 1] = [confidence |-> c, evidence |-> M \cup {m}]
      BY <2>4, <2>6, <3>1 DEF Better
    <3>3. c \in Nat /\ m[3] <= c /\ f[n].confidence <= c
      BY <2>4, <3>1
    <3>4. \A k \in M : k[3] <= f[n].confidence
      BY <2>3 DEF Merged
    <3>5. \A k \in M : k[3] \in Nat
      <4>1. ASSUME NEW k \in M PROVE k[3] \in Nat
        <5>1. PICK j \in 1..n : k = markers[j]
          BY DEF M, Firing
        <5>2. j \in 1..Len(markers)
          BY <1>1, <2>1, <2>2
        <5> QED
          BY <1>1, <5>1, <5>2
      <4> QED
        BY <4>1
    <3>6. \A k \in M \cup {m} : k[3] <= c
      BY <2>4, <3>1, <3>3, <3>4, <3>5
    <3>7. \E k \in M \cup {m} : c = k[3]
      <4>1. CASE m[3] > f[n].confidence
        BY <4>1
      <4>2. CASE ~(m[3] > f[n].confidence)
        <5>1. M # {}
          BY <2>3, <2>4, <4>2 DEF Merged
        <5> QED
          BY <2>3, <4>2, <5>1 DEF Merged
      <4> QED
        BY <4>1, <4>2
    <3> HIDE DEF c
    <3>8. f[n + 1].confidence = c /\ M \cup {m} # {}
      BY <3>2
    <3>9. Merged(f[n + 1], M \cup {m})
      BY <3>2, <3>3, <3>6, <3>7, <3>8 DEF Merged
    <3> QED
      BY <2>5, <2>6, <3>9
  <2>7. CASE ~Fires(m, inputs)
    BY <2>3, <2>4, <2>5, <2>7 DEF Better
  <2> QED
    BY <2>6, <2>7
<1>6. T = Nat
  <2>1. T \in SUBSET Nat
    OBVIOUS
  <2> HIDE DEF T
  <2> QED
    BY <1>4, <1>5, <2>1, Induction
<1> QED
  BY <1>1, <1>2, <1>6

-----------------------------------------------------------------------------
Hits(c, t, inputs) == {m \in Tech!Elements(Tables[c][t]) : Fires(m, inputs)}

LEMMA TablesKnown ==
  ASSUME NEW c \in DOMAIN Tables, NEW t \in DOMAIN Tables[c]
  PROVE  /\ Tables[c][t] \in Seq(Tech!AllMarkers)
         /\ Tech!Elements(Tables[c][t]) \subseteq Tech!AllMarkers
         /\ \A m \in Tech!AllMarkers : m[1] \in Tech!MarkerTypes /\ m[3] \in Nat \ {0}
<1>1. Tech!TechAssumption
  BY ToolAssumption
<1>2. /\ Tables[c][t] \in Seq(Tech!AllMarkers)
      /\ \A m \in Tech!AllMarkers : m[1] \in Tech!MarkerTypes /\ m[3] \in Nat \ {0}
  BY <1>1 DEF Tech!TechAssumption
<1>3. Tech!Elements(Tables[c][t]) \subseteq Tech!AllMarkers
  BY <1>2 DEF Tech!Elements
<1> QED
  BY <1>2, <1>3

LEMMA HitsMerge ==
  ASSUME NEW c \in DOMAIN Tables, NEW t \in DOMAIN Tables[c], NEW inputs
  PROVE  /\ Merged(Tech!Match(Tables[c][t], inputs), Hits(c, t, inputs))
         /\ Tech!Match(Tables[c][t], inputs).confidence > 0 <=> Hits(c, t, inputs) # {}
<1> DEFINE T == Tables[c][t]
<1>1. T \in Seq(Tech!AllMarkers) /\ \A m \in Tech!AllMarkers : m[3] \in Nat \ {0}
  BY TablesKnown
<1>2. Firing(T, Len(T), inputs) = Hits(c, t, inputs)
  <2>1. DOMAIN T = 1..Len(T)
    BY <1>1
  <2> QED
    BY <2>1 DEF Firing, Hits, Tech!Elements
<1>3. Merged(Tech!Match(T, inputs), Hits(c, t, inputs))
  BY <1>1, <1>2, MatchMerges
<1>4. \A m \in Hits(c, t, inputs) : m[3] \in Nat \ {0}
  BY TablesKnown DEF Hits
<1> HIDE DEF T
<1>5. Tech!Match(T, inputs).confidence > 0 <=> Hits(c, t, inputs) # {}
  BY <1>3, <1>4 DEF Merged
<1> QED
  BY <1>3, <1>5 DEF T

(* Each marker that fires on the whole page fires in one of the layers.    *)
LEMMA LayersCover ==
  ASSUME NEW m, m[1] \in Tech!MarkerTypes
  PROVE  Fires(m, Tech!Inputs(headers, cookies, Tech!Generator(body), Tech!Html(body)))
           <=> \E l \in Tech!Layers : Fires(m, l)
<1> DEFINE Text(h, k, g, p) == CASE m[1] \in {"header_name", "header_value"} -> h
                                 [] m[1] = "cookie_name"    -> k
                                 [] m[1] = "meta_generator" -> g
                                 [] OTHER                   -> p
<1>1. \A h, k, g, p : Tech!Inputs(h, k, g, p)[m[1]] = Text(h, k, g, p)
  BY DEF Tech!Inputs
<1> QED
  BY <1>1 DEF Fires, Tech!Layers, Tech!MarkerTypes

(* What a set of detections says of one technology.                        *)
LEMMA DetectionOf ==
  ASSUME NEW c \in DOMAIN Tables, NEW t \in DOMAIN Tables[c], NEW inputs
  PROVE  {d.found : d \in {e \in Tech!Detections(c, inputs) : e.name = t}}
           = IF Hits(c, t, inputs) = {} THEN {} ELSE {Tech!Match(Tables[c][t], inputs)}
<1> DEFINE D(u) == [name |-> u, found |-> Tech!Match(Tables[c][u], inputs)]
<1>1. Tech!Detections(c, inputs)
        = {D(u) : u \in {k \in DOMAIN Tables[c] : Tech!Match(Tables[c][k], inputs).confidence > 0}}
  BY DEF Tech!Detections
<1>2. Tech!Match(Tables[c][t], inputs).confidence > 0 <=> Hits(c, t, inputs) # {}
  BY HitsMerge
<1>3. \A u : D(u).name = u /\ D(u).found = Tech!Match(Tables[c][u], inputs)
  OBVIOUS
<1> HIDE DEF D
<1> QED
  BY <1>1, <1>2, <1>3

(* What has been reported of the page and from there.                      *)
Page == Tech!Inputs(headers, cookies, Tech!Generator(body), Tech!Html(body))

Fingerprinted ==
  /\ pc \in {"signals", "done"} =>
       technologies = [c \in DOMAIN Tables |-> Tech!Detections(c, Page)]
  /\ pc = "done" => software = UNION {{d.name : d \in technologies[c]} : c \in DOMAIN Tables}

LEMMA FingerprintKept ==
  ASSUME Fingerprinted, Tech!Next \/ UNCHANGED <<pc, tech>>
  PROVE  Fingerprinted'
<1>1. CASE UNCHANGED <<pc, tech>>
  <2>1. UNCHANGED <<pc, headers, cookies, body, technologies, software>>
    BY <1>1 DEF tech
  <2>2. Page' = Page
    BY <2>1 DEF Page, Tech!Inputs, Tech!Generator, Tech!Html, Tech!Elements
  <2> QED
    BY <2>1, <2>2 DEF Fingerprinted
<1>2. CASE Tech!Fingerprint
  <2>1. /\ pc' = "signals" /\ UNCHANGED <<headers, cookies, body>>
        /\ technologies' = [c \in DOMAIN Tables |-> Tech!Detections(c, Page)]
    BY <1>2 DEF Tech!Fingerprint, Page
  <2>2. Page' = Page
    BY <2>1 DEF Page, Tech!Inputs, Tech!Generator, Tech!Html, Tech!Elements
  <2> QED
    BY <2>1, <2>2 DEF Fingerprinted
<1>3. CASE Tech!Extract
  <2>1. /\ pc = "signals" /\ pc' = "done" /\ UNCHANGED <<headers, cookies, body, technologies>>
        /\ software' = UNION {{d.name : d \in technologies[c]} : c \in DOMAIN Tables}
    BY <1>3 DEF Tech!Extract
  <2>2. Page' = Page
    BY <2>1 DEF Page, Tech!Inputs, Tech!Generator, Tech!Html, Tech!Elements
  <2> QED
    BY <2>1, <2>2 DEF Fingerprinted
<1>4. CASE \/ Tech!Reject \/ Tech!Accept \/ Tech!BodyEnds \/ Tech!BodyBreaks
           \/ \E s \in Tech!Schemes :
                \/ Tech!Fetched(s)
                \/ \E why \in {"ssl", "connection", "timeout", "other"} : Tech!NotFetched(s, why)
           \/ \E chunk \in Tech!Chunks : Tech!ReadChunk(chunk)
  <2>1. pc' \notin {"signals", "done"}
    BY <1>4 DEF Tech!Reject, Tech!Accept, Tech!BodyEnds, Tech!BodyBreaks, Tech!Fetched,
                Tech!NotFetched, Tech!ReadChunk, Tech!Schemes
  <2> QED
    BY <2>1 DEF Fingerprinted
<1> QED
  BY <1>1, <1>2, <1>3, <1>4 DEF Tech!Next

LEMMA ReportRight ==
  ASSUME Fingerprinted
  PROVE  Tech!ReportIsMerge
<1> SUFFICES ASSUME pc = "done" PROVE Tech!ReportIsMerge
  BY DEF Tech!ReportIsMerge
<1>1. /\ technologies = [c \in DOMAIN Tables |-> Tech!Detections(c, Page)]
      /\ software = UNION {{d.name : d \in technologies[c]} : c \in DOMAIN Tables}
  BY DEF Fingerprinted
<1>2. ASSUME NEW c \in DOMAIN Tables, NEW t \in DOMAIN Tables[c]
      PROVE  \A m : m \in Hits(c, t, Page) <=> \E l \in Tech!Layers : m \in Hits(c, t, l)
  BY TablesKnown, LayersCover DEF Hits, Page
<1>3. ASSUME NEW c \in DOMAIN Tables, NEW t \in DOMAIN Tables[c]
      PROVE  LET seen_ == UNION {{d.found : d \in {e \in Tech!Detections(c, l) : e.name = t}} :
                                   l \in Tech!Layers}
                 told == {d.found : d \in {e \in technologies[c] : e.name = t}}
             IN IF seen_ = {} THEN told = {}
                ELSE \E f \in told : /\ told = {f}
                                     /\ f.evidence = UNION {g.evidence : g \in seen_}
                                     /\ \E g \in seen_ : f.confidence = g.confidence
                                     /\ \A g \in seen_ : f.confidence >= g.confidence
  <2> DEFINE Of(i) == {d.found : d \in {e \in Tech!Detections(c, i) : e.name = t}}
             Sn    == UNION {Of(l) : l \in Tech!Layers}
             H(i)  == Hits(c, t, i)
             M(i)  == Tech!Match(Tables[c][t], i)
  <2>1. \A i : Of(i) = IF H(i) = {} THEN {} ELSE {M(i)}
    BY DetectionOf
  <2>2. \A i : Merged(M(i), H(i))
    BY HitsMerge
  <2>3. {d.found : d \in {e \in technologies[c] : e.name = t}} = Of(Page)
    BY <1>1
  <2>4. \A m : m \in H(Page) <=> \E l \in Tech!Layers : m \in H(l)
    BY <1>2
  <2>5. \A i : \A m \in H(i) : m[3] \in Nat
    BY TablesKnown DEF Hits
  <2> HIDE DEF Of, H, M
  <2>6. \A g : g \in Sn <=> \E l \in Tech!Layers : H(l) # {} /\ g = M(l)
    BY <2>1
  <2> HIDE DEF Sn
  <2>7. CASE Sn = {}
    <3>1. H(Page) = {}
      BY <2>4, <2>6, <2>7
    <3> QED
      BY <2>1, <2>3, <2>7, <3>1 DEF Sn, Of
  <2>8. CASE Sn # {}
    <3>1. H(Page) # {} /\ Of(Page) = {M(Page)}
      BY <2>1, <2>4, <2>6, <2>8
    <3>2. M(Page).evidence = UNION {g.evidence : g \in Sn}
      <4>1. \A i : M(i).evidence = H(i)
        BY <2>2 DEF Merged
      <4>2. \A m : m \in H(Page) <=> \E g \in Sn : m \in g.evidence
        BY <2>4, <2>6, <4>1
      <4>3. \A m : m \in M(Page).evidence <=> m \in UNION {g.evidence : g \in Sn}
        BY <4>1, <4>2
      <4> QED
        BY <4>3
    <3>3. \A g \in Sn : M(Page).confidence >= g.confidence
      <4> SUFFICES ASSUME NEW l \in Tech!Layers, H(l) # {}
                   PROVE  M(Page).confidence >= M(l).confidence
        BY <2>6
      <4>1. PICK m \in H(l) : M(l).confidence = m[3]
        BY <2>2 DEF Merged
      <4>2. m[3] <= M(Page).confidence /\ m[3] \in Nat /\ M(Page).confidence \in Nat
        BY <2>2, <2>4, <2>5 DEF Merged
      <4> QED
        BY <4>1, <4>2
    <3>4. \E g \in Sn : M(Page).confidence = g.confidence
      <4>1. PICK m \in H(Page) : M(Page).confidence = m[3]
        BY <2>2, <3>1 DEF Merged
      <4>2. PICK l \in Tech!Layers : m \in H(l)
        BY <2>4
      <4>3. M(l) \in Sn
        BY <2>6, <4>2
      <4>4. m[3] <= M(l).confidence /\ M(l).confidence \in Nat /\ m[3] \in Nat
        BY <2>2, <2>5, <4>2 DEF Merged
      <4>5. M(Page).confidence >= M(l).confidence
        BY <3>3, <4>3
      <4> QED
        BY <4>1, <4>3, <4>4, <4>5
    <3> QED
      BY <2>3, <2>8, <3>1, <3>2, <3>3, <3>4 DEF Sn, Of
  <2> QED
    BY <2>7, <2>8
<1>4. software = UNION {{t \in DOMAIN Tables[c] :
                           \E m \in Tech!Elements(Tables[c][t]), l \in Tech!Layers :
                              m[2] \in l[m[1]]} : c \in DOMAIN Tables}
  <2>1. ASSUME NEW c \in DOMAIN Tables
        PROVE  {d.name : d \in technologies[c]}
                 = {t \in DOMAIN Tables[c] :
                      \E m \in Tech!Elements(Tables[c][t]), l \in Tech!Layers : m[2] \in l[m[1]]}
    <3>1. \A t : t \in {d.name : d \in technologies[c]}
                  <=> t \in DOMAIN Tables[c] /\ Tech!Match(Tables[c][t], Page).confidence > 0
      <4> DEFINE F(u) == Tech!Match(Tables[c][u], Page)
                 D    == {[name |-> u, found |-> F(u)] :
                            u \in {k \in DOMAIN Tables[c] : F(k).confidence > 0}}
      <4>1. technologies[c] = D
        <5>1. Tech!Detections(c, Page) = D
          BY DEF Tech!Detections
        <5>2. technologies[c] = Tech!Detections(c, Page)
          BY <1>1
        <5> QED
          BY <5>1, <5>2
      <4>2. \A u : u \in {d.name : d \in D} <=> u \in DOMAIN Tables[c] /\ F(u).confidence > 0
        <5>1. ASSUME NEW u \in DOMAIN Tables[c], F(u).confidence > 0
              PROVE  \E d \in D : d.name = u
          <6>1. [name |-> u, found |-> F(u)] \in D
            BY <5>1
          <6> QED
            BY <6>1
        <5>2. ASSUME NEW d \in D
              PROVE  d.name \in DOMAIN Tables[c] /\ F(d.name).confidence > 0
          <6>1. PICK u \in DOMAIN Tables[c] : /\ F(u).confidence > 0
                                             /\ d = [name |-> u, found |-> F(u)]
            OBVIOUS
          <6>2. d.name = u
            BY <6>1
          <6> QED
            BY <6>1, <6>2
        <5> HIDE DEF F, D
        <5> QED
          BY <5>1, <5>2
      <4> QED
        BY <4>1, <4>2
    <3>2. \A t \in DOMAIN Tables[c] :
             Tech!Match(Tables[c][t], Page).confidence > 0
               <=> \E m, l : l \in Tech!Layers /\ m \in Hits(c, t, l)
      BY <1>2, HitsMerge
    <3>3. \A t, l, m : m \in Hits(c, t, l)
                         <=> m \in Tech!Elements(Tables[c][t]) /\ m[2] \in l[m[1]]
      BY DEF Hits, Fires
    <3> QED
      BY <3>1, <3>2, <3>3
  <2> QED
    BY <1>1, <2>1
<1> QED
  BY <1>3, <1>4 DEF Tech!ReportIsMerge

-----------------------------------------------------------------------------
LEMMA DataLinesKnown ==
  /\ NoLine \notin DataLines /\ "heading" \notin DataLines /\ "short" \notin DataLines
<1>1. Asn!AsnAssumption
  BY ToolAssumption
<1> QED
  BY <1>1 DEF Asn!AsnAssumption

LEMMA PickIsFirst ==
  ASSUME NEW text \in Seq(Asn!Lines)
  PROVE  /\ Asn!Pick(text) = NoLine => \A i \in DOMAIN text : text[i] \notin DataLines
         /\ Asn!Pick(text) # NoLine =>
              \E i \in DOMAIN text :
                /\ Asn!Pick(text) = text[i] /\ text[i] \in DataLines
                /\ \A j \in 1..(i - 1) : text[j] \notin DataLines
<1> DEFINE data == {i \in DOMAIN text : text[i] \in DataLines}
           first == CHOOSE i \in data : \A j \in data : i <= j
<1>1. DOMAIN text = 1..Len(text) /\ Len(text) \in Nat
  OBVIOUS
<1>2. Asn!Pick(text) = IF data = {} THEN NoLine ELSE text[first]
  BY DEF Asn!Pick
<1>3. CASE data = {}
  BY <1>2, <1>3
<1>4. CASE data # {}
  <2>1. \E i \in data : \A j \in data : i <= j
    <3>1. data \in SUBSET Nat
      BY <1>1
    <3> HIDE DEF data
    <3> QED
      BY <1>4, <3>1, LeastElement
  <2>2. first \in data /\ \A j \in data : first <= j
    BY <2>1
  <2> HIDE DEF first
  <2>3. text[first] \in DataLines /\ text[first] # NoLine
    BY <2>2, DataLinesKnown
  <2>4. \A j \in 1..(first - 1) : text[j] \notin DataLines
    BY <1>1, <2>2
  <2> QED
    BY <1>2, <1>4, <2>2, <2>3, <2>4
<1> QED
  BY <1>3, <1>4

AsnInv ==
  /\ pc \in {"called", "reading", "parse", "failed", "done"}
  /\ lines \in Seq(Asn!Lines)
  /\ pc = "called" => peer = "sending"
  /\ pc = "parse" => peer = "closed"
  /\ pc = "done" => peer = "closed" /\ asn = Asn!Pick(lines) /\ asn # NoLine
  /\ (pc = "failed" /\ peer = "closed") => Asn!Pick(lines) = NoLine

LEMMA AsnKept ==
  ASSUME AsnInv, Asn!Next \/ UNCHANGED <<pc, whose>>
  PROVE  AsnInv'
<1>1. CASE UNCHANGED <<pc, whose>>
  <2>1. pc' = pc /\ peer' = peer /\ lines' = lines /\ asn' = asn
    BY <1>1 DEF whose
  <2>2. Asn!Pick(lines)' = Asn!Pick(lines)
    BY <2>1
  <2> QED
    BY <2>1, <2>2 DEF AsnInv
<1>2. CASE Asn!NotConnected \/ Asn!Connect \/ Asn!GivesUp \/ Asn!EndOfReply \/ Asn!PeerStops
  BY <1>2 DEF AsnInv, Asn!NotConnected, Asn!Connect, Asn!GivesUp, Asn!EndOfReply, Asn!PeerStops
<1>3. ASSUME NEW l \in Asn!Lines, Asn!Recv(l) PROVE AsnInv'
  BY <1>3 DEF AsnInv, Asn!Recv
<1>4. CASE Asn!Parse
  <2>1. /\ pc = "parse" /\ peer' = peer /\ lines' = lines /\ asn' = Asn!Pick(lines)
        /\ pc' = IF asn' = NoLine THEN "failed" ELSE "done"
    BY <1>4 DEF Asn!Parse
  <2>2. Asn!Pick(lines)' = Asn!Pick(lines)
    BY <2>1
  <2> QED
    BY <2>1, <2>2 DEF AsnInv
<1> QED
  BY <1>1, <1>2, <1>3, <1>4 DEF Asn!Next, Asn!Caller, Asn!Service

LEMMA AsnRight ==
  ASSUME AsnInv
  PROVE  Asn!AnswerIsWhole
<1>1. ASSUME pc = "done"
      PROVE  /\ peer = "closed"
             /\ \E i \in DOMAIN lines : /\ asn = lines[i] /\ asn \in DataLines
                                        /\ \A j \in 1..(i - 1) : lines[j] \notin DataLines
  <2>1. /\ lines \in Seq(Asn!Lines) /\ peer = "closed"
        /\ asn = Asn!Pick(lines) /\ asn # NoLine
    BY <1>1 DEF AsnInv
  <2> QED
    BY <2>1, PickIsFirst
<1>2. ASSUME pc = "failed", peer = "closed"
      PROVE  \A i \in DOMAIN lines : lines[i] \notin DataLines
  BY <1>2, PickIsFirst DEF AsnInv
<1> QED
  BY <1>1, <1>2 DEF Asn!AnswerIsWhole

-----------------------------------------------------------------------------
(* What a finite set is mapped onto is finite.                             *)
LEMMA ImageFinite ==
  ASSUME NEW S, IsFiniteSet(S), NEW T, NEW f \in [S -> T], \A y \in T : \E x \in S : f[x] = y
  PROVE  IsFiniteSet(T)
<1>1. f \in Surjection(S, T)
  BY DEF Surjection
<1> QED
  BY <1>1, FS_Surjection

(* A set of tuples that are told apart by what is at one position has as   *)
(* many elements as there are values at that position.                     *)
LEMMA AsManyAsValues ==
  ASSUME NEW S, IsFiniteSet(S), NEW F, NEW k,
         \A f \in F : f[k] \in S, \A x \in S : \E f \in F : f[k] = x,
         \A f, g \in F : f[k] = g[k] => f = g
  PROVE  IsFiniteSet(F) /\ Cardinality(F) = Cardinality(S)
<1> DEFINE of == [x \in S |-> CHOOSE f \in F : f[k] = x]
<1>1. \A x \in S : of[x] \in F /\ of[x][k] = x
  OBVIOUS
<1>2. of \in [S -> F]
  BY <1>1
<1> HIDE DEF of
<1>3. of \in Bijection(S, F)
  BY <1>1, <1>2, Fun_IsBij
<1>4. ExistsBijection(S, F)
  BY <1>3 DEF ExistsBijection
<1> QED
  BY <1>4, FS_Bijection

(* The cardinalities of an instance are those of the library.              *)
LEMMA SameNumbers ==
  ASSUME NEW S
  PROVE  /\ Cloud!IsFiniteSet(S) <=> IsFiniteSet(S)
         /\ Cert!IsFiniteSet(S) <=> IsFiniteSet(S)
         /\ Cloud!Cardinality(S) = Cardinality(S)
         /\ Cert!Cardinality(S) = Cardinality(S)
<1>1. Cloud!IsFiniteSet(S) <=> IsFiniteSet(S)
  BY DEF IsFiniteSet, Cloud!IsFiniteSet
<1>2. Cert!IsFiniteSet(S) <=> IsFiniteSet(S)
  BY DEF IsFiniteSet, Cert!IsFiniteSet
<1>3. Cloud!Cardinality(S) = Cardinality(S)
  BY DEF Cardinality, Cloud!Cardinality
<1>4. Cert!Cardinality(S) = Cardinality(S)
  BY DEF Cardinality, Cert!Cardinality
<1> QED
  BY <1>1, <1>2, <1>3, <1>4

LEMMA TasksFinite ==
  ASSUME NEW c
  PROVE  IsFiniteSet(Cloud!Tasks(c))
<1>1. Cloud!CloudAssumption
  BY ToolAssumption
<1>2. /\ IsFiniteSet(Suffixes) /\ IsFiniteSet(Prefixes)
      /\ Providers \subseteq {"AWS S3", "GCP", "AZURE"}
  BY <1>1, SameNumbers DEF Cloud!CloudAssumption
<1> DEFINE azureAfter  == {<<c, s>> : s \in Suffixes}
           azureBefore == {<<p, c>> : p \in Prefixes}
           after       == {<<c, "-", s>> : s \in Suffixes}
           before      == {<<p, ".", c>> : p \in Prefixes}
           names       == {<<c>>} \cup azureAfter \cup azureBefore \cup after \cup before
<1>3. IsFiniteSet(azureAfter)
  <2> DEFINE f == [s \in Suffixes |-> <<c, s>>]
  <2>1. f \in [Suffixes -> azureAfter] /\ \A y \in azureAfter : \E s \in Suffixes : f[s] = y
    OBVIOUS
  <2> HIDE DEF f, azureAfter
  <2> QED
    BY <1>2, <2>1, ImageFinite
<1>4. IsFiniteSet(azureBefore)
  <2> DEFINE f == [s \in Prefixes |-> <<s, c>>]
  <2>1. f \in [Prefixes -> azureBefore] /\ \A y \in azureBefore : \E s \in Prefixes : f[s] = y
    OBVIOUS
  <2> HIDE DEF f, azureBefore
  <2> QED
    BY <1>2, <2>1, ImageFinite
<1>5. IsFiniteSet(after)
  <2> DEFINE f == [s \in Suffixes |-> <<c, "-", s>>]
  <2>1. f \in [Suffixes -> after] /\ \A y \in after : \E s \in Suffixes : f[s] = y
    OBVIOUS
  <2> HIDE DEF f, after
  <2> QED
    BY <1>2, <2>1, ImageFinite
<1>6. IsFiniteSet(before)
  <2> DEFINE f == [s \in Prefixes |-> <<s, ".", c>>]
  <2>1. f \in [Prefixes -> before] /\ \A y \in before : \E s \in Prefixes : f[s] = y
    OBVIOUS
  <2> HIDE DEF f, before
  <2> QED
    BY <1>2, <2>1, ImageFinite
<1>7. Cloud!Tasks(c) \subseteq Providers \X names
  BY DEF Cloud!Tasks, Cloud!BucketNames
<1>8. IsFiniteSet(names)
  <2> HIDE DEF azureAfter, azureBefore, after, before
  <2>1. IsFiniteSet({<<c>>} \cup azureAfter)
    BY <1>3, FS_Singleton, FS_Union
  <2>2. IsFiniteSet({<<c>>} \cup azureAfter \cup azureBefore)
    BY <1>4, <2>1, FS_Union
  <2>3. IsFiniteSet({<<c>>} \cup azureAfter \cup azureBefore \cup after)
    BY <1>5, <2>2, FS_Union
  <2> QED
    BY <1>6, <2>3, FS_Union
<1>9. IsFiniteSet(Providers)
  <2>1. IsFiniteSet({"AWS S3"} \cup {"GCP"} \cup {"AZURE"})
    BY FS_Singleton, FS_Union
  <2>2. Providers \in SUBSET ({"AWS S3"} \cup {"GCP"} \cup {"AZURE"})
    BY <1>2
  <2> QED
    BY <2>1, <2>2, FS_Subset
<1>10. IsFiniteSet(Providers \X names)
  <2> HIDE DEF names
  <2> QED
    BY <1>8, <1>9, FS_Product
<1> QED
  <2> HIDE DEF names
  <2> QED
    BY <1>7, <1>10, FS_Subset

Statuses == {"PUBLIC", "EXISTS_PRIVATE", "NOT_FOUND", "ERROR"}

LEMMA StatusOf ==
  ASSUME NEW r \in Cloud!Replies
  PROVE  /\ Cloud!Status(r) \in Statuses
         /\ Cloud!Status(r) = "ERROR" <=> r = "raises"
         /\ Cloud!Status(r) = "PUBLIC" <=> r = "200"
         /\ Cloud!Status(r) = "EXISTS_PRIVATE" <=> r = "403"
         /\ Cloud!Status(r) = "NOT_FOUND" <=> r \in {"404", "other"}
BY DEF Cloud!Replies, Cloud!Status, Statuses

CloudInv ==
  /\ pc \in {"called", "failed", "collect", "done"}
  /\ pc \in {"called", "failed"} => buckets = {}
  /\ pc \in {"collect", "done"} => \E c \in Companies : buckets = Cloud!Tasks(c)
  /\ buckets \subseteq Cloud!AllTasks
  /\ reply = [t \in Cloud!AllTasks |-> reply[t]]
  /\ \A t \in Cloud!AllTasks : t \notin buckets => reply[t] = "new"
  /\ \A f \in findings : /\ f[1] \in buckets /\ reply[f[1]] \in Cloud!Replies
                         /\ f = <<f[1], Cloud!Status(reply[f[1]])>>
  /\ DOMAIN totals = {"checked", "PUBLIC", "EXISTS_PRIVATE", "NOT_FOUND"}
  /\ pc = "done" => /\ \A t \in buckets : \E f \in findings : f[1] = t
                    /\ totals["checked"] = Cardinality(buckets)
                    /\ \A s \in {"PUBLIC", "EXISTS_PRIVATE", "NOT_FOUND"} :
                         totals[s] = Cardinality({f \in findings : f[2] = s})

LEMMA CloudKept ==
  ASSUME CloudInv, Cloud!Next \/ UNCHANGED <<pc, cloud>>
  PROVE  CloudInv'
<1>1. CASE UNCHANGED <<pc, cloud>>
  BY <1>1 DEF CloudInv, cloud
<1>2. CASE Cloud!Reject
  BY <1>2 DEF CloudInv, Cloud!Reject
<1>3. CASE Cloud!Submit
  <2>1. PICK c \in Companies : buckets' = Cloud!Tasks(c)
    BY <1>3 DEF Cloud!Submit
  <2>2. buckets' \subseteq Cloud!AllTasks
    BY <2>1 DEF Cloud!AllTasks
  <2>3. /\ pc = "called" /\ pc' = "collect" /\ findings' = findings /\ totals' = totals
        /\ reply' = [t \in Cloud!AllTasks |-> IF t \in buckets' THEN "queued" ELSE "new"]
    BY <1>3 DEF Cloud!Submit
  <2>4. findings = {}
    BY <2>3 DEF CloudInv
  <2> QED
    BY <2>1, <2>2, <2>3, <2>4 DEF CloudInv
<1>4. CASE Cloud!Return
  <2>1. /\ pc = "collect" /\ pc' = "done" /\ UNCHANGED <<buckets, reply, findings>>
        /\ \A t \in buckets : \E f \in findings : f[1] = t
        /\ totals' = [s \in DOMAIN totals |->
                        IF s = "checked" THEN Cloud!Cardinality(buckets)
                        ELSE Cloud!Cardinality({f \in findings : f[2] = s})]
    BY <1>4 DEF Cloud!Return, Cloud!Found, Cloud!WithStatus
  <2>2. /\ totals'["checked"] = Cardinality(buckets)
        /\ \A s \in {"PUBLIC", "EXISTS_PRIVATE", "NOT_FOUND"} :
             totals'[s] = Cardinality({f \in findings : f[2] = s})
    BY <2>1, SameNumbers DEF CloudInv
  <2> QED
    BY <2>1, <2>2 DEF CloudInv
<1>5. ASSUME NEW t \in Cloud!AllTasks, Cloud!Take(t) PROVE CloudInv'
  <2>1. reply' = [reply EXCEPT ![t] = "running"] /\ reply[t] = "queued"
    BY <1>5 DEF Cloud!Take
  <2>2. UNCHANGED <<pc, buckets, findings, totals>> /\ "queued" \notin Cloud!Replies
    BY <1>5 DEF Cloud!Take, Cloud!Replies
  <2> QED
    BY <2>1, <2>2 DEF CloudInv
<1>6. ASSUME NEW t \in Cloud!AllTasks, Cloud!Answer(t) PROVE CloudInv'
  <2>1. PICK r \in Cloud!Replies : reply' = [reply EXCEPT ![t] = r]
    BY <1>6 DEF Cloud!Answer
  <2>2. reply[t] = "running" /\ "running" \notin Cloud!Replies
        /\ UNCHANGED <<pc, buckets, findings, totals>>
    BY <1>6 DEF Cloud!Answer, Cloud!Replies
  <2> QED
    BY <2>1, <2>2 DEF CloudInv
<1>7. ASSUME NEW t \in Cloud!AllTasks, Cloud!Collect(t) PROVE CloudInv'
  <2>1. /\ pc = "collect" /\ reply[t] \in Cloud!Replies
        /\ findings' = findings \cup {<<t, Cloud!Status(reply[t])>>}
        /\ UNCHANGED <<pc, buckets, reply, totals>>
    BY <1>7 DEF Cloud!Collect
  <2>2. t \in buckets
    BY <2>1 DEF CloudInv, Cloud!Replies
  <2>3. ASSUME NEW f \in findings'
        PROVE  /\ f[1] \in buckets /\ reply[f[1]] \in Cloud!Replies
               /\ f = <<f[1], Cloud!Status(reply[f[1]])>>
    BY <2>1, <2>2 DEF CloudInv
  <2> QED
    BY <2>1, <2>3 DEF CloudInv
<1> QED
  BY <1>1, <1>2, <1>3, <1>4, <1>5, <1>6, <1>7 DEF Cloud!Next

LEMMA CloudRight ==
  ASSUME CloudInv
  PROVE  Cloud!FindingsAreReplies
<1> SUFFICES ASSUME pc = "done" PROVE Cloud!FindingsAreReplies
  BY DEF Cloud!FindingsAreReplies
<1>1. PICK c \in Companies : buckets = Cloud!Tasks(c)
  BY DEF CloudInv
<1>2. \A f \in findings : /\ f[1] \in buckets /\ reply[f[1]] \in Cloud!Replies
                          /\ f = <<f[1], Cloud!Status(reply[f[1]])>>
  BY DEF CloudInv
<1>3. \A t \in buckets : \E f \in findings : f[1] = t
  BY DEF CloudInv
<1>4. \A t \in buckets :
        /\ reply[t] \in Cloud!Replies
        /\ {f \in findings : f[1] = t} = {<<t, Cloud!Status(reply[t])>>}
  BY <1>2, <1>3
<1>5. \A t \in buckets : \E s \in Statuses :
        /\ {f \in findings : f[1] = t} = {<<t, s>>}
        /\ s = "ERROR" <=> reply[t] = "raises"
        /\ s = "PUBLIC" <=> reply[t] = "200"
        /\ s = "EXISTS_PRIVATE" <=> reply[t] = "403"
        /\ s = "NOT_FOUND" <=> reply[t] \in {"404", "other"}
  BY <1>4, StatusOf
<1> DEFINE Of(s) == {f \in findings : f[2] = s}
           raised == {t \in Cloud!AllTasks : reply[t] = "raises"}
<1>6. IsFiniteSet(buckets)
  BY <1>1, TasksFinite
<1>7. IsFiniteSet(findings) /\ Cardinality(findings) = Cardinality(buckets)
  BY <1>2, <1>3, <1>6, AsManyAsValues
<1>8. Cardinality(Of("ERROR")) = Cardinality(raised)
  <2>1. raised \in SUBSET buckets
    BY DEF CloudInv
  <2>2. IsFiniteSet(raised)
    BY <1>6, <2>1, FS_Subset
  <2>3. \A f \in Of("ERROR") : f[1] \in raised
    <3>1. \A f \in Of("ERROR") : f[1] \in buckets /\ reply[f[1]] = "raises"
      BY <1>2, StatusOf
    <3> QED
      BY <3>1 DEF CloudInv
  <2>4. ASSUME NEW x \in raised
        PROVE  \E f \in Of("ERROR") : f[1] = x
    <3>1. PICK f \in findings : f[1] = x
      BY <1>3, <2>1
    <3>2. f[2] = "ERROR"
      BY <1>2, <3>1, StatusOf
    <3> QED
      BY <3>1, <3>2
  <2>5. \A f, g \in Of("ERROR") : f[1] = g[1] => f = g
    BY <1>2
  <2> HIDE DEF Of, raised
  <2> QED
    BY <2>2, <2>3, <2>4, <2>5, AsManyAsValues
<1>9. /\ {Cardinality(Of("PUBLIC")), Cardinality(Of("EXISTS_PRIVATE")),
          Cardinality(Of("NOT_FOUND")), Cardinality(Of("ERROR"))} \subseteq Nat
      /\ Cardinality(findings) = Cardinality(Of("PUBLIC")) + Cardinality(Of("EXISTS_PRIVATE"))
                                + Cardinality(Of("NOT_FOUND")) + Cardinality(Of("ERROR"))
  <2> DEFINE A == Of("PUBLIC")
             B == Of("EXISTS_PRIVATE")
             C == Of("NOT_FOUND")
             D == Of("ERROR")
  <2>1. findings = A \cup B \cup C \cup D
    BY <1>2, StatusOf DEF Statuses
  <2>2. A \cap B = {} /\ (A \cup B) \cap C = {} /\ (A \cup B \cup C) \cap D = {}
    OBVIOUS
  <2> HIDE DEF A, B, C, D
  <2>3. /\ A \in SUBSET findings /\ B \in SUBSET findings
        /\ C \in SUBSET findings /\ D \in SUBSET findings
        /\ (A \cup B) \in SUBSET findings /\ (A \cup B \cup C) \in SUBSET findings
    BY <2>1
  <2>4. /\ IsFiniteSet(A) /\ IsFiniteSet(B) /\ IsFiniteSet(C) /\ IsFiniteSet(D)
        /\ IsFiniteSet(A \cup B) /\ IsFiniteSet(A \cup B \cup C)
    BY <1>7, <2>3, FS_Subset
  <2>5. /\ Cardinality(A) \in Nat /\ Cardinality(B) \in Nat
        /\ Cardinality(C) \in Nat /\ Cardinality(D) \in Nat
    BY <2>4, FS_CardinalityType
  <2>6. /\ Cardinality(A \cap B) = 0 /\ Cardinality((A \cup B) \cap C) = 0
        /\ Cardinality((A \cup B \cup C) \cap D) = 0
    BY <2>2, FS_EmptySet
  <2>7. Cardinality(A \cup B) = Cardinality(A) + Cardinality(B) - Cardinality(A \cap B)
    BY <2>4, FS_Union
  <2>8. Cardinality((A \cup B) \cup C)
          = Cardinality(A \cup B) + Cardinality(C) - Cardinality((A \cup B) \cap C)
    BY <2>4, FS_Union
  <2>9. Cardinality((A \cup B \cup C) \cup D)
          = Cardinality(A \cup B \cup C) + Cardinality(D)
              - Cardinality((A \cup B \cup C) \cap D)
    BY <2>4, FS_Union
  <2>10. /\ Cardinality(A \cup B) = Cardinality(A) + Cardinality(B)
         /\ Cardinality(A \cup B \cup C) = Cardinality(A) + Cardinality(B) + Cardinality(C)
    BY <2>5, <2>6, <2>7, <2>8
  <2>11. Cardinality(findings) = Cardinality(A) + Cardinality(B) + Cardinality(C)
                                   + Cardinality(D)
    BY <2>1, <2>5, <2>6, <2>9, <2>10
  <2> QED
    BY <2>5, <2>11 DEF A, B, C, D
<1>10. totals["checked"] = totals["PUBLIC"] + totals["EXISTS_PRIVATE"] + totals["NOT_FOUND"]
                             + Cloud!Cardinality(raised)
  <2>1. /\ totals["checked"] = Cardinality(buckets)
        /\ \A s \in {"PUBLIC", "EXISTS_PRIVATE", "NOT_FOUND"} : totals[s] = Cardinality(Of(s))
    BY DEF CloudInv
  <2>2. Cloud!Cardinality(raised) = Cardinality(raised)
    BY SameNumbers
  <2> HIDE DEF Of, raised
  <2> QED
    BY <1>7, <1>8, <1>9, <2>1, <2>2
<1>11. ASSUME NEW p \in Providers
       PROVE  {f[1][2] : f \in {g \in findings : g[1][1] = p}} = Cloud!BucketNames(p, c)
  <2>1. ASSUME NEW f \in findings, f[1][1] = p
        PROVE  f[1][2] \in Cloud!BucketNames(p, c)
    BY <1>1, <1>2, <2>1 DEF Cloud!Tasks
  <2>2. ASSUME NEW n \in Cloud!BucketNames(p, c)
        PROVE  \E f \in findings : f[1][1] = p /\ f[1][2] = n
    <3>1. <<p, n>> \in buckets
      BY <1>1 DEF Cloud!Tasks
    <3> QED
      BY <1>3, <3>1
  <2> QED
    BY <2>1, <2>2
<1> QED
  BY <1>5, <1>10, <1>11 DEF Cloud!FindingsAreReplies, Statuses

-----------------------------------------------------------------------------
(* The lines of a subdomain in a log, and where each of them is first.     *)
Named(s)  == {l \in Cert!Elements(s) : l[1].kind = "subdomain"}
Firsts(s) == {i \in DOMAIN s : s[i] \in Named(s) /\ \A j \in 1..(i - 1) : s[j] # s[i]}
Wild(s)   == {l \in Cert!Elements(s) : l[1].kind = "wildcard"}
Pair(l)   == <<l[1].name, l[2]>>

(* A line has one name and certificate, and a subdomain's no other line    *)
(* has.                                                                    *)
LEMMA LineIsPair ==
  ASSUME NEW l \in Cert!Lines, l[1].kind = "subdomain"
  PROVE  /\ Pair(l) \in Subdomains \X Issued
         /\ l = <<[kind |-> "subdomain", name |-> Pair(l)[1]], Pair(l)[2]>>
<1>1. PICK n \in Cert!Names, c \in Issued : l = <<n, c>>
  BY DEF Cert!Lines
<1>2. n \in [kind : {"subdomain", "wildcard"}, name : Subdomains]
  BY <1>1 DEF Cert!Names
<1>3. n = [kind |-> "subdomain", name |-> n.name] /\ n.name \in Subdomains
  BY <1>1, <1>2
<1> QED
  BY <1>1, <1>3 DEF Pair

LEMMA ElementsAppend ==
  ASSUME NEW T, NEW s \in Seq(T), NEW x \in T
  PROVE  Cert!Elements(Append(s, x)) = Cert!Elements(s) \cup {x}
<1>1. /\ DOMAIN s = 1..Len(s) /\ Len(s) \in Nat
      /\ DOMAIN Append(s, x) = 1..(Len(s) + 1)
      /\ Append(s, x)[Len(s) + 1] = x /\ \A i \in 1..Len(s) : Append(s, x)[i] = s[i]
  OBVIOUS
<1>2. Cert!Elements(Append(s, x)) \subseteq Cert!Elements(s) \cup {x}
  BY <1>1 DEF Cert!Elements
<1>3. ASSUME NEW y \in Cert!Elements(s) PROVE y \in Cert!Elements(Append(s, x))
  <2>1. PICK i \in 1..Len(s) : y = s[i]
    BY <1>1 DEF Cert!Elements
  <2>2. i \in DOMAIN Append(s, x) /\ y = Append(s, x)[i]
    BY <1>1, <2>1
  <2> QED
    BY <2>2 DEF Cert!Elements
<1>4. x \in Cert!Elements(Append(s, x))
  <2>1. (Len(s) + 1) \in DOMAIN Append(s, x) /\ x = Append(s, x)[Len(s) + 1]
    BY <1>1
  <2> QED
    BY <2>1 DEF Cert!Elements
<1> QED
  BY <1>2, <1>3, <1>4

LEMMA FirstsAppend ==
  ASSUME NEW s \in Seq(Cert!Lines), NEW x \in Cert!Lines
  PROVE  LET isNew == x[1].kind = "subdomain" /\ x \notin Named(s)
         IN  Firsts(Append(s, x)) = IF isNew THEN Firsts(s) \cup {Len(s) + 1} ELSE Firsts(s)
<1> DEFINE t == Append(s, x)
<1>1. /\ DOMAIN s = 1..Len(s) /\ Len(s) \in Nat
      /\ DOMAIN t = 1..(Len(s) + 1)
      /\ t[Len(s) + 1] = x /\ \A i \in 1..Len(s) : t[i] = s[i]
  OBVIOUS
<1>2. Cert!Elements(t) = Cert!Elements(s) \cup {x}
  BY ElementsAppend
<1> HIDE DEF t
<1>3. \A i \in 1..Len(s) : s[i] \in Cert!Elements(s)
  BY <1>1 DEF Cert!Elements
<1>4. ASSUME NEW i \in 1..Len(s) PROVE i \in Firsts(t) <=> i \in Firsts(s)
  <2>1. t[i] \in Named(t) <=> s[i] \in Named(s)
    BY <1>1, <1>2, <1>3 DEF Named
  <2>2. \A j \in 1..(i - 1) : t[j] = s[j]
    BY <1>1
  <2> QED
    BY <1>1, <2>1, <2>2 DEF Firsts
<1>5. (Len(s) + 1) \in Firsts(t) <=> x[1].kind = "subdomain" /\ x \notin Named(s)
  <2>1. t[Len(s) + 1] \in Named(t) <=> x[1].kind = "subdomain"
    BY <1>1, <1>2 DEF Named
  <2>2. x \in Cert!Elements(s) <=> \E j \in 1..Len(s) : t[j] = x
    BY <1>1 DEF Cert!Elements
  <2>3. (Len(s) + 1) - 1 = Len(s) /\ (Len(s) + 1) \in DOMAIN t
    BY <1>1
  <2> QED
    BY <1>1, <2>1, <2>2, <2>3 DEF Firsts, Named
<1>6. Firsts(t) \subseteq 1..(Len(s) + 1) /\ Firsts(s) \subseteq 1..Len(s)
  BY <1>1 DEF Firsts
<1> QED
  BY <1>1, <1>4, <1>5, <1>6 DEF t

(* The certificates are the pairs of the lines, in the order in which the  *)
(* lines came first, each once.                                            *)
CertInv ==
  /\ pc \in {"called", "failed", "lines", "signals", "done"}
  /\ log \in Seq(Cert!Lines)
  /\ certificates \in Seq(Subdomains \X Issued)
  /\ \A l \in Named(log) : \E k \in DOMAIN certificates : certificates[k] = Pair(l)
  /\ \A k \in 1..Len(certificates) : \E i \in Firsts(log) :
       /\ certificates[k] = Pair(log[i])
       /\ IsFiniteSet({j \in Firsts(log) : j <= i})
       /\ Cardinality({j \in Firsts(log) : j <= i}) = k
  /\ IsFiniteSet(Firsts(log)) /\ Cardinality(Firsts(log)) = Len(certificates)
  /\ IsFiniteSet(Named(log)) /\ Cardinality(Named(log)) = Len(certificates)
  /\ subdomains = {l[1].name : l \in Named(log)} /\ IsFiniteSet(subdomains)
  /\ wildcards = {l[1].name : l \in Wild(log)}
  /\ pc \in {"signals", "done"} =>
       answer = <<[total     |-> Len(certificates),
                   unique    |-> Cardinality(subdomains),
                   truncated |-> Len(certificates) > MaxReturned,
                   records   |-> SubSeq(certificates, 1,
                                        Cert!Least(MaxReturned, Len(certificates)))]>>
  /\ pc = "done" => (warning # "none" <=> Cardinality(subdomains) > Many)

LEMMA NextLines ==
  /\ Named(log)' = Named(log') /\ Firsts(log)' = Firsts(log') /\ Wild(log)' = Wild(log')
  /\ \A i : (Pair(log[i]))' = Pair(log'[i])
BY DEF Named, Firsts, Wild, Pair, Cert!Elements

LEMMA NamedAppend ==
  ASSUME NEW s \in Seq(Cert!Lines), NEW x \in Cert!Lines
  PROVE  /\ x[1].kind = "subdomain" => Named(Append(s, x)) = Named(s) \cup {x}
         /\ x[1].kind # "subdomain" => Named(Append(s, x)) = Named(s)
         /\ x[1].kind = "wildcard" => Wild(Append(s, x)) = Wild(s) \cup {x}
         /\ x[1].kind # "wildcard" => Wild(Append(s, x)) = Wild(s)
BY ElementsAppend DEF Named, Wild

(* What a line without a new subdomain must leave alone.                   *)
LEMMA SameCertificates ==
  ASSUME CertInv, pc = "lines", pc' = "lines", log' \in Seq(Cert!Lines),
         certificates' = certificates, Named(log') = Named(log), Firsts(log') = Firsts(log),
         \A i \in Firsts(log) : log'[i] = log[i],
         subdomains' = {l[1].name : l \in Named(log')}, IsFiniteSet(subdomains'),
         wildcards' = {l[1].name : l \in Wild(log')}
  PROVE  CertInv'
<1> DEFINE upTo(s, i) == {j \in Firsts(s) : j <= i}
<1>1. \A k \in 1..Len(certificates') : \E i \in Firsts(log') :
        /\ certificates'[k] = Pair(log'[i])
        /\ IsFiniteSet(upTo(log', i)) /\ Cardinality(upTo(log', i)) = k
  <2>1. \A k \in 1..Len(certificates) : \E i \in Firsts(log) :
          /\ certificates[k] = Pair(log[i])
          /\ IsFiniteSet(upTo(log, i)) /\ Cardinality(upTo(log, i)) = k
    BY DEF CertInv
  <2>2. \A i : upTo(log', i) = upTo(log, i)
    OBVIOUS
  <2> HIDE DEF upTo
  <2> QED
    BY <2>1, <2>2
<1>2. /\ certificates' \in Seq(Subdomains \X Issued)
      /\ \A l \in Named(log') : \E k \in DOMAIN certificates' : certificates'[k] = Pair(l)
      /\ IsFiniteSet(Firsts(log')) /\ Cardinality(Firsts(log')) = Len(certificates')
      /\ IsFiniteSet(Named(log')) /\ Cardinality(Named(log')) = Len(certificates')
  BY DEF CertInv
<1> QED
  BY <1>1, <1>2, NextLines DEF CertInv, Pair

(* A line that is not new leaves the certificates alone, a new one has the *)
(* next place.                                                             *)
LEMMA SubdomainKept ==
  ASSUME CertInv, NEW n \in Cert!Names, NEW c \in Issued, Cert!TakeSubdomain(n, c)
  PROVE  CertInv'
<1> DEFINE x == <<n, c>>
<1>1. /\ pc = "lines" /\ pc' = "lines" /\ n.kind = "subdomain" /\ log' = Append(log, x)
      /\ subdomains' = subdomains \cup {n.name}
      /\ UNCHANGED <<wildcards, answer, warning>>
      /\ certificates' = IF <<n.name, c>> \in Cert!Elements(certificates) THEN certificates
                         ELSE Append(certificates, <<n.name, c>>)
  BY DEF Cert!TakeSubdomain
<1>2. /\ x \in Cert!Lines /\ x[1].kind = "subdomain" /\ x[1].name = n.name
      /\ Pair(x) = <<n.name, c>>
  BY <1>1 DEF Cert!Lines, Pair
<1> HIDE DEF x
<1>3. log \in Seq(Cert!Lines) /\ log' \in Seq(Cert!Lines)
  BY <1>1, <1>2 DEF CertInv
<1>4. \A l \in Named(log) : l \in Cert!Lines /\ l[1].kind = "subdomain"
  BY <1>3 DEF Named, Cert!Elements
<1>5. /\ Named(log') = Named(log) \cup {x} /\ Wild(log') = Wild(log)
      /\ Firsts(log') = IF x \notin Named(log) THEN Firsts(log) \cup {Len(log) + 1}
                        ELSE Firsts(log)
  <2>1. x[1].kind # "wildcard"
    BY <1>2
  <2> QED
    BY <1>1, <1>2, <1>3, <2>1, NamedAppend, FirstsAppend
<1>6. Pair(x) \in Cert!Elements(certificates) <=> x \in Named(log)
  <2>1. ASSUME x \in Named(log) PROVE Pair(x) \in Cert!Elements(certificates)
    BY <2>1 DEF CertInv, Cert!Elements
  <2>2. ASSUME Pair(x) \in Cert!Elements(certificates) PROVE x \in Named(log)
    <3>1. PICK k \in DOMAIN certificates : Pair(x) = certificates[k]
      BY <2>2 DEF Cert!Elements
    <3>2. PICK i \in Firsts(log) : certificates[k] = Pair(log[i])
      <4>1. k \in 1..Len(certificates)
        BY <3>1 DEF CertInv
      <4> QED
        BY <4>1 DEF CertInv
    <3>3. log[i] \in Named(log)
      BY <3>2 DEF Firsts
    <3>4. log[i] = x
      BY <1>2, <1>4, <3>1, <3>2, <3>3, LineIsPair
    <3> QED
      BY <3>3, <3>4
  <2> QED
    BY <2>1, <2>2
<1>7. /\ subdomains' = {l[1].name : l \in Named(log')} /\ IsFiniteSet(subdomains')
      /\ wildcards' = {l[1].name : l \in Wild(log')}
  <2>1. subdomains = {l[1].name : l \in Named(log)} /\ IsFiniteSet(subdomains)
        /\ wildcards = {l[1].name : l \in Wild(log)}
    BY DEF CertInv
  <2>2. IsFiniteSet(subdomains')
    BY <1>1, <2>1, FS_AddElement
  <2>3. subdomains' = {l[1].name : l \in Named(log')}
    BY <1>1, <1>2, <1>5, <2>1
  <2> QED
    BY <1>1, <1>5, <2>1, <2>2, <2>3
<1>8. CASE x \in Named(log)
  <2>1. certificates' = certificates /\ Named(log') = Named(log) /\ Firsts(log') = Firsts(log)
    BY <1>1, <1>2, <1>5, <1>6, <1>8
  <2>2. \A i \in Firsts(log) : log'[i] = log[i]
    BY <1>1, <1>2, <1>3 DEF Firsts
  <2> QED
    BY <1>1, <1>3, <1>7, <2>1, <2>2, SameCertificates
<1>9. CASE x \notin Named(log)
  <2> DEFINE m == Len(certificates)
  <2>1. /\ certificates' = Append(certificates, Pair(x)) /\ Named(log') = Named(log) \cup {x}
        /\ Firsts(log') = Firsts(log) \cup {Len(log) + 1}
    BY <1>1, <1>2, <1>5, <1>6, <1>9
  <2>2. certificates \in Seq(Subdomains \X Issued) /\ Pair(x) \in Subdomains \X Issued
    BY <1>2, LineIsPair DEF CertInv
  <2>3. /\ certificates' \in Seq(Subdomains \X Issued) /\ Len(certificates') = m + 1 /\ m \in Nat
        /\ certificates'[m + 1] = Pair(x)
        /\ \A k \in 1..m : certificates'[k] = certificates[k]
    BY <2>1, <2>2
  <2>4. /\ Len(log) \in Nat /\ Firsts(log) \subseteq 1..Len(log) /\ log'[Len(log) + 1] = x
        /\ \A i \in Firsts(log) : log'[i] = log[i]
    BY <1>1, <1>2, <1>3 DEF Firsts
  <2>5. /\ IsFiniteSet(Firsts(log')) /\ Cardinality(Firsts(log')) = m + 1
        /\ IsFiniteSet(Named(log')) /\ Cardinality(Named(log')) = m + 1
    <3>1. /\ IsFiniteSet(Firsts(log)) /\ Cardinality(Firsts(log)) = m
          /\ IsFiniteSet(Named(log)) /\ Cardinality(Named(log)) = m
      BY DEF CertInv
    <3>2. (Len(log) + 1) \notin Firsts(log)
      BY <2>4
    <3> QED
      BY <1>9, <2>1, <3>1, <3>2, FS_AddElement
  <2>6. ASSUME NEW k \in 1..(m + 1)
        PROVE  \E i \in Firsts(log') : /\ certificates'[k] = Pair(log'[i])
                                       /\ IsFiniteSet({j \in Firsts(log') : j <= i})
                                       /\ Cardinality({j \in Firsts(log') : j <= i}) = k
    <3>1. CASE k = m + 1
      <4>1. {j \in Firsts(log') : j <= Len(log) + 1} = Firsts(log')
        BY <2>1, <2>4
      <4>2. (Len(log) + 1) \in Firsts(log')
        BY <2>1
      <4> QED
        BY <2>3, <2>4, <2>5, <3>1, <4>1, <4>2
    <3>2. CASE k \in 1..m
      <4>1. PICK i \in Firsts(log) : /\ certificates[k] = Pair(log[i])
                                     /\ IsFiniteSet({j \in Firsts(log) : j <= i})
                                     /\ Cardinality({j \in Firsts(log) : j <= i}) = k
        BY <3>2 DEF CertInv
      <4>2. {j \in Firsts(log') : j <= i} = {j \in Firsts(log) : j <= i}
        BY <2>1, <2>4
      <4>3. i \in Firsts(log') /\ certificates'[k] = Pair(log'[i])
        BY <2>1, <2>3, <2>4, <3>2, <4>1
      <4> QED
        BY <4>1, <4>2, <4>3
    <3>3. k = m + 1 \/ k \in 1..m
      BY <2>3
    <3> QED
      BY <3>1, <3>2, <3>3
  <2>7. ASSUME NEW l \in Named(log')
        PROVE  \E k \in DOMAIN certificates' : certificates'[k] = Pair(l)
    <3>1. DOMAIN certificates' = 1..(m + 1)
      BY <2>3
    <3>2. CASE l = x
      BY <2>3, <3>1, <3>2
    <3>3. CASE l \in Named(log)
      <4>1. PICK k \in DOMAIN certificates : certificates[k] = Pair(l)
        BY <3>3 DEF CertInv
      <4>2. k \in 1..m
        BY <2>2, <4>1
      <4> QED
        BY <2>3, <3>1, <4>1, <4>2
    <3> QED
      BY <2>1, <3>2, <3>3
  <2> QED
    BY <1>1, <1>3, <1>7, <2>3, <2>5, <2>6, <2>7, NextLines DEF CertInv, Pair
<1> QED
  BY <1>8, <1>9

LEMMA CertKept ==
  ASSUME CertInv, Cert!Next \/ UNCHANGED <<pc, certs>>
  PROVE  CertInv'
<1>1. CASE UNCHANGED <<pc, certs>>
  BY <1>1, NextLines DEF CertInv, certs, Pair
<1>2. CASE Cert!Fails \/ Cert!Fetched \/ Cert!BadEntry
  BY <1>2, NextLines DEF CertInv, Cert!Fails, Cert!Fetched, Cert!BadEntry, Pair
<1>3. ASSUME NEW n \in Cert!Names, NEW c \in Issued, Cert!TakeSubdomain(n, c)
      PROVE  CertInv'
  BY <1>3, SubdomainKept
<1>4. ASSUME NEW n \in Cert!Names, NEW c \in Issued, Cert!TakeOther(n, c)
      PROVE  CertInv'
  <2> DEFINE x == <<n, c>>
  <2>1. /\ pc = "lines" /\ pc' = "lines" /\ log' = Append(log, x) /\ n.kind # "subdomain"
        /\ wildcards' = IF n.kind = "wildcard" THEN wildcards \cup {n.name} ELSE wildcards
        /\ UNCHANGED <<subdomains, certificates, answer, warning>>
    BY <1>4 DEF Cert!TakeOther
  <2>2. /\ x \in Cert!Lines /\ x[1].kind = n.kind /\ x[1].name = n.name
        /\ log \in Seq(Cert!Lines) /\ log' \in Seq(Cert!Lines)
    BY <2>1 DEF CertInv, Cert!Lines
  <2> HIDE DEF x
  <2>3. Named(log') = Named(log) /\ Firsts(log') = Firsts(log)
    BY <2>1, <2>2, NamedAppend, FirstsAppend
  <2>4. wildcards' = {l[1].name : l \in Wild(log')}
    <3>1. wildcards = {l[1].name : l \in Wild(log)}
      BY DEF CertInv
    <3>2. CASE n.kind = "wildcard"
      BY <2>1, <2>2, <3>1, <3>2, NamedAppend
    <3>3. CASE n.kind # "wildcard"
      BY <2>1, <2>2, <3>1, <3>3, NamedAppend
    <3> QED
      BY <3>2, <3>3
  <2>5. \A i \in Firsts(log) : log'[i] = log[i]
    BY <2>1, <2>2 DEF Firsts
  <2>6. subdomains' = {l[1].name : l \in Named(log')} /\ IsFiniteSet(subdomains')
    BY <2>1, <2>3 DEF CertInv
  <2> QED
    BY <2>1, <2>2, <2>3, <2>4, <2>5, <2>6, SameCertificates
<1>5. CASE Cert!Answer
  BY <1>5, SameNumbers, NextLines DEF CertInv, Cert!Answer, Pair
<1>6. CASE Cert!Extract
  <2>1. /\ pc = "signals" /\ pc' = "done"
        /\ UNCHANGED <<log, subdomains, wildcards, certificates, answer>>
        /\ warning' = CASE answer[1].unique > Large -> "large"
                        [] answer[1].unique > Many /\ answer[1].unique <= Large -> "expanded"
                        [] OTHER -> "none"
    BY <1>6 DEF Cert!Extract
  <2>2. answer[1].unique = Cardinality(subdomains) /\ Cardinality(subdomains) \in Nat
    BY <2>1, FS_CardinalityType DEF CertInv
  <2>3. Cert!CertAssumption
    BY ToolAssumption
  <2>4. warning' # "none" <=> Cardinality(subdomains) > Many
    BY <2>1, <2>2, <2>3 DEF Cert!CertAssumption
  <2> QED
    BY <2>1, <2>4, NextLines DEF CertInv, Pair
<1> QED
  BY <1>1, <1>2, <1>3, <1>4, <1>5, <1>6 DEF Cert!Next

LEMMA CertRight ==
  ASSUME CertInv
  PROVE  Cert!CountsBeforeCut
<1> SUFFICES ASSUME pc = "done" PROVE Cert!CountsBeforeCut
  BY DEF Cert!CountsBeforeCut
<1> DEFINE a == answer[1]
           m == Len(certificates)
<1>1. m \in Nat /\ MaxReturned \in Nat /\ certificates \in Seq(Subdomains \X Issued)
  <2>1. Cert!CertAssumption
    BY ToolAssumption
  <2> QED
    BY <2>1 DEF Cert!CertAssumption, CertInv
<1>2. /\ a.total = m /\ a.unique = Cardinality(subdomains)
      /\ a.truncated = (m > MaxReturned)
      /\ a.records = SubSeq(certificates, 1, Cert!Least(MaxReturned, m))
  BY DEF CertInv
<1>3. /\ Len(a.records) = Cert!Least(MaxReturned, m)
      /\ DOMAIN a.records = 1..Cert!Least(MaxReturned, m)
      /\ \A k \in DOMAIN a.records : k \in 1..m /\ a.records[k] = certificates[k]
  BY <1>1, <1>2 DEF Cert!Least
<1>4. (a.truncated <=> Len(a.records) < a.total) /\ Len(a.records) <= MaxReturned
  <2>1. /\ Cert!Least(MaxReturned, m) <= MaxReturned
        /\ m > MaxReturned <=> Cert!Least(MaxReturned, m) < m
    BY <1>1 DEF Cert!Least
  <2> HIDE DEF a, m
  <2> QED
    BY <1>2, <1>3, <2>1
<1>5. /\ Cert!Cardinality(Named(log)) = a.total
      /\ Cert!Cardinality({l[1].name : l \in Named(log)}) = a.unique
      /\ subdomains = {l[1].name : l \in Named(log)}
      /\ wildcards = {l[1].name : l \in Wild(log)}
      /\ warning # "none" <=> a.unique > Many
  BY <1>2, SameNumbers DEF CertInv
<1>6. ASSUME NEW k \in DOMAIN a.records
      PROVE  \E i \in Firsts(log) : /\ a.records[k] = <<log[i][1].name, log[i][2]>>
                                    /\ Cert!Cardinality({j \in Firsts(log) : j <= i}) = k
  <2>1. k \in 1..m /\ a.records[k] = certificates[k]
    BY <1>3
  <2>2. PICK i \in Firsts(log) : /\ certificates[k] = Pair(log[i])
                                 /\ Cardinality({j \in Firsts(log) : j <= i}) = k
    BY <2>1 DEF CertInv
  <2> QED
    BY <2>1, <2>2, SameNumbers DEF Pair
<1> HIDE DEF a
<1> QED
  BY <1>4, <1>5, <1>6 DEF Cert!CountsBeforeCut, Named, Firsts, Wild, a

-----------------------------------------------------------------------------
(* Groups as the parser makes them, for any file: an agent line, a line    *)
(* that counts, the agent lines above a line of its group, and the lines   *)
(* of the last group.  The standard's groups are smaller: RobotsRight      *)
(* compares them.                                                          *)
AgentAt(f, i) == f[i].directive = "user-agent" /\ f[i].value # Empty
Counted(f)    == {i \in 1..Len(f) : /\ f[i].directive \in {"allow", "disallow", "crawl-delay"}
                                    /\ f[i].value # Empty}
Above(f, i)   == {j \in 1..(i - 1) : AgentAt(f, j) /\ ~\E d \in (j + 1)..(i - 1) :
                    d \in Counted(f) /\ \E u \in (d + 1)..(i - 1) : AgentAt(f, u)}
AgentsAt(f, i) == {f[j].value : j \in Above(f, i)}
Open(f)       == {d \in Counted(f) : ~\E u \in (d + 1)..Len(f) : AgentAt(f, u)}
Closed(f)     == Counted(f) \ Open(f)

LEMMA LineAppended ==
  ASSUME NEW f \in Seq(Robots!Lines), NEW l \in Robots!Lines
  PROVE  LET g == Append(f, l)
             n == Len(f)
         IN  /\ n \in Nat /\ Len(g) = n + 1 /\ g[n + 1] = l /\ \A i \in 1..n : g[i] = f[i]
             /\ \A i \in 1..n : AgentAt(g, i) <=> AgentAt(f, i)
             /\ Counted(g) \cap 1..n = Counted(f) /\ Counted(g) \subseteq 1..(n + 1)
             /\ AgentAt(g, n + 1) => (n + 1) \notin Counted(g)
             /\ \A i \in 1..(n + 1) : Above(g, i) = Above(f, i) /\ AgentsAt(g, i) = AgentsAt(f, i)
<1> DEFINE g == Append(f, l)
           n == Len(f)
<1>1. n \in Nat /\ Len(g) = n + 1 /\ g[n + 1] = l /\ \A i \in 1..n : g[i] = f[i]
  OBVIOUS
<1> HIDE DEF g, n
<1>2. \A i \in 1..n : AgentAt(g, i) <=> AgentAt(f, i)
  BY <1>1 DEF AgentAt
<1>3. Counted(g) \cap 1..n = Counted(f) /\ Counted(g) \subseteq 1..(n + 1)
  BY <1>1 DEF Counted, n
<1>4. AgentAt(g, n + 1) => (n + 1) \notin Counted(g)
  BY DEF AgentAt, Counted
<1>5. ASSUME NEW i \in 1..(n + 1)
      PROVE  Above(g, i) = Above(f, i) /\ AgentsAt(g, i) = AgentsAt(f, i)
  <2>1. /\ \A j \in 1..(i - 1) : j \in 1..n
        /\ \A j \in 1..(i - 1) : \A d \in (j + 1)..(i - 1) :
             d \in 1..n /\ \A u \in (d + 1)..(i - 1) : u \in 1..n
    BY <1>1
  <2>2. \A j \in 1..n : j \in Counted(g) <=> j \in Counted(f)
    BY <1>3
  <2>3. Above(g, i) = Above(f, i)
    BY <1>2, <2>1, <2>2 DEF Above
  <2>4. \A j \in Above(f, i) : g[j] = f[j]
    BY <1>1, <2>1 DEF Above
  <2> QED
    BY <2>3, <2>4 DEF AgentsAt
<1> QED
  BY <1>1, <1>2, <1>3, <1>4, <1>5 DEF g, n

(* What the next line would be for, and which lines are of the last group. *)
LEMMA GroupAppended ==
  ASSUME NEW f \in Seq(Robots!Lines), NEW l \in Robots!Lines
  PROVE  LET g == Append(f, l)
             n == Len(f)
         IN  /\ AgentAt(g, n + 1) =>
                  /\ Open(g) = {} /\ Closed(g) = Counted(f)
                  /\ Open(f) = {} => Above(g, n + 2) = Above(f, n + 1) \cup {n + 1}
                  /\ Open(f) # {} => Above(g, n + 2) = {n + 1}
             /\ ~AgentAt(g, n + 1) =>
                  /\ Above(g, n + 2) = Above(f, n + 1)
                  /\ Closed(g) = Closed(f)
                  /\ (n + 1) \in Counted(g) => Open(g) = Open(f) \cup {n + 1}
                  /\ (n + 1) \notin Counted(g) => Open(g) = Open(f)
<1> DEFINE g == Append(f, l)
           n == Len(f)
<1>1. /\ n \in Nat /\ Len(g) = n + 1
      /\ \A i \in 1..n : AgentAt(g, i) <=> AgentAt(f, i)
      /\ Counted(g) \cap 1..n = Counted(f) /\ Counted(g) \subseteq 1..(n + 1)
      /\ AgentAt(g, n + 1) => (n + 1) \notin Counted(g)
      /\ Above(g, n + 1) = Above(f, n + 1)
  BY LineAppended
<1>2. /\ Counted(f) \subseteq 1..n
      /\ \A i \in 1..n : AgentAt(f, i) => i \notin Counted(f)
  BY DEF Counted, AgentAt
<1>3. Len(f) = n
  OBVIOUS
<1> HIDE DEF g, n
<1>4. ASSUME NEW d \in Counted(f)
      PROVE  d \in Open(g) <=> d \in Open(f) /\ ~AgentAt(g, n + 1)
  <2>1. d \in 1..n /\ d \in Counted(g)
    BY <1>1, <1>2
  <2>2. (\E u \in (d + 1)..(n + 1) : AgentAt(g, u))
          <=> AgentAt(g, n + 1) \/ \E u \in (d + 1)..n : AgentAt(f, u)
    <3>1. \A u \in (d + 1)..(n + 1) : u = n + 1 \/ (u \in (d + 1)..n /\ u \in 1..n)
      BY <1>1, <2>1
    <3>2. (n + 1) \in (d + 1)..(n + 1) /\ \A u \in (d + 1)..n : u \in 1..n /\ u \in (d + 1)..(n + 1)
      BY <1>1, <2>1
    <3> QED
      BY <1>1, <3>1, <3>2
  <2> QED
    BY <1>1, <1>3, <2>1, <2>2 DEF Open
<1>5. (n + 1) \in Counted(g) => (n + 1) \in Open(g)
  BY <1>1 DEF Open
<1>6. Open(g) \subseteq Counted(g) /\ Counted(g) \subseteq Counted(f) \cup {n + 1}
      /\ Counted(f) \subseteq Counted(g) /\ (n + 1) \notin Counted(f) /\ Open(f) \subseteq Counted(f)
  BY <1>1, <1>2 DEF Open
<1>7. /\ Above(g, n + 2) \cap 1..n \subseteq Above(f, n + 1)
      /\ Above(g, n + 2) \subseteq 1..(n + 1) /\ Above(f, n + 1) \subseteq 1..n
      /\ (n + 1) \in Above(g, n + 2) <=> AgentAt(g, n + 1)
  <2>1. Above(g, n + 2) \subseteq 1..(n + 1) /\ Above(f, n + 1) \subseteq 1..n
    BY <1>1 DEF Above
  <2>2. (n + 1) \in Above(g, n + 2) <=> AgentAt(g, n + 1)
    <3>1. (n + 1) \in 1..((n + 2) - 1) /\ ((n + 1) + 1)..((n + 2) - 1) = {}
      BY <1>1
    <3> QED
      BY <3>1 DEF Above
  <2>3. ASSUME NEW j \in Above(g, n + 2), j \in 1..n PROVE j \in Above(g, n + 1)
    <3>1. (n + 2) - 1 = n + 1 /\ (n + 1) - 1 = n /\ \A d : \A u \in (d + 1)..n : u \in (d + 1)..(n + 1)
      BY <1>1
    <3>2. \A d \in (j + 1)..n : d \in (j + 1)..(n + 1)
      BY <1>1
    <3> QED
      BY <2>3, <3>1, <3>2 DEF Above
  <2> QED
    BY <1>1, <2>1, <2>2, <2>3
<1>8. ASSUME NEW j \in Above(f, n + 1), j \notin Above(g, n + 2)
      PROVE  AgentAt(g, n + 1) /\ Open(f) # {}
  <2>1. j \in 1..n /\ AgentAt(f, j) /\ j \in Above(g, n + 1)
    BY <1>1, <1>7, <1>8 DEF Above
  <2>2. PICK d \in (j + 1)..(n + 1) : d \in Counted(g) /\ \E u \in (d + 1)..(n + 1) : AgentAt(g, u)
    <3>1. (n + 2) - 1 = n + 1 /\ j \in 1..(n + 1) /\ AgentAt(g, j)
      BY <1>1, <2>1
    <3> QED
      BY <1>8, <3>1 DEF Above
  <2>3. PICK u \in (d + 1)..(n + 1) : AgentAt(g, u)
    BY <2>2
  <2>4. d \in 1..n /\ d \in Counted(f) /\ d \in (j + 1)..n
    BY <1>1, <2>1, <2>2, <2>3
  <2>5. ~\E v \in (d + 1)..n : AgentAt(f, v)
    <3>1. (n + 1) - 1 = n
      BY <1>1
    <3> QED
      BY <1>8, <2>4, <3>1 DEF Above
  <2>6. u = n + 1
    BY <1>1, <2>1, <2>3, <2>4, <2>5
  <2> QED
    BY <1>3, <2>3, <2>4, <2>5, <2>6 DEF Open
<1>9. ASSUME AgentAt(g, n + 1), NEW d \in Open(f), NEW j \in Above(f, n + 1)
      PROVE  j \notin Above(g, n + 2)
  <2>1. d \in Counted(f) /\ d \in 1..n /\ ~\E u \in (d + 1)..n : AgentAt(f, u)
    BY <1>2, <1>3 DEF Open
  <2>2. j \in 1..n /\ AgentAt(f, j)
    BY <1>1 DEF Above
  <2>3. j < d
    BY <1>1, <1>2, <2>1, <2>2
  <2>4. /\ d \in (j + 1)..(n + 1) /\ d \in Counted(g) /\ (n + 1) \in (d + 1)..(n + 1)
        /\ (n + 2) - 1 = n + 1
    BY <1>1, <2>1, <2>2, <2>3
  <2> QED
    BY <1>9, <2>4 DEF Above
<1>10. CASE AgentAt(g, n + 1)
  <2>1. Open(g) = {} /\ Closed(g) = Counted(f)
    BY <1>1, <1>4, <1>6, <1>10 DEF Closed
  <2>2. Open(f) = {} => Above(g, n + 2) = Above(f, n + 1) \cup {n + 1}
    BY <1>1, <1>7, <1>8, <1>10
  <2>3. Open(f) # {} => Above(g, n + 2) = {n + 1}
    BY <1>1, <1>7, <1>9, <1>10
  <2> QED
    BY <1>10, <2>1, <2>2, <2>3 DEF g, n
<1>11. CASE ~AgentAt(g, n + 1)
  <2>1. Above(g, n + 2) = Above(f, n + 1)
    <3>1. (n + 1) \notin Above(g, n + 2)
      BY <1>7, <1>11
    <3>2. \A j \in Above(g, n + 2) : j \in 1..n
      BY <1>1, <1>7, <3>1
    <3>3. Above(g, n + 2) \subseteq Above(f, n + 1)
      BY <1>7, <3>2
    <3>4. \A j \in Above(f, n + 1) : j \in Above(g, n + 2)
      BY <1>8, <1>11
    <3> QED
      BY <3>3, <3>4
  <2>2. /\ Closed(g) = Closed(f)
        /\ (n + 1) \in Counted(g) => Open(g) = Open(f) \cup {n + 1}
        /\ (n + 1) \notin Counted(g) => Open(g) = Open(f)
    BY <1>4, <1>5, <1>6, <1>11 DEF Closed
  <2> QED
    BY <1>11, <2>1, <2>2 DEF g, n
<1> QED
  BY <1>10, <1>11

Dirs == {"allow", "disallow"}
RuleType == [agents : SUBSET Agents, allow : SUBSET Paths, disallow : SUBSET Paths,
             delay : CrawlDelays \cup {None}]

HasAgent(f, i)    == \E j \in 1..i : AgentAt(f, j)
Gives(f, i, d, v) == f[i].directive = d /\ f[i].value = v
LastDelay(f, C, i) == \A k \in C : f[k].directive = "crawl-delay" /\ k > i
                                     => Above(f, k) # Above(f, i)

(* What a set of saved rules says is what the lines C of the file say: of  *)
(* each agent, in the summary, and as delays.                              *)
PathsSaid(R, f, C) ==
  \A d \in Dirs : \A a, v : (\E r \in R : a \in r.agents /\ v \in r[d])
                              <=> \E i \in C : Gives(f, i, d, v) /\ a \in AgentsAt(f, i)
SumsSaid(R, f, C) ==
  \A d \in Dirs : \A v : (\E r \in R : v \in r[d])
                           <=> \E i \in C : Gives(f, i, d, v) /\ HasAgent(f, i)
DelaysSaid(R, f, C) ==
  \A r \in R : /\ r.agents # {}
               /\ r.delay # None => \E i \in C : /\ Gives(f, i, "crawl-delay", r.delay)
                                                 /\ r.agents = AgentsAt(f, i)
                                                 /\ LastDelay(f, C, i)
Said(R, f, C) == PathsSaid(R, f, C) /\ SumsSaid(R, f, C) /\ DelaysSaid(R, f, C)

(* The current rule is that of the open lines, for the agents that a next  *)
(* line would be for.                                                      *)
Group(f, q, s) ==
  /\ q \in RuleType /\ s \in BOOLEAN
  /\ q.agents = AgentsAt(f, Len(f) + 1)
  /\ q.agents # {} <=> HasAgent(f, Len(f))
  /\ s <=> Open(f) # {}
  /\ \A d \in Dirs : \A v : v \in q[d] <=> \E i \in Open(f) : Gives(f, i, d, v)
  /\ q.delay # None => \E i \in Open(f) : /\ Gives(f, i, "crawl-delay", q.delay)
                                          /\ \A k \in Open(f) : f[k].directive = "crawl-delay"
                                                                  => k <= i
  /\ \A i \in Open(f) : Above(f, i) = Above(f, Len(f) + 1) /\ (HasAgent(f, i) <=> HasAgent(f, Len(f)))

(* The lines of the last group come last, and are for other agent lines.   *)
LEMMA OpenComesLast ==
  ASSUME NEW f \in Seq(Robots!Lines), NEW c \in Closed(f), NEW o \in Open(f)
  PROVE  /\ c < o
         /\ AgentsAt(f, c) # {} => Above(f, o) # Above(f, c)
<1>1. /\ c \in 1..Len(f) /\ o \in 1..Len(f) /\ Len(f) \in Nat
      /\ c \in Counted(f) /\ o \in Counted(f)
  BY DEF Closed, Open, Counted
<1>2. PICK u \in (c + 1)..Len(f) : AgentAt(f, u)
  BY DEF Closed, Open
<1>3. \A v \in (o + 1)..Len(f) : ~AgentAt(f, v)
  BY DEF Open
<1>4. u < o
  <2>1. u # o
    BY <1>1, <1>2 DEF Counted, AgentAt
  <2>2. ~(u > o)
    BY <1>1, <1>2, <1>3
  <2> QED
    BY <1>1, <1>2, <2>1, <2>2
<1>5. ASSUME AgentsAt(f, c) # {} PROVE Above(f, o) # Above(f, c)
  <2>1. PICK j \in Above(f, c) : TRUE
    BY <1>5 DEF AgentsAt
  <2>2. j \in 1..(c - 1)
    BY DEF Above
  <2>3. c \in (j + 1)..(o - 1) /\ u \in (c + 1)..(o - 1)
    BY <1>1, <1>2, <1>4, <2>2
  <2>4. j \notin Above(f, o)
    BY <1>1, <1>2, <2>3 DEF Above
  <2> QED
    BY <2>1, <2>4
<1> QED
  BY <1>1, <1>2, <1>4, <1>5

(* save_rule: with the current rule the saved ones say all that counts.    *)
LEMMA RuleSaved ==
  ASSUME NEW f \in Seq(Robots!Lines), NEW q, NEW s, NEW R, NEW S,
         Group(f, q, s), Said(R, f, Closed(f)),
         S = IF q.agents = {} \/ (q.allow = {} /\ q.disallow = {} /\ q.delay = None)
             THEN R ELSE R \cup {q}
  PROVE  Said(S, f, Counted(f))
<1>1. Counted(f) = Closed(f) \cup Open(f)
  BY DEF Closed, Open
<1>2. \A i \in Open(f) : AgentsAt(f, i) = q.agents /\ (HasAgent(f, i) <=> q.agents # {})
  BY DEF Group, AgentsAt
<1>3. \A r : r \in S <=> r \in R \/ (r = q /\ q.agents # {}
                                       /\ ~(q.allow = {} /\ q.disallow = {} /\ q.delay = None))
  OBVIOUS
<1>4. \A d \in Dirs : \A v : v \in q[d] => ~(q.allow = {} /\ q.disallow = {} /\ q.delay = None)
  BY DEF Dirs
<1>5. PathsSaid(S, f, Counted(f))
  <2> SUFFICES ASSUME NEW d \in Dirs, NEW a, NEW v
               PROVE  (\E r \in S : a \in r.agents /\ v \in r[d])
                        <=> \E i \in Counted(f) : Gives(f, i, d, v) /\ a \in AgentsAt(f, i)
    BY DEF PathsSaid
  <2>1. (\E r \in R : a \in r.agents /\ v \in r[d])
          <=> \E i \in Closed(f) : Gives(f, i, d, v) /\ a \in AgentsAt(f, i)
    BY DEF Said, PathsSaid
  <2>2. (a \in q.agents /\ v \in q[d])
          <=> \E i \in Open(f) : Gives(f, i, d, v) /\ a \in AgentsAt(f, i)
    BY <1>2 DEF Group
  <2>3. (\E r \in S : a \in r.agents /\ v \in r[d])
          <=> (\E r \in R : a \in r.agents /\ v \in r[d]) \/ (a \in q.agents /\ v \in q[d])
    BY <1>3, <1>4
  <2> QED
    BY <1>1, <2>1, <2>2, <2>3
<1>6. SumsSaid(S, f, Counted(f))
  <2> SUFFICES ASSUME NEW d \in Dirs, NEW v
               PROVE  (\E r \in S : v \in r[d])
                        <=> \E i \in Counted(f) : Gives(f, i, d, v) /\ HasAgent(f, i)
    BY DEF SumsSaid
  <2>1. (\E r \in R : v \in r[d]) <=> \E i \in Closed(f) : Gives(f, i, d, v) /\ HasAgent(f, i)
    BY DEF Said, SumsSaid
  <2>2. (q.agents # {} /\ v \in q[d])
          <=> \E i \in Open(f) : Gives(f, i, d, v) /\ HasAgent(f, i)
    BY <1>2 DEF Group
  <2>3. (\E r \in S : v \in r[d]) <=> (\E r \in R : v \in r[d]) \/ (q.agents # {} /\ v \in q[d])
    BY <1>3, <1>4
  <2> QED
    BY <1>1, <2>1, <2>2, <2>3
<1>7. DelaysSaid(S, f, Counted(f))
  <2> SUFFICES ASSUME NEW r \in S
               PROVE  /\ r.agents # {}
                      /\ r.delay # None => \E i \in Counted(f) :
                           /\ Gives(f, i, "crawl-delay", r.delay) /\ r.agents = AgentsAt(f, i)
                           /\ LastDelay(f, Counted(f), i)
    BY DEF DelaysSaid
  <2>1. CASE r \in R
    <3>1. r.agents # {}
      BY <2>1 DEF Said, DelaysSaid
    <3>2. ASSUME r.delay # None
          PROVE  \E i \in Counted(f) :
                   /\ Gives(f, i, "crawl-delay", r.delay) /\ r.agents = AgentsAt(f, i)
                   /\ LastDelay(f, Counted(f), i)
      <4>1. PICK i \in Closed(f) : /\ Gives(f, i, "crawl-delay", r.delay)
                                   /\ r.agents = AgentsAt(f, i)
                                   /\ LastDelay(f, Closed(f), i)
        BY <2>1, <3>2 DEF Said, DelaysSaid
      <4>2. \A k \in Open(f) : Above(f, k) # Above(f, i)
        BY <3>1, <4>1, OpenComesLast
      <4>3. LastDelay(f, Counted(f), i)
        BY <1>1, <4>1, <4>2 DEF LastDelay
      <4> QED
        BY <1>1, <4>1, <4>3
    <3> QED
      BY <3>1, <3>2
  <2>2. CASE r = q /\ q.agents # {}
    <3>1. ASSUME q.delay # None
          PROVE  \E i \in Counted(f) :
                   /\ Gives(f, i, "crawl-delay", q.delay) /\ q.agents = AgentsAt(f, i)
                   /\ LastDelay(f, Counted(f), i)
      <4>1. PICK i \in Open(f) : /\ Gives(f, i, "crawl-delay", q.delay)
                                 /\ \A k \in Open(f) : f[k].directive = "crawl-delay" => k <= i
        BY <3>1 DEF Group
      <4>2. \A k \in Closed(f) : k < i
        BY OpenComesLast
      <4>3. \A k \in Counted(f) : k \in 1..Len(f)
        BY DEF Counted
      <4>4. LastDelay(f, Counted(f), i)
        <5>1. \A k \in Counted(f) : f[k].directive = "crawl-delay" => ~(k > i)
          BY <1>1, <4>1, <4>2, <4>3
        <5> QED
          BY <5>1 DEF LastDelay
      <4> QED
        BY <1>1, <1>2, <4>1, <4>4
    <3> QED
      BY <2>2, <3>1
  <2> QED
    BY <1>3, <2>1, <2>2
<1> QED
  BY <1>5, <1>6, <1>7 DEF Said

(* What earlier lines say does not change with a new one.                  *)
LEMMA SaidOnAppend ==
  ASSUME NEW f \in Seq(Robots!Lines), NEW l \in Robots!Lines, NEW R,
         NEW C \in SUBSET (1..Len(f)), Said(R, f, C)
  PROVE  Said(R, Append(f, l), C)
<1> DEFINE g == Append(f, l)
<1>1. \A i \in C : /\ \A d, v : Gives(g, i, d, v) <=> Gives(f, i, d, v)
                   /\ g[i].directive = f[i].directive
                   /\ AgentsAt(g, i) = AgentsAt(f, i) /\ Above(g, i) = Above(f, i)
                   /\ HasAgent(g, i) <=> HasAgent(f, i)
  <2> SUFFICES ASSUME NEW i \in C
               PROVE  /\ g[i] = f[i]
                      /\ AgentsAt(g, i) = AgentsAt(f, i) /\ Above(g, i) = Above(f, i)
                      /\ HasAgent(g, i) <=> HasAgent(f, i)
    BY DEF Gives
  <2>1. i \in 1..Len(f) /\ Len(f) \in Nat /\ \A j \in 1..i : j \in 1..Len(f)
    OBVIOUS
  <2>2. g[i] = f[i] /\ \A j \in 1..i : AgentAt(g, j) <=> AgentAt(f, j)
    BY <2>1, LineAppended
  <2>3. i \in 1..(Len(f) + 1)
    BY <2>1
  <2>4. AgentsAt(g, i) = AgentsAt(f, i) /\ Above(g, i) = Above(f, i)
    BY <2>3, LineAppended
  <2> QED
    BY <2>2, <2>4 DEF HasAgent
<1> HIDE DEF g
<1>2. \A i \in C : LastDelay(g, C, i) <=> LastDelay(f, C, i)
  BY <1>1 DEF LastDelay
<1>3. PathsSaid(R, g, C)
  <2> SUFFICES ASSUME NEW d \in Dirs, NEW a, NEW v
               PROVE  (\E r \in R : a \in r.agents /\ v \in r[d])
                        <=> \E i \in C : Gives(g, i, d, v) /\ a \in AgentsAt(g, i)
    BY DEF PathsSaid
  <2>1. (\E r \in R : a \in r.agents /\ v \in r[d])
          <=> \E i \in C : Gives(f, i, d, v) /\ a \in AgentsAt(f, i)
    BY DEF Said, PathsSaid
  <2> QED
    BY <1>1, <2>1
<1>4. SumsSaid(R, g, C)
  <2> SUFFICES ASSUME NEW d \in Dirs, NEW v
               PROVE  (\E r \in R : v \in r[d])
                        <=> \E i \in C : Gives(g, i, d, v) /\ HasAgent(g, i)
    BY DEF SumsSaid
  <2>1. (\E r \in R : v \in r[d]) <=> \E i \in C : Gives(f, i, d, v) /\ HasAgent(f, i)
    BY DEF Said, SumsSaid
  <2> QED
    BY <1>1, <2>1
<1>5. DelaysSaid(R, g, C)
  BY <1>1, <1>2 DEF Said, DelaysSaid
<1> QED
  BY <1>3, <1>4, <1>5 DEF Said, g

(* The notions of a group under a new line.                                *)
LEMMA GroupFacts ==
  ASSUME NEW f \in Seq(Robots!Lines), NEW l \in Robots!Lines
  PROVE  LET g == Append(f, l)
             n == Len(f)
         IN  /\ n \in Nat /\ Len(g) = n + 1 /\ g[n + 1] = l /\ Open(f) \subseteq 1..n
             /\ \A i \in Open(f) : /\ g[i] = f[i] /\ Above(g, i) = Above(f, i)
                                   /\ HasAgent(g, i) <=> HasAgent(f, i)
             /\ HasAgent(g, n + 1) <=> HasAgent(f, n) \/ AgentAt(g, n + 1)
             /\ \A j \in Above(f, n + 1) : g[j] = f[j]
             /\ Above(g, n + 1) = Above(f, n + 1)
<1> DEFINE g == Append(f, l)
           n == Len(f)
<1>1. /\ n \in Nat /\ Len(g) = n + 1 /\ g[n + 1] = l /\ \A i \in 1..n : g[i] = f[i]
      /\ \A i \in 1..n : AgentAt(g, i) <=> AgentAt(f, i)
      /\ \A i \in 1..(n + 1) : Above(g, i) = Above(f, i)
  BY LineAppended
<1>2. Open(f) \subseteq 1..n /\ Above(f, n + 1) \subseteq 1..n
  BY <1>1 DEF Open, Counted, Above
<1> HIDE DEF g, n
<1>3. ASSUME NEW i \in 1..n PROVE HasAgent(g, i) <=> HasAgent(f, i)
  <2>1. \A j \in 1..i : j \in 1..n
    BY <1>1
  <2> QED
    BY <1>1, <2>1 DEF HasAgent
<1>4. HasAgent(g, n + 1) <=> HasAgent(f, n) \/ AgentAt(g, n + 1)
  <2>1. \A j : j \in 1..(n + 1) <=> j \in 1..n \/ j = n + 1
    BY <1>1
  <2> QED
    BY <1>1, <2>1 DEF HasAgent
<1>5. n + 1 \in 1..(n + 1) /\ \A i \in 1..n : i \in 1..(n + 1)
  BY <1>1
<1> QED
  BY <1>1, <1>2, <1>3, <1>4, <1>5 DEF g, n

LEMMA GroupAfterAgent ==
  ASSUME NEW f \in Seq(Robots!Lines), NEW l \in Robots!Lines, NEW q, NEW s, Group(f, q, s),
         l.directive = "user-agent", l.value # Empty
  PROVE  /\ s  => Group(Append(f, l), [Robots!NewRule EXCEPT !.agents = {l.value}], FALSE)
         /\ ~s => Group(Append(f, l), [q EXCEPT !.agents = @ \cup {l.value}], s)
<1> DEFINE g == Append(f, l)
           n == Len(f)
<1>1. /\ n \in Nat /\ Len(g) = n + 1 /\ g[n + 1] = l
      /\ HasAgent(g, n + 1) <=> HasAgent(f, n) \/ AgentAt(g, n + 1)
      /\ \A j \in Above(f, n + 1) : g[j] = f[j]
  BY GroupFacts
<1>2. AgentAt(g, n + 1) /\ l.value \in Agents
  BY <1>1 DEF AgentAt, Robots!Lines, Robots!L
<1>3. /\ Open(g) = {}
      /\ Open(f) = {} => Above(g, n + 2) = Above(f, n + 1) \cup {n + 1}
      /\ Open(f) # {} => Above(g, n + 2) = {n + 1}
  BY <1>2, GroupAppended
<1>4. HasAgent(g, Len(g))
  BY <1>1, <1>2
<1>5. \A d \in Dirs : d = "allow" \/ d = "disallow"
  BY DEF Dirs
<1>6. Group(f, q, s)
  OBVIOUS
<1>7. n = Len(f)
  OBVIOUS
<1> HIDE DEF g, n
<1>8. ASSUME s PROVE Group(g, [Robots!NewRule EXCEPT !.agents = {l.value}], FALSE)
  <2> DEFINE p == [Robots!NewRule EXCEPT !.agents = {l.value}]
  <2>1. /\ Robots!NewRule \in RuleType /\ Robots!NewRule.delay = None
        /\ Robots!NewRule.allow = {} /\ Robots!NewRule.disallow = {}
    BY DEF Robots!NewRule, RuleType
  <2> HIDE DEF Robots!NewRule
  <2>2. /\ p \in RuleType /\ p.agents = {l.value} /\ p.delay = None
        /\ p.allow = {} /\ p.disallow = {}
    BY <1>2, <2>1 DEF RuleType
  <2>3. AgentsAt(g, Len(g) + 1) = {l.value}
    <3>1. Len(g) + 1 = n + 2 /\ Above(g, n + 2) = {n + 1}
      BY <1>1, <1>3, <1>6, <1>7, <1>8 DEF Group
    <3> QED
      BY <1>1, <3>1 DEF AgentsAt
  <2> HIDE DEF p
  <2>4. \A d \in Dirs : p[d] = {}
    BY <1>5, <2>2
  <2> QED
    BY <1>3, <1>4, <2>2, <2>3, <2>4 DEF Group, p
<1>9. ASSUME ~s PROVE Group(g, [q EXCEPT !.agents = @ \cup {l.value}], s)
  <2> DEFINE p == [q EXCEPT !.agents = @ \cup {l.value}]
  <2>1. q \in RuleType /\ Open(f) = {} /\ q.delay = None /\ q.agents = AgentsAt(f, n + 1)
    BY <1>6, <1>7, <1>9 DEF Group
  <2>2. \A d \in Dirs : q[d] = {}
    <3>1. \A d \in Dirs : q[d] \subseteq Paths
      BY <1>5, <2>1 DEF RuleType
    <3>2. \A d \in Dirs : \A v : v \notin q[d]
      BY <1>6, <2>1 DEF Group
    <3> QED
      BY <3>1, <3>2
  <2>3. /\ p \in RuleType /\ p.agents = q.agents \cup {l.value} /\ p.delay = None
        /\ p.allow = q.allow /\ p.disallow = q.disallow
    BY <1>2, <2>1 DEF RuleType
  <2>4. AgentsAt(g, n + 2) = q.agents \cup {l.value}
    <3>1. \A j : j \in Above(g, n + 2) <=> j \in Above(f, n + 1) \/ j = n + 1
      BY <1>3, <2>1
    <3> QED
      BY <1>1, <2>1, <3>1 DEF AgentsAt
  <2> HIDE DEF p
  <2>5. \A d \in Dirs : p[d] = {}
    BY <1>5, <2>2, <2>3
  <2>6. p.agents # {} /\ p.agents = AgentsAt(g, Len(g) + 1)
    <3>1. Len(g) + 1 = n + 2
      BY <1>1
    <3> QED
      BY <2>3, <2>4, <3>1
  <2> QED
    BY <1>3, <1>4, <1>9, <2>3, <2>5, <2>6 DEF Group, p
<1> QED
  BY <1>8, <1>9 DEF g

LEMMA GroupAfterOther ==
  ASSUME NEW f \in Seq(Robots!Lines), NEW l \in Robots!Lines, NEW q, NEW s, Group(f, q, s),
         l.directive = "other" \/ l.value = Empty
  PROVE  /\ Group(Append(f, l), q, s)
         /\ Closed(Append(f, l)) = Closed(f)
<1> DEFINE g == Append(f, l)
           n == Len(f)
<1>1. /\ n \in Nat /\ Len(g) = n + 1 /\ g[n + 1] = l /\ Open(f) \subseteq 1..n
      /\ \A i \in Open(f) : /\ g[i] = f[i] /\ Above(g, i) = Above(f, i)
                            /\ HasAgent(g, i) <=> HasAgent(f, i)
      /\ HasAgent(g, n + 1) <=> HasAgent(f, n) \/ AgentAt(g, n + 1)
      /\ \A j \in Above(f, n + 1) : g[j] = f[j]
  BY GroupFacts
<1>2. ~AgentAt(g, n + 1) /\ (n + 1) \notin Counted(g)
  BY <1>1 DEF AgentAt, Counted
<1>3. Above(g, n + 2) = Above(f, n + 1) /\ Open(g) = Open(f) /\ Closed(g) = Closed(f)
  BY <1>2, GroupAppended
<1>4. Group(f, q, s) /\ n = Len(f) /\ Len(g) + 1 = n + 2
  BY <1>1
<1> HIDE DEF g, n
<1>5. AgentsAt(g, n + 2) = AgentsAt(f, n + 1)
  BY <1>1, <1>3 DEF AgentsAt
<1>6. \A i \in Open(f) : \A d, v : Gives(g, i, d, v) <=> Gives(f, i, d, v)
  BY <1>1 DEF Gives
<1>7. HasAgent(g, Len(g)) <=> HasAgent(f, n)
  BY <1>1, <1>2
<1>8. /\ q \in RuleType /\ s \in BOOLEAN /\ q.agents = AgentsAt(g, Len(g) + 1)
      /\ q.agents # {} <=> HasAgent(g, Len(g))
      /\ s <=> Open(g) # {}
  BY <1>3, <1>4, <1>5, <1>7 DEF Group
<1>9. \A d \in Dirs : \A v : v \in q[d] <=> \E i \in Open(g) : Gives(g, i, d, v)
  BY <1>3, <1>4, <1>6 DEF Group
<1>10. q.delay # None => \E i \in Open(g) : /\ Gives(g, i, "crawl-delay", q.delay)
                                            /\ \A k \in Open(g) : g[k].directive = "crawl-delay"
                                                                    => k <= i
  BY <1>1, <1>3, <1>4, <1>6 DEF Group
<1>11. \A i \in Open(g) : Above(g, i) = Above(g, Len(g) + 1) /\ (HasAgent(g, i) <=> HasAgent(g, Len(g)))
  BY <1>1, <1>3, <1>4, <1>7 DEF Group
<1>12. Group(g, q, s)
  BY <1>8, <1>9, <1>10, <1>11 DEF Group
<1> QED
  BY <1>3, <1>12 DEF g

LEMMA GroupAfterDirective ==
  ASSUME NEW f \in Seq(Robots!Lines), NEW l \in Robots!Lines, NEW q, NEW s, Group(f, q, s),
         l.value # Empty, NEW p,
         \/ l.directive \in Dirs /\ p = [q EXCEPT ![l.directive] = @ \cup {l.value}]
         \/ l.directive = "crawl-delay" /\ p = [q EXCEPT !.delay = l.value]
  PROVE  /\ Group(Append(f, l), p, TRUE)
         /\ Closed(Append(f, l)) = Closed(f)
<1> DEFINE g == Append(f, l)
           n == Len(f)
<1>1. /\ n \in Nat /\ Len(g) = n + 1 /\ g[n + 1] = l /\ Open(f) \subseteq 1..n
      /\ \A i \in Open(f) : /\ g[i] = f[i] /\ Above(g, i) = Above(f, i)
                            /\ HasAgent(g, i) <=> HasAgent(f, i)
      /\ HasAgent(g, n + 1) <=> HasAgent(f, n) \/ AgentAt(g, n + 1)
      /\ \A j \in Above(f, n + 1) : g[j] = f[j]
      /\ Above(g, n + 1) = Above(f, n + 1)
  BY GroupFacts
<1>2. ~AgentAt(g, n + 1) /\ (n + 1) \in Counted(g)
  <2>1. n + 1 \in 1..Len(g)
    BY <1>1
  <2> QED
    BY <1>1, <2>1 DEF AgentAt, Counted, Dirs
<1>3. /\ Above(g, n + 2) = Above(f, n + 1) /\ Open(g) = Open(f) \cup {n + 1}
      /\ Closed(g) = Closed(f)
  BY <1>2, GroupAppended
<1>4. Group(f, q, s) /\ n = Len(f) /\ Len(g) + 1 = n + 2
  BY <1>1
<1>5. l.directive \in Dirs => l.value \in Paths
  BY DEF Robots!Lines, Robots!L, Dirs
<1>6. l.directive = "crawl-delay" => l.value \in CrawlDelays
  BY DEF Robots!Lines, Robots!L
<1> HIDE DEF g, n
<1>7. q \in RuleType
  BY <1>4 DEF Group
<1>8. /\ p \in RuleType /\ p.agents = q.agents
      /\ \A d \in Dirs : \A v : v \in p[d] <=> v \in q[d] \/ (l.directive = d /\ v = l.value)
      /\ p.delay = IF l.directive = "crawl-delay" THEN l.value ELSE q.delay
  <2>1. CASE l.directive = "allow" /\ p = [q EXCEPT !.allow = @ \cup {l.value}]
    BY <1>5, <1>7, <2>1 DEF RuleType, Dirs
  <2>2. CASE l.directive = "disallow" /\ p = [q EXCEPT !.disallow = @ \cup {l.value}]
    BY <1>5, <1>7, <2>2 DEF RuleType, Dirs
  <2>3. CASE l.directive = "crawl-delay" /\ p = [q EXCEPT !.delay = l.value]
    BY <1>6, <1>7, <2>3 DEF RuleType, Dirs
  <2> QED
    BY <2>1, <2>2, <2>3 DEF Dirs
<1>9. AgentsAt(g, n + 2) = AgentsAt(f, n + 1)
  BY <1>1, <1>3 DEF AgentsAt
<1>10. /\ \A i \in Open(f) : \A d, v : Gives(g, i, d, v) <=> Gives(f, i, d, v)
       /\ \A d, v : Gives(g, n + 1, d, v) <=> l.directive = d /\ l.value = v
  BY <1>1 DEF Gives
<1>11. /\ HasAgent(g, Len(g)) <=> HasAgent(f, n)
       /\ HasAgent(g, n + 1) <=> HasAgent(f, n)
  BY <1>1, <1>2
<1>12. /\ p.agents = AgentsAt(g, Len(g) + 1)
       /\ p.agents # {} <=> HasAgent(g, Len(g))
       /\ TRUE <=> Open(g) # {}
  BY <1>3, <1>4, <1>8, <1>9, <1>11 DEF Group
<1>13. ASSUME NEW d \in Dirs, NEW v
       PROVE  v \in p[d] <=> \E i \in Open(g) : Gives(g, i, d, v)
  <2>1. v \in q[d] <=> \E i \in Open(f) : Gives(f, i, d, v)
    BY <1>4 DEF Group
  <2>2. \A i : i \in Open(g) <=> i \in Open(f) \/ i = n + 1
    BY <1>3
  <2>3. (\E i \in Open(g) : Gives(g, i, d, v))
          <=> (\E i \in Open(f) : Gives(f, i, d, v)) \/ (l.directive = d /\ l.value = v)
    BY <1>10, <2>2
  <2>4. v \in p[d] <=> v \in q[d] \/ (l.directive = d /\ v = l.value)
    BY <1>8
  <2> QED
    BY <2>1, <2>3, <2>4
<1>14. ASSUME p.delay # None
       PROVE  \E i \in Open(g) : /\ Gives(g, i, "crawl-delay", p.delay)
                                 /\ \A k \in Open(g) : g[k].directive = "crawl-delay" => k <= i
  <2>1. CASE l.directive = "crawl-delay"
    <3>1. Gives(g, n + 1, "crawl-delay", p.delay) /\ n + 1 \in Open(g)
      BY <1>3, <1>8, <1>10, <2>1
    <3>2. \A k \in Open(g) : k <= n + 1
      BY <1>1, <1>3
    <3> QED
      BY <3>1, <3>2
  <2>2. CASE l.directive # "crawl-delay"
    <3>1. PICK i \in Open(f) : /\ Gives(f, i, "crawl-delay", q.delay)
                               /\ \A k \in Open(f) : f[k].directive = "crawl-delay" => k <= i
      BY <1>4, <1>8, <1>14, <2>2 DEF Group
    <3>2. Gives(g, i, "crawl-delay", p.delay)
      BY <1>8, <1>10, <2>2, <3>1
    <3>3. \A k \in Open(g) : g[k].directive = "crawl-delay" => k \in Open(f)
      BY <1>1, <1>3, <2>2
    <3> QED
      BY <1>1, <1>3, <3>1, <3>2, <3>3
  <2> QED
    BY <2>1, <2>2
<1>15. ASSUME NEW i \in Open(g)
       PROVE  /\ Above(g, i) = Above(g, Len(g) + 1)
              /\ HasAgent(g, i) <=> HasAgent(g, Len(g))
  <2>1. CASE i \in Open(f)
    BY <1>1, <1>3, <1>4, <1>11, <2>1 DEF Group
  <2>2. CASE i = n + 1
    BY <1>1, <1>3, <1>4, <1>11, <2>2
  <2> QED
    BY <1>3, <2>1, <2>2
<1>16. Group(g, p, TRUE)
  BY <1>8, <1>12, <1>13, <1>14, <1>15 DEF Group
<1> QED
  BY <1>3, <1>16 DEF g

(* While lines are read, the saved rules say what the closed groups say    *)
(* and the current rule is the open group's; in the end all is said.       *)
RobotsInv ==
  /\ pc \in {"called", "http", "lines", "failed", "done"}
  /\ file \in Seq(Robots!Lines) /\ rules \in Seq(RuleType)
  /\ pc \in {"called", "http", "lines"} =>
       Group(file, rule, seen) /\ Said(Robots!Elements(rules), file, Closed(file))
  /\ pc = "done" => Said(Robots!Elements(rules), file, Counted(file))

LEMMA RulesSaved ==
  ASSUME NEW q \in RuleType, rules \in Seq(RuleType)
  PROVE  LET S == Robots!SaveRule(q)
             R == Robots!Elements(rules)
         IN  /\ S \in Seq(RuleType)
             /\ Robots!Elements(S) =
                  IF q.agents = {} \/ (q.allow = {} /\ q.disallow = {} /\ q.delay = None)
                  THEN R ELSE R \cup {q}
<1> DEFINE more == Append(rules, q)
<1>1. /\ more \in Seq(RuleType) /\ DOMAIN rules = 1..Len(rules) /\ Len(rules) \in Nat
      /\ DOMAIN more = 1..(Len(rules) + 1)
      /\ more[Len(rules) + 1] = q /\ \A i \in 1..Len(rules) : more[i] = rules[i]
  OBVIOUS
<1> HIDE DEF more
<1>2. Robots!Elements(more) = Robots!Elements(rules) \cup {q}
  <2>1. \A i : i \in DOMAIN more <=> i \in DOMAIN rules \/ i = Len(rules) + 1
    BY <1>1
  <2>2. \A x : x \in Robots!Elements(more) <=> x \in Robots!Elements(rules) \/ x = q
    BY <1>1, <2>1 DEF Robots!Elements
  <2> QED
    BY <2>2
<1> QED
  BY <1>1, <1>2 DEF Robots!SaveRule, more

LEMMA RobotsStart ==
  ASSUME Robots!Init
  PROVE  RobotsInv
<1>1. /\ pc = "called" /\ file = <<>> /\ rule = Robots!NewRule /\ seen = FALSE /\ rules = <<>>
  BY DEF Robots!Init
<1>2. Counted(<<>>) = {} /\ Open(<<>>) = {} /\ Closed(<<>>) = {}
  BY DEF Counted, Open, Closed
<1>3. Above(<<>>, 1) = {} /\ AgentsAt(<<>>, 1) = {} /\ ~HasAgent(<<>>, 0)
  BY DEF Above, AgentsAt, HasAgent
<1>4. /\ Robots!NewRule \in RuleType /\ Robots!NewRule.delay = None /\ Robots!NewRule.agents = {}
      /\ Robots!NewRule.allow = {} /\ Robots!NewRule.disallow = {}
  BY DEF Robots!NewRule, RuleType
<1>5. Robots!Elements(<<>>) = {}
  BY DEF Robots!Elements
<1>6. Said({}, <<>>, {})
  BY DEF Said, PathsSaid, SumsSaid, DelaysSaid
<1>7. Group(<<>>, Robots!NewRule, FALSE)
  <2>1. Len(<<>>) = 0 /\ 0 + 1 = 1 /\ \A d \in Dirs : Robots!NewRule[d] = {}
    BY <1>4 DEF Dirs
  <2> QED
    BY <1>2, <1>3, <1>4, <2>1 DEF Group
<1>8. <<>> \in Seq(Robots!Lines) /\ <<>> \in Seq(RuleType)
  OBVIOUS
<1> QED
  BY <1>1, <1>2, <1>5, <1>6, <1>7, <1>8 DEF RobotsInv

LEMMA RobotsKept ==
  ASSUME RobotsInv, Robots!Next \/ UNCHANGED <<pc, robots>>
  PROVE  RobotsInv'
<1>1. CASE UNCHANGED <<pc, robots>>
  <2>1. pc' = pc /\ file' = file /\ rule' = rule /\ seen' = seen /\ rules' = rules
    BY <1>1 DEF robots
  <2>2. Robots!Elements(rules)' = Robots!Elements(rules)
    BY <2>1
  <2> QED
    BY <2>1, <2>2 DEF RobotsInv
<1>2. CASE Robots!Reject \/ Robots!TryHttps \/ Robots!TryHttp
  <2>1. /\ file' = file /\ rule' = rule /\ seen' = seen /\ rules' = rules
        /\ pc \in {"called", "http"} /\ pc' \in {"lines", "http", "failed"}
    BY <1>2 DEF Robots!Reject, Robots!TryHttps, Robots!TryHttp
  <2>2. Robots!Elements(rules)' = Robots!Elements(rules)
    BY <2>1
  <2> QED
    BY <2>1, <2>2 DEF RobotsInv
<1>3. CASE Robots!End
  <2>1. /\ pc = "lines" /\ pc' = "done" /\ file' = file /\ rule' = rule /\ seen' = seen
        /\ rules' = Robots!SaveRule(rule)
    BY <1>3 DEF Robots!End
  <2>2. /\ file \in Seq(Robots!Lines) /\ rules \in Seq(RuleType) /\ rule \in RuleType
        /\ Group(file, rule, seen) /\ Said(Robots!Elements(rules), file, Closed(file))
    BY <2>1 DEF RobotsInv, Group
  <2>3. rules' \in Seq(RuleType) /\ Said(Robots!Elements(rules'), file, Counted(file))
    BY <2>1, <2>2, RulesSaved, RuleSaved
  <2> QED
    BY <2>1, <2>2, <2>3 DEF RobotsInv
<1>4. ASSUME NEW l \in Robots!Lines,
             Robots!Ignore(l) \/ Robots!Agent(l) \/ Robots!Path(l) \/ Robots!Delay(l)
      PROVE  RobotsInv'
  <2>1. pc = "lines" /\ pc' = "lines" /\ file' = Append(file, l)
    BY <1>4 DEF Robots!Ignore, Robots!Agent, Robots!Path, Robots!Delay, Robots!Line
  <2>2. /\ file \in Seq(Robots!Lines) /\ rules \in Seq(RuleType) /\ rule \in RuleType
        /\ Group(file, rule, seen) /\ Said(Robots!Elements(rules), file, Closed(file))
    BY <2>1 DEF RobotsInv, Group
  <2>3. file' \in Seq(Robots!Lines)
    BY <2>1, <2>2
  <2>4. /\ Closed(file) \subseteq 1..Len(file) /\ Counted(file) \subseteq 1..Len(file)
        /\ Open(file) = {} => Closed(file) = Counted(file)
    BY DEF Closed, Open, Counted
  <2>5. CASE Robots!Ignore(l) \/ Robots!Path(l) \/ Robots!Delay(l)
    <3>1. rules' = rules
      BY <2>5 DEF Robots!Ignore, Robots!Path, Robots!Delay
    <3>2. Group(file', rule', seen') /\ Closed(file') = Closed(file)
      <4>1. CASE Robots!Ignore(l)
        BY <2>1, <2>2, <4>1, GroupAfterOther DEF Robots!Ignore
      <4>2. CASE Robots!Path(l)
        <5>1. /\ l.directive \in Dirs /\ l.value # Empty /\ seen' = TRUE
              /\ rule' = [rule EXCEPT ![l.directive] = @ \cup {l.value}]
          BY <4>2 DEF Robots!Path, Dirs
        <5> QED
          BY <2>1, <2>2, <5>1, GroupAfterDirective
      <4>3. CASE Robots!Delay(l)
        <5>1. /\ l.directive = "crawl-delay" /\ l.value # Empty /\ seen' = TRUE
              /\ rule' = [rule EXCEPT !.delay = l.value]
          BY <4>3 DEF Robots!Delay
        <5> QED
          BY <2>1, <2>2, <5>1, GroupAfterDirective
      <4> QED
        BY <2>5, <4>1, <4>2, <4>3
    <3>3. Said(Robots!Elements(rules), file', Closed(file'))
      BY <2>1, <2>2, <2>4, <3>2, SaidOnAppend
    <3>4. Robots!Elements(rules)' = Robots!Elements(rules)
      BY <3>1
    <3> QED
      BY <2>1, <2>2, <2>3, <3>1, <3>2, <3>3, <3>4 DEF RobotsInv
  <2>6. CASE Robots!Agent(l)
    <3>1. /\ l.directive = "user-agent" /\ l.value # Empty
          /\ IF seen THEN /\ rules' = Robots!SaveRule(rule)
                          /\ rule' = [Robots!NewRule EXCEPT !.agents = {l.value}]
                          /\ seen' = FALSE
             ELSE /\ rule' = [rule EXCEPT !.agents = @ \cup {l.value}]
                  /\ seen' = seen /\ rules' = rules
      BY <2>6 DEF Robots!Agent
    <3>2. Group(file', rule', seen')
      <4>1. CASE seen
        <5>1. Group(Append(file, l), [Robots!NewRule EXCEPT !.agents = {l.value}], FALSE)
          BY <2>2, <3>1, <4>1, GroupAfterAgent
        <5> QED
          BY <2>1, <3>1, <4>1, <5>1
      <4>2. CASE ~seen
        <5>1. Group(Append(file, l), [rule EXCEPT !.agents = @ \cup {l.value}], seen)
          BY <2>2, <3>1, <4>2, GroupAfterAgent
        <5> QED
          BY <2>1, <3>1, <4>2, <5>1
      <4> QED
        BY <4>1, <4>2
    <3>3. Closed(file') = Counted(file)
      <4>1. AgentAt(Append(file, l), Len(file) + 1)
        BY <2>2, <3>1 DEF AgentAt
      <4> QED
        BY <2>1, <2>2, <4>1, GroupAppended
    <3>4. rules' \in Seq(RuleType) /\ Said(Robots!Elements(rules'), file, Counted(file))
      <4>1. CASE seen
        BY <2>2, <3>1, <4>1, RulesSaved, RuleSaved
      <4>2. CASE ~seen
        <5>1. Open(file) = {}
          BY <2>2, <4>2 DEF Group
        <5> QED
          BY <2>2, <2>4, <3>1, <4>2, <5>1
      <4> QED
        BY <4>1, <4>2
    <3>5. Said(Robots!Elements(rules'), file', Closed(file'))
      BY <2>1, <2>2, <2>4, <3>3, <3>4, SaidOnAppend
    <3> QED
      BY <2>1, <2>3, <3>2, <3>4, <3>5 DEF RobotsInv
  <2> QED
    BY <1>4, <2>5, <2>6
<1> QED
  BY <1>1, <1>2, <1>3, <1>4 DEF Robots!Next

LEMMA RobotsRight ==
  ASSUME RobotsInv
  PROVE  Robots!RulesRight
<1> SUFFICES ASSUME pc = "done"
    PROVE  /\ Robots!Meant \subseteq Robots!Reported
           /\ Robots!NoEmptyGroup => Robots!Reported = Robots!Meant
           /\ \A d \in Dirs : Robots!Summary(d) =
                {file[i].value : i \in {k \in Robots!LinesOf(d) : \E j \in 1..k : Robots!IsAgent(j)}}
           /\ \A r \in Robots!Elements(rules) : r.delay # None =>
                \E i \in Robots!LinesOf("crawl-delay") :
                  /\ file[i].value = r.delay /\ Robots!AgentsOf(i) \subseteq r.agents
                  /\ Robots!NoEmptyGroup =>
                       /\ r.agents = Robots!AgentsOf(i)
                       /\ \A k \in Robots!LinesOf("crawl-delay") :
                            k > i => Robots!AgentLines(k) # Robots!AgentLines(i)
  BY DEF Robots!RulesRight, Dirs
<1> DEFINE R == Robots!Elements(rules)
<1>1. file \in Seq(Robots!Lines) /\ Said(R, file, Counted(file))
  BY DEF RobotsInv
<1> HIDE DEF R
<1>2. /\ \A i \in Counted(file) : Robots!Counts(i)
      /\ \A i \in DOMAIN file : Robots!Counts(i) => i \in Counted(file)
      /\ \A i : Robots!IsAgent(i) <=> AgentAt(file, i)
      /\ Counted(file) \subseteq 1..Len(file) /\ DOMAIN file = 1..Len(file) /\ Len(file) \in Nat
  BY <1>1 DEF Counted, AgentAt, Robots!Counts, Robots!IsAgent
<1>3. ASSUME NEW i \in 1..Len(file)
      PROVE  /\ Robots!AgentLines(i) \subseteq Above(file, i)
             /\ Robots!AgentsOf(i) \subseteq AgentsAt(file, i)
             /\ Robots!NoEmptyGroup => /\ Robots!AgentLines(i) = Above(file, i)
                                       /\ Robots!AgentsOf(i) = AgentsAt(file, i)
  <2>1. \A j \in 1..(i - 1) : \A d \in (j + 1)..(i - 1) : Robots!Counts(d) <=> d \in Counted(file)
    BY <1>2
  <2>2. Robots!AgentLines(i) \subseteq Above(file, i)
    BY <1>2, <2>1 DEF Robots!AgentLines, Above, Robots!IsRule
  <2>3. ASSUME Robots!NoEmptyGroup, NEW j \in Above(file, i)
        PROVE  j \in Robots!AgentLines(i)
    <3>1. /\ j \in 1..(i - 1) /\ Robots!IsAgent(j)
          /\ ~\E d \in (j + 1)..(i - 1) :
                Robots!Counts(d) /\ \E u \in (d + 1)..(i - 1) : Robots!IsAgent(u)
      BY <1>2, <2>1 DEF Above
    <3>2. ASSUME NEW d \in (j + 1)..(i - 1), Robots!IsRule(d),
                 NEW u \in (d + 1)..(i - 1), Robots!IsAgent(u)
          PROVE  FALSE
      <4>1. j \in DOMAIN file /\ u \in DOMAIN file /\ d \in (j + 1)..(u - 1)
        BY <1>2, <3>1
      <4>2. PICK e \in (j + 1)..(u - 1) : Robots!Counts(e)
        BY <2>3, <3>1, <3>2, <4>1 DEF Robots!NoEmptyGroup
      <4>3. e \in (j + 1)..(i - 1) /\ u \in (e + 1)..(i - 1)
        BY <1>2, <3>1
      <4> QED
        BY <3>1, <3>2, <4>2, <4>3
    <3> QED
      BY <3>1, <3>2 DEF Robots!AgentLines
  <2> QED
    BY <2>2, <2>3 DEF Robots!AgentsOf, AgentsAt
<1>4. \A d : Robots!LinesOf(d) = {i \in Counted(file) : file[i].directive = d}
  BY <1>2 DEF Robots!LinesOf
<1>5. /\ Robots!Meant \subseteq Robots!Reported
      /\ Robots!NoEmptyGroup => Robots!Reported = Robots!Meant
  <2>1. ASSUME NEW t
        PROVE  t \in Robots!Reported <=>
                 \E d \in Dirs : \E r \in R : \E a \in r.agents : \E v \in r[d] : t = <<a, d, v>>
    <3>1. t \in Robots!Reported <=>
            \E r \in R : \E d \in Dirs : t \in r.agents \X {d} \X r[d]
      <4> DEFINE Triples(r, d) == r.agents \X {d} \X r[d]
                 Family == {Triples(r, d) : r \in R, d \in Dirs}
      <4>1. Robots!Reported = UNION Family
        BY DEF Robots!Reported, Dirs, R
      <4> HIDE DEF Triples
      <4>2. \A S : S \in Family <=> \E r \in R : \E d \in Dirs : S = Triples(r, d)
        OBVIOUS
      <4> HIDE DEF Family
      <4>3. t \in UNION Family <=> \E S : S \in Family /\ t \in S
        OBVIOUS
      <4>4. t \in Robots!Reported <=> \E r \in R : \E d \in Dirs : t \in Triples(r, d)
        BY <4>1, <4>2, <4>3
      <4> QED
        BY <4>4 DEF Triples
    <3>2. \A A, B : \A d : t \in A \X {d} \X B <=> \E a \in A : \E v \in B : t = <<a, d, v>>
      OBVIOUS
    <3>3. ASSUME NEW r \in R, NEW d \in Dirs
          PROVE  t \in r.agents \X {d} \X r[d] <=> \E a \in r.agents : \E v \in r[d] : t = <<a, d, v>>
      BY <3>2
    <3> QED
      BY <3>1, <3>3
  <2>2. ASSUME NEW t
        PROVE  t \in Robots!Meant <=>
                 \E d \in Dirs : \E i \in Counted(file) : \E a \in Robots!AgentsOf(i) : \E v :
                    Gives(file, i, d, v) /\ t = <<a, d, v>>
    <3>1. \A i : i \in Robots!LinesOf("allow") \cup Robots!LinesOf("disallow")
                   <=> i \in Counted(file) /\ file[i].directive \in Dirs
      BY <1>4 DEF Dirs
    <3>2. t \in Robots!Meant <=>
            \E i \in Robots!LinesOf("allow") \cup Robots!LinesOf("disallow") :
               \E a \in Robots!AgentsOf(i) : t = <<a, file[i].directive, file[i].value>>
      BY DEF Robots!Meant
    <3> QED
      BY <3>1, <3>2 DEF Gives
  <2>3. \A d \in Dirs : \A a, v :
          (\E r \in R : a \in r.agents /\ v \in r[d])
            <=> \E i \in Counted(file) : Gives(file, i, d, v) /\ a \in AgentsAt(file, i)
    BY <1>1 DEF Said, PathsSaid
  <2>4. \A i \in Counted(file) :
          /\ Robots!AgentsOf(i) \subseteq AgentsAt(file, i)
          /\ Robots!NoEmptyGroup => Robots!AgentsOf(i) = AgentsAt(file, i)
    BY <1>2, <1>3
  <2>5. Robots!Meant \subseteq Robots!Reported
    BY <2>1, <2>2, <2>3, <2>4
  <2>6. ASSUME Robots!NoEmptyGroup PROVE Robots!Reported = Robots!Meant
    <3>1. \A i \in Counted(file) : Robots!AgentsOf(i) = AgentsAt(file, i)
      BY <2>4, <2>6
    <3>2. ASSUME NEW t PROVE t \in Robots!Reported <=> t \in Robots!Meant
      <4> DEFINE Holds == \E d \in Dirs : \E i \in Counted(file) : \E a \in AgentsAt(file, i) :
                            \E v : Gives(file, i, d, v) /\ t = <<a, d, v>>
      <4>1. t \in Robots!Reported <=> Holds
        <5>1. ASSUME t \in Robots!Reported PROVE Holds
          <6>1. PICK d, r, a, v :
                  d \in Dirs /\ r \in R /\ a \in r.agents /\ v \in r[d] /\ t = <<a, d, v>>
            BY <2>1, <5>1
          <6>2. PICK i \in Counted(file) : Gives(file, i, d, v) /\ a \in AgentsAt(file, i)
            BY <2>3, <6>1
          <6> QED
            BY <6>1, <6>2
        <5>2. ASSUME Holds PROVE t \in Robots!Reported
          BY <2>1, <2>3, <5>2
        <5> QED
          BY <5>1, <5>2
      <4>2. t \in Robots!Meant <=> Holds
        BY <2>2, <3>1
      <4> QED
        BY <4>1, <4>2
    <3> QED
      BY <3>2 DEF Robots!Reported, Robots!Meant
  <2> QED
    BY <2>5, <2>6
<1>6. ASSUME NEW d \in Dirs
      PROVE  Robots!Summary(d) =
               {file[i].value : i \in {k \in Robots!LinesOf(d) : \E j \in 1..k : Robots!IsAgent(j)}}
  <2>1. \A v : v \in Robots!Summary(d) <=> \E r \in R : v \in r[d]
    BY DEF Robots!Summary, R
  <2>2. \A v : (\E r \in R : v \in r[d])
                 <=> \E i \in Counted(file) : Gives(file, i, d, v) /\ HasAgent(file, i)
    BY <1>1 DEF Said, SumsSaid
  <2>3. \A i : i \in {k \in Robots!LinesOf(d) : \E j \in 1..k : Robots!IsAgent(j)}
                 <=> i \in Counted(file) /\ file[i].directive = d /\ HasAgent(file, i)
    BY <1>2, <1>4 DEF HasAgent
  <2> QED
    BY <2>1, <2>2, <2>3 DEF Gives
<1>7. ASSUME NEW r \in Robots!Elements(rules), r.delay # None
      PROVE  \E i \in Robots!LinesOf("crawl-delay") :
               /\ file[i].value = r.delay /\ Robots!AgentsOf(i) \subseteq r.agents
               /\ Robots!NoEmptyGroup =>
                    /\ r.agents = Robots!AgentsOf(i)
                    /\ \A k \in Robots!LinesOf("crawl-delay") :
                         k > i => Robots!AgentLines(k) # Robots!AgentLines(i)
  <2>1. PICK i \in Counted(file) : /\ Gives(file, i, "crawl-delay", r.delay)
                                   /\ r.agents = AgentsAt(file, i)
                                   /\ LastDelay(file, Counted(file), i)
    BY <1>1, <1>7 DEF Said, DelaysSaid, R
  <2>2. \A k \in Counted(file) : /\ Robots!AgentsOf(k) \subseteq AgentsAt(file, k)
                                 /\ Robots!NoEmptyGroup =>
                                      /\ Robots!AgentLines(k) = Above(file, k)
                                      /\ Robots!AgentsOf(k) = AgentsAt(file, k)
    BY <1>2, <1>3
  <2>3. i \in Robots!LinesOf("crawl-delay") /\ file[i].value = r.delay
    BY <1>4, <2>1 DEF Gives
  <2>4. ASSUME Robots!NoEmptyGroup, NEW k \in Robots!LinesOf("crawl-delay"), k > i
        PROVE  Robots!AgentLines(k) # Robots!AgentLines(i)
    BY <1>4, <2>1, <2>2, <2>4 DEF LastDelay
  <2> QED
    BY <2>1, <2>2, <2>3, <2>4
<1> QED
  BY <1>5, <1>6, <1>7

-----------------------------------------------------------------------------
(* Hosts that were started are those neither waiting nor down.  Once the   *)
(* setup is over, hosts wait only while nmap has started as many as it     *)
(* handles at a time, and a host is late only if there were more.          *)
States  == {"waiting", "running", "scanned", "timed out", "down"}
Started == {h \in Hosts : host[h] \notin {"waiting", "down"}}
Up      == {h \in Hosts : host[h] # "down"}

Margin ==
  /\ clock > Setup /\ (\E h \in Hosts : host[h] = "waiting") => Cardinality(Started) >= Parallel
  /\ (\E h \in Hosts : host[h] = "running" /\ clock > Setup + since[h])
       => Cardinality(Started) > Parallel

Reported ==
  /\ \A h \in Hosts : host[h] \in {"scanned", "timed out", "down"}
  /\ DOMAIN found = {h \in Hosts : host[h] \in {"scanned", "timed out"}}
  /\ \A marked \in timedout : marked = {h \in Hosts : host[h] = "timed out"}
  /\ \A h \in DOMAIN found : IF host[h] = "scanned" THEN DOMAIN found[h] \subseteq Ports
                             ELSE DOMAIN found[h] = {}

ScanInv ==
  /\ pc \in {"called", "scan", "failed", "timed out", "signals", "done"}
  /\ host \in [Hosts -> States] /\ since \in [Hosts -> Nat]
  /\ clock \in Nat /\ (pc = "called" => clock = 0)
  /\ \A h \in Hosts : since[h] <= HostTimeout /\ (host[h] = "waiting" => since[h] = 0)
  /\ (pc = "scan" /\ override = {}) => limit = Scan!DefaultTimeout
  /\ pc \in {"called", "scan"} => Margin
  /\ (Scan!SetupFits /\ pc = "timed out" /\ override = {}) => Cardinality(Up) > Parallel
  /\ pc \in {"signals", "done"} => Reported
  /\ pc = "done" =>
       /\ openPorts = UNION {{p \in DOMAIN found[h] : found[h][p] = "open"} : h \in DOMAIN found}
       /\ dangers = Dangerous \cap openPorts

LEMMA ScanNumbers ==
  /\ Parallel \in Nat \ {0} /\ Setup \in Nat /\ HostTimeout \in Nat \ {0}
  /\ HostTimeout >= 0 /\ Ports # {} /\ Dangerous \subseteq Ports /\ IsFiniteSet(Hosts)
<1>1. Scan!ScanAssumption
  BY ToolAssumption
<1>2. Scan!IsFiniteSet(Hosts) <=> IsFiniteSet(Hosts)
  BY DEF IsFiniteSet, Scan!IsFiniteSet
<1> QED
  BY <1>1, <1>2 DEF Scan!ScanAssumption

LEMMA SameCounts == \A S : Scan!Cardinality(S) = Cardinality(S)
BY DEF Cardinality, Scan!Cardinality

LEMMA HostsCounted ==
  /\ IsFiniteSet(Started) /\ Cardinality(Started) \in Nat
  /\ IsFiniteSet(Up) /\ Cardinality(Up) \in Nat /\ Cardinality(Started) <= Cardinality(Up)
  /\ (\E h \in Hosts : host[h] = "waiting") => Cardinality(Started) < Cardinality(Up)
<1>1. Up \in SUBSET Hosts /\ Started \in SUBSET Up
  BY DEF Up, Started
<1>2. IsFiniteSet(Up) /\ Cardinality(Up) \in Nat
  BY <1>1, ScanNumbers, FS_Subset, FS_CardinalityType
<1>3. /\ IsFiniteSet(Started) /\ Cardinality(Started) \in Nat
      /\ Cardinality(Started) <= Cardinality(Up)
      /\ Cardinality(Up) = Cardinality(Started) => Up = Started
  BY <1>1, <1>2, FS_Subset, FS_CardinalityType
<1>4. (\E h \in Hosts : host[h] = "waiting") => Up # Started
  BY DEF Up, Started
<1> QED
  BY <1>2, <1>3, <1>4

LEMMA ScanStart ==
  ASSUME Scan!Init
  PROVE  ScanInv
<1>1. /\ pc = "called" /\ host = [h \in Hosts |-> "waiting"] /\ since = [h \in Hosts |-> 0]
      /\ clock = 0
  BY DEF Scan!Init
<1>2. host \in [Hosts -> States] /\ since \in [Hosts -> Nat]
  BY <1>1 DEF States
<1>3. \A h \in Hosts : host[h] = "waiting" /\ since[h] = 0
  BY <1>1
<1> QED
  BY <1>1, <1>2, <1>3, ScanNumbers DEF ScanInv, Margin

LEMMA ScanKept ==
  ASSUME ScanInv, Scan!Next \/ UNCHANGED <<pc, scan>>
  PROVE  ScanInv'
<1>1. CASE UNCHANGED <<pc, scan>>
  <2>1. /\ pc' = pc /\ override' = override /\ limit' = limit /\ clock' = clock
        /\ host' = host /\ since' = since /\ found' = found /\ timedout' = timedout
        /\ openPorts' = openPorts /\ dangers' = dangers
    BY <1>1 DEF scan
  <2>2. (Margin' <=> Margin) /\ (Reported' <=> Reported) /\ Up' = Up
    BY <2>1 DEF Margin, Started, Up, Reported
  <2>3. Cardinality(Up)' = Cardinality(Up)
    BY <2>2
  <2>4. UNION {{p \in DOMAIN found[h] : found[h][p] = "open"} : h \in DOMAIN found}'
          = UNION {{p \in DOMAIN found[h] : found[h][p] = "open"} : h \in DOMAIN found}
    BY <2>1
  <2>5. /\ pc' \in {"called", "scan"} => Margin'
        /\ (Scan!SetupFits /\ pc' = "timed out" /\ override' = {}) => Cardinality(Up)' > Parallel
        /\ pc' \in {"signals", "done"} => Reported'
    BY <2>1, <2>2, <2>3 DEF ScanInv
  <2>6. pc' = "done" =>
          /\ openPorts'
               = UNION {{p \in DOMAIN found[h] : found[h][p] = "open"} : h \in DOMAIN found}'
          /\ dangers' = Dangerous \cap openPorts'
    BY <2>1, <2>4 DEF ScanInv
  <2> QED
    BY <2>1, <2>5, <2>6 DEF ScanInv
<1>2. CASE Scan!Reject \/ Scan!Start
  <2>1. /\ pc = "called" /\ pc' \in {"failed", "scan"} /\ clock' = clock /\ host' = host
        /\ since' = since
        /\ (pc' = "scan" /\ override' = {}) => limit' = Scan!DefaultTimeout
    BY <1>2 DEF Scan!Reject, Scan!Start
  <2>2. Margin' <=> Margin
    BY <2>1 DEF Margin, Started
  <2> QED
    BY <2>1, <2>2 DEF ScanInv
<1>3. ASSUME NEW h \in Hosts, NEW s \in {"running", "down"}, Scan!TakeUp(h, s)
      PROVE  ScanInv'
  <2>1. /\ pc = "scan" /\ pc' = pc /\ host[h] = "waiting" /\ host' = [host EXCEPT ![h] = s]
        /\ override' = override /\ limit' = limit /\ clock' = clock /\ since' = since
    BY <1>3 DEF Scan!TakeUp
  <2>2. /\ host \in [Hosts -> States] /\ since \in [Hosts -> Nat] /\ clock \in Nat
        /\ since[h] = 0 /\ Margin
    BY <2>1 DEF ScanInv
  <2>3. Started' = IF s = "running" THEN Started \cup {h} ELSE Started
    BY <2>1, <2>2 DEF Started
  <2>4. h \notin Started
    BY <2>1 DEF Started
  <2>5. IsFiniteSet(Started) /\ Cardinality(Started) \in Nat
    BY HostsCounted
  <2>6. Cardinality(Started') = IF s = "running" THEN Cardinality(Started) + 1
                                ELSE Cardinality(Started)
    BY <2>3, <2>4, <2>5, FS_AddElement
  <2>7. /\ \A g \in Hosts : host'[g] = "waiting" => host[g] = "waiting"
        /\ \A g \in Hosts : host'[g] = "running" => host[g] = "running" \/ (g = h /\ s = "running")
    BY <2>1, <2>2
  <2>8. Margin'
    <3>1. clock > Setup => Cardinality(Started) >= Parallel
      BY <2>1, <2>2 DEF Margin
    <3>2. Cardinality(Started)' = Cardinality(Started')
      OBVIOUS
    <3>3. (clock' > Setup /\ (\E g \in Hosts : host'[g] = "waiting"))
            => Cardinality(Started') >= Parallel
      BY <2>1, <2>5, <2>6, <3>1, ScanNumbers
    <3>4. ASSUME NEW g \in Hosts, host'[g] = "running", clock' > Setup + since'[g]
          PROVE  Cardinality(Started') > Parallel
      <4>1. CASE host[g] = "running"
        <5>1. Cardinality(Started) > Parallel
          BY <2>1, <2>2, <3>4, <4>1 DEF Margin
        <5> QED
          BY <2>5, <2>6, <5>1, ScanNumbers
      <4>2. CASE g = h /\ s = "running"
        <5>1. clock > Setup
          BY <2>1, <2>2, <3>4, <4>2, ScanNumbers
        <5> QED
          BY <2>5, <2>6, <3>1, <4>2, <5>1, ScanNumbers
      <4> QED
        BY <2>7, <3>4, <4>1, <4>2
    <3> QED
      BY <3>2, <3>3, <3>4 DEF Margin
  <2>9. host' \in [Hosts -> States] /\ \A g \in Hosts : host'[g] = "waiting" => since'[g] = 0
    BY <2>1, <2>2, <2>7 DEF States, ScanInv
  <2> QED
    BY <2>1, <2>8, <2>9 DEF ScanInv
<1>4. ASSUME NEW h \in Hosts, NEW s \in {"scanned", "timed out"}, Scan!HostEnds(h, s)
      PROVE  ScanInv'
  <2>1. /\ pc = "scan" /\ pc' = pc /\ host[h] = "running" /\ host' = [host EXCEPT ![h] = s]
        /\ override' = override /\ limit' = limit /\ clock' = clock
        /\ since' = [since EXCEPT ![h] = 0]
    BY <1>4 DEF Scan!HostEnds
  <2>2. /\ host \in [Hosts -> States] /\ since \in [Hosts -> Nat] /\ clock \in Nat /\ Margin
        /\ \A g \in Hosts : since[g] <= HostTimeout /\ (host[g] = "waiting" => since[g] = 0)
    BY <2>1 DEF ScanInv
  <2>3. /\ \A g \in Hosts : host'[g] = IF g = h THEN s ELSE host[g]
        /\ \A g \in Hosts : since'[g] = IF g = h THEN 0 ELSE since[g]
        /\ host' \in [Hosts -> States] /\ since' \in [Hosts -> Nat]
    BY <2>1, <2>2 DEF States
  <2>4. Started' = Started
    BY <2>1, <2>3 DEF Started
  <2>5. Cardinality(Started)' = Cardinality(Started)
    BY <2>4
  <2>6. Margin'
    <3>1. /\ \A g \in Hosts : host'[g] = "waiting" => host[g] = "waiting"
          /\ \A g \in Hosts : host'[g] = "running" => host[g] = "running" /\ since'[g] = since[g]
      BY <2>3
    <3>2. (clock' > Setup /\ (\E g \in Hosts : host'[g] = "waiting"))
            => Cardinality(Started) >= Parallel
      BY <2>1, <2>2, <3>1 DEF Margin
    <3>3. (\E g \in Hosts : host'[g] = "running" /\ clock' > Setup + since'[g])
            => Cardinality(Started) > Parallel
      BY <2>1, <2>2, <3>1 DEF Margin
    <3> QED
      BY <2>5, <3>2, <3>3 DEF Margin
  <2>7. ASSUME NEW g \in Hosts
        PROVE  since'[g] <= HostTimeout /\ (host'[g] = "waiting" => since'[g] = 0)
    <3>1. since[g] \in Nat /\ since[g] <= HostTimeout /\ (host[g] = "waiting" => since[g] = 0)
      BY <2>2
    <3>2. since'[g] = 0 \/ (since'[g] = since[g] /\ host'[g] = host[g])
      BY <2>3
    <3> QED
      BY <3>1, <3>2, ScanNumbers
  <2> QED
    BY <2>1, <2>2, <2>3, <2>6, <2>7 DEF ScanInv
<1>5. CASE Scan!Tick
  <2>1. /\ pc = "scan" /\ pc' = pc /\ host' = host /\ override' = override /\ limit' = limit
        /\ clock' = clock + 1
        /\ clock >= Setup => ~Scan!MayTakeUp
        /\ \A h \in Scan!In("running") : since[h] < HostTimeout
        /\ since' = [h \in Hosts |-> IF host[h] = "running" THEN since[h] + 1 ELSE 0]
    BY <1>5 DEF Scan!Tick
  <2>2. /\ host \in [Hosts -> States] /\ since \in [Hosts -> Nat] /\ clock \in Nat /\ Margin
    BY <2>1 DEF ScanInv
  <2>3. /\ \A h \in Hosts : since'[h] = IF host[h] = "running" THEN since[h] + 1 ELSE 0
        /\ since' \in [Hosts -> Nat]
    BY <2>1, <2>2
  <2>4. \A h \in Hosts : since'[h] <= HostTimeout /\ (host'[h] = "waiting" => since'[h] = 0)
    BY <2>1, <2>2, <2>3, ScanNumbers DEF Scan!In
  <2>5. Cardinality(Started)' = Cardinality(Started) /\ Cardinality(Started) \in Nat
    <3>1. Started' = Started
      BY <2>1 DEF Started
    <3> QED
      BY <3>1, HostsCounted
  <2>6. ASSUME clock' > Setup, NEW w \in Hosts, host[w] = "waiting"
        PROVE  Cardinality(Started) >= Parallel
    <3>1. ~(Scan!Cardinality(Scan!In("running")) < Parallel)
      BY <2>1, <2>2, <2>6, ScanNumbers DEF Scan!MayTakeUp, Scan!In
    <3>2. Scan!In("running") \in SUBSET Started
      BY DEF Scan!In, Started
    <3>3. /\ Cardinality(Scan!In("running")) \in Nat
          /\ Cardinality(Scan!In("running")) <= Cardinality(Started)
      BY <3>2, HostsCounted, FS_Subset, FS_CardinalityType
    <3> QED
      BY <2>5, <3>1, <3>3, ScanNumbers, SameCounts
  <2>7. Margin'
    <3>1. \A h \in Hosts : (host[h] = "running" /\ clock' > Setup + since'[h])
                             => clock > Setup + since[h]
      BY <2>1, <2>2, <2>3, ScanNumbers
    <3> QED
      BY <2>1, <2>2, <2>5, <2>6, <3>1 DEF Margin
  <2> QED
    BY <2>1, <2>2, <2>3, <2>4, <2>7 DEF ScanInv
<1>6. CASE Scan!Kill
  <2>1. /\ pc = "scan" /\ pc' = "timed out" /\ clock = limit /\ ~Scan!Over
        /\ override' = override /\ clock' = clock /\ host' = host /\ since' = since
    BY <1>6 DEF Scan!Kill
  <2>2. /\ host \in [Hosts -> States] /\ since \in [Hosts -> Nat] /\ clock \in Nat /\ Margin
        /\ override = {} => limit = Scan!DefaultTimeout
        /\ \A h \in Hosts : since[h] <= HostTimeout
    BY <2>1 DEF ScanInv
  <2>3. ASSUME Scan!SetupFits, override = {}
        PROVE  Cardinality(Up) > Parallel
    <3>1. clock > Setup + HostTimeout
      <4>1. clock = Scan!DefaultTimeout /\ Setup + HostTimeout < Scan!DefaultTimeout
        BY <2>1, <2>2, <2>3 DEF Scan!SetupFits
      <4> QED
        BY <2>2, <4>1
    <3>2. PICK h \in Hosts : host[h] = "waiting" \/ host[h] = "running"
      BY <2>1 DEF Scan!Over, Scan!In
    <3>3. CASE host[h] = "waiting"
      <4>1. clock > Setup
        BY <2>2, <3>1, ScanNumbers
      <4>2. Cardinality(Started) >= Parallel
        BY <2>2, <3>3, <4>1 DEF Margin
      <4> QED
        BY <3>3, <4>2, HostsCounted, ScanNumbers
    <3>4. CASE host[h] = "running"
      <4>1. clock > Setup + since[h]
        BY <2>2, <3>1, ScanNumbers
      <4>2. Cardinality(Started) > Parallel
        BY <2>2, <3>4, <4>1 DEF Margin
      <4> QED
        BY <4>2, HostsCounted, ScanNumbers
    <3> QED
      BY <3>2, <3>3, <3>4
  <2>4. Cardinality(Up)' = Cardinality(Up)
    BY <2>1 DEF Up
  <2> QED
    BY <2>1, <2>2, <2>3, <2>4 DEF ScanInv
<1>7. CASE Scan!Report
  <2>1. /\ pc = "scan" /\ pc' = "signals" /\ Scan!Over
        /\ clock' = clock /\ host' = host /\ since' = since
        /\ timedout' \in Scan!Statuses(Scan!In("scanned") \cup Scan!In("timed out"))
        /\ \E f \in [Scan!In("scanned") -> Scan!Listings] :
             found' = [h \in Scan!In("scanned") \cup Scan!In("timed out") |->
                         IF h \in Scan!In("scanned") THEN f[h] ELSE [p \in {} |-> "open"]]
    BY <1>7 DEF Scan!Report
  <2>2. host \in [Hosts -> States]
    BY DEF ScanInv
  <2>3. \A h \in Hosts : host[h] \in {"scanned", "timed out", "down"}
    BY <2>1, <2>2 DEF Scan!Over, Scan!In, States
  <2>4. Reported'
    <3>1. PICK f \in [Scan!In("scanned") -> Scan!Listings] :
             found' = [h \in Scan!In("scanned") \cup Scan!In("timed out") |->
                         IF h \in Scan!In("scanned") THEN f[h] ELSE [p \in {} |-> "open"]]
      BY <2>1
    <3>2. DOMAIN found' = {h \in Hosts : host[h] \in {"scanned", "timed out"}}
      BY <3>1 DEF Scan!In
    <3>3. ASSUME NEW h \in DOMAIN found'
          PROVE  IF host[h] = "scanned" THEN DOMAIN found'[h] \subseteq Ports
                 ELSE DOMAIN found'[h] = {}
      <4>1. DOMAIN [p \in {} |-> "open"] = {} /\ \A l \in Scan!Listings : DOMAIN l \subseteq Ports
        BY DEF Scan!Listings
      <4> QED
        BY <3>1, <3>3, <4>1 DEF Scan!In
    <3>4. \A marked \in timedout' : marked = {h \in Hosts : host[h] = "timed out"}
      <4>1. \A A : \A statuses \in Scan!Statuses(A \cup Scan!In("timed out")) :
              \A marked \in statuses : marked = Scan!In("timed out")
        BY Zenon DEF Scan!Statuses
      <4>2. \A marked \in timedout' : marked = Scan!In("timed out")
        BY <2>1, <4>1
      <4> QED
        BY <4>2, Zenon DEF Scan!In
    <3> QED
      BY <2>1, <2>3, <3>2, <3>3, <3>4 DEF Reported
  <2> QED
    BY <2>1, <2>4 DEF ScanInv
<1>8. CASE Scan!Extract
  <2>1. /\ pc = "signals" /\ pc' = "done" /\ clock' = clock /\ host' = host /\ since' = since
        /\ found' = found /\ timedout' = timedout
        /\ openPorts' = UNION {{p \in DOMAIN found[h] : found[h][p] = "open"} : h \in DOMAIN found}
        /\ dangers' = Dangerous \cap openPorts'
    BY <1>8 DEF Scan!Extract
  <2>2. Reported'
    BY <2>1 DEF ScanInv, Reported
  <2>3. openPorts' = UNION {{p \in DOMAIN found'[h] : found'[h][p] = "open"} : h \in DOMAIN found'}
    BY <2>1
  <2> QED
    BY <2>1, <2>2, <2>3 DEF ScanInv
<1> QED
  BY <1>1, <1>2, <1>3, <1>4, <1>5, <1>6, <1>7, <1>8 DEF Scan!Next

LEMMA ScanRight ==
  ASSUME ScanInv
  PROVE  Scan!SilenceIsMarked /\ (Scan!SetupFits => Scan!MarginSuffices)
<1>1. Scan!SetupFits => Scan!MarginSuffices
  <2>1. Hosts \ Scan!In("down") = Up
    BY DEF Scan!In, Up
  <2> QED
    BY <2>1, ScanNumbers, SameCounts DEF ScanInv, Scan!MarginSuffices
<1>2. ASSUME pc = "done"
      PROVE  /\ DOMAIN found = Hosts \ Scan!In("down")
             /\ \A marked \in timedout : \A h \in DOMAIN found :
                  /\ h \in marked <=> host[h] = "timed out"
                  /\ h \in marked => DOMAIN found[h] = {}
             /\ \A p \in Dangerous :
                  p \in dangers <=> \E h \in Scan!In("scanned") :
                                      p \in DOMAIN found[h] /\ found[h][p] = "open"
  <2>1. Reported /\ dangers = Dangerous \cap openPorts
        /\ openPorts = UNION {{p \in DOMAIN found[h] : found[h][p] = "open"} : h \in DOMAIN found}
    BY <1>2 DEF ScanInv
  <2>2. DOMAIN found = Hosts \ Scan!In("down")
    BY <2>1 DEF Reported, Scan!In
  <2>3. ASSUME NEW marked \in timedout, NEW h \in DOMAIN found
        PROVE  /\ h \in marked <=> host[h] = "timed out"
               /\ h \in marked => DOMAIN found[h] = {}
    <3>1. h \in marked <=> host[h] = "timed out"
      BY <2>1 DEF Reported
    <3>2. host[h] = "timed out" => host[h] # "scanned"
      OBVIOUS
    <3> QED
      BY <2>1, <3>1, <3>2 DEF Reported
  <2>4. ASSUME NEW p \in Dangerous
        PROVE  p \in dangers <=> \E h \in Scan!In("scanned") :
                                   p \in DOMAIN found[h] /\ found[h][p] = "open"
    <3>1. p \in dangers <=> \E h \in DOMAIN found : p \in DOMAIN found[h] /\ found[h][p] = "open"
      BY <2>1
    <3>2. \A h \in DOMAIN found : p \in DOMAIN found[h] => h \in Scan!In("scanned")
      BY <2>1 DEF Reported, Scan!In
    <3>3. Scan!In("scanned") \subseteq DOMAIN found
      BY <2>1 DEF Reported, Scan!In
    <3> QED
      BY <3>1, <3>2, <3>3
  <2> QED
    BY <2>2, <2>3, <2>4
<1> QED
  BY <1>1, <1>2 DEF Scan!SilenceIsMarked

-----------------------------------------------------------------------------
(* The tool that was named keeps its invariant.                            *)
CallInv ==
  /\ tool = "port_scan" => ScanInv
  /\ tool = "robots_txt_inspect" => RobotsInv
  /\ tool = "tech_stack_detect" => TechInv /\ Fingerprinted
  /\ tool = "cloud_exposure_check" => CloudInv
  /\ tool = "cert_transparency" => CertInv
  /\ tool = "asn_lookup"        => AsnInv
  /\ tool = "cve_lookup"        => CveInv
  /\ tool = "ssl_inspect"       => SslInv
  /\ tool = "ip_reputation"     => IpInv
  /\ tool = "hibp_check"        => HibpInv
  /\ tool = "whois_lookup"      => WhoisInv
  /\ tool = "headers_analyzer"  => SecInv

LEMMA InitHolds == Init => CallInv
<1> SUFFICES ASSUME Init PROVE CallInv
  OBVIOUS
<1> USE DEF Init
<1>1. TechInv /\ Fingerprinted
  <2>1. /\ pc = "called" /\ outcome = [s \in Tech!Schemes |-> "untried"]
        /\ open = FALSE /\ arrived = <<>> /\ body = <<>>
    BY DEF Tech!Init
  <2>2. outcome["https"] = "untried" /\ outcome["http"] = "untried"
        /\ outcome \in [Tech!Schemes -> Outcomes]
    BY <2>1 DEF Tech!Schemes, Outcomes
  <2>3. <<>> \in Seq(Tech!Units) /\ Len(<<>>) = 0 /\ SubSeq(<<>>, 1, 0) = <<>>
    OBVIOUS
  <2>4. 0 < MaxBody
    BY LimitKnown
  <2> QED
    BY <2>1, <2>2, <2>3, <2>4 DEF TechInv, Fingerprinted
<1>2. CveInv
  BY DEF Cve!Init, CveInv
<1>3. SslInv
  BY DEF Ssl!Init, SslInv
<1>4. IpInv
  BY DEF Ip!Init, IpInv
<1>5. HibpInv
  BY DEF Hibp!Init, HibpInv
<1>6. WhoisInv
  BY DEF Whois!Init, WhoisInv
<1>7. SecInv
  BY DEF Sec!Init, SecInv
<1>8. AsnInv
  BY DEF Asn!Init, AsnInv
<1>9. CloudInv
  BY DEF Cloud!Init, CloudInv
<1>10. CertInv
  <2>1. /\ pc = "called" /\ log = <<>> /\ certificates = <<>>
        /\ subdomains = {} /\ wildcards = {}
    BY DEF Cert!Init
  <2>2. Named(log) = {} /\ Firsts(log) = {} /\ Wild(log) = {}
    BY <2>1 DEF Named, Firsts, Wild, Cert!Elements
  <2>3. /\ <<>> \in Seq(Cert!Lines) /\ <<>> \in Seq(Subdomains \X Issued)
        /\ Len(certificates) = 0 /\ 1..0 = {}
    BY <2>1
  <2>4. IsFiniteSet({}) /\ Cardinality({}) = 0
    BY FS_EmptySet
  <2>5. subdomains = {l[1].name : l \in Named(log)} /\ wildcards = {l[1].name : l \in Wild(log)}
    BY <2>1, <2>2
  <2> QED
    BY <2>1, <2>2, <2>3, <2>4, <2>5 DEF CertInv
<1>11. RobotsInv
  BY RobotsStart
<1>12. ScanInv
  BY ScanStart
<1> QED
  BY <1>1, <1>2, <1>3, <1>4, <1>5, <1>6, <1>7, <1>8, <1>9, <1>10, <1>11, <1>12 DEF CallInv

LEMMA StepKeeps == CallInv /\ [Next]_vars => CallInv'
<1> SUFFICES ASSUME CallInv, [Next]_vars PROVE CallInv'
  OBVIOUS
<1>1. tool' = tool
  BY StepsAreOwn
<1>2. tool = "tech_stack_detect" => TechInv' /\ Fingerprinted'
  BY StepsAreOwn, TechKept, FingerprintKept DEF CallInv
<1>3. tool = "cve_lookup" => CveInv'
  BY StepsAreOwn, CveKept DEF CallInv
<1>4. tool = "ssl_inspect" => SslInv'
  BY StepsAreOwn, SslKept DEF CallInv
<1>5. tool = "ip_reputation" => IpInv'
  BY StepsAreOwn, IpKept DEF CallInv
<1>6. tool = "hibp_check" => HibpInv'
  BY StepsAreOwn, HibpKept DEF CallInv
<1>7. tool = "whois_lookup" => WhoisInv'
  BY StepsAreOwn, WhoisKept DEF CallInv
<1>8. tool = "headers_analyzer" => SecInv'
  BY StepsAreOwn, SecKept DEF CallInv
<1>9. tool = "asn_lookup" => AsnInv'
  BY StepsAreOwn, AsnKept DEF CallInv
<1>10. tool = "cloud_exposure_check" => CloudInv'
  BY StepsAreOwn, CloudKept DEF CallInv
<1>11. tool = "cert_transparency" => CertInv'
  BY StepsAreOwn, CertKept DEF CallInv
<1>12. tool = "robots_txt_inspect" => RobotsInv'
  BY StepsAreOwn, RobotsKept DEF CallInv
<1>13. tool = "port_scan" => ScanInv'
  BY StepsAreOwn, ScanKept DEF CallInv
<1> QED
  BY <1>1, <1>2, <1>3, <1>4, <1>5, <1>6, <1>7, <1>8, <1>9, <1>10, <1>11, <1>12, <1>13
  DEF CallInv

LEMMA Invariance == Spec => []CallInv
BY InitHolds, StepKeeps, PTL DEF Spec

(* tech_stack_detect asks over http exactly after a TLS or connection      *)
(* failure, closes its response, and searches a prefix of the body cut at  *)
(* the limit, for every limit and every size of a chunk.                   *)
THEOREM FetchesAreRight == Spec => []FetchRight
<1>1. CallInv => FetchRight
  BY TechRight DEF CallInv, FetchRight
<1> QED
  BY <1>1, Invariance, PTL

(* What tech_stack_detect reports of a page is what its four layers find   *)
(* each on their own, with the union of their evidence and the greatest    *)
(* confidence, and the signal names these technologies and no other: for   *)
(* tables of any size, whatever the order of a technology's markers.       *)
THEOREM ReportsAreMerged == Spec => []ReportIsMerge
<1>1. CallInv => ReportIsMerge
  BY ReportRight DEF CallInv, ReportIsMerge
<1> QED
  BY <1>1, Invariance, PTL

(* robots_txt_inspect reports of each agent what the lines of its groups   *)
(* say and no more, the summary has the paths of all rules, and the delay  *)
(* of a rule is the last of its group: for files of any length, whatever   *)
(* the order of their lines.                                               *)
THEOREM RulesAreRight == Spec => []RulesRight
<1>1. CallInv => RulesRight
  BY RobotsRight DEF CallInv, RulesRight
<1> QED
  BY <1>1, Invariance, PTL

(* If nmap's setup fits into the margin, port_scan with its default        *)
(* timeout loses no scan that nmap can do at a time, for any number of     *)
(* hosts and any --host-timeout; and it marks each host that it has not    *)
(* scanned to the end.                                                     *)
THEOREM ScansAreKept == ASSUME Scan!SetupFits PROVE Spec => []ScanNotLost
<1>1. CallInv => ScanNotLost
  BY ScanRight DEF CallInv, ScanNotLost
<1> QED
  BY <1>1, Invariance, PTL

(* cloud_exposure_check has one finding for each bucket, made from that    *)
(* bucket's own reply in whatever order the threads finish, and the totals *)
(* leave out only the requests that raised: for every list of words and    *)
(* any size of the pool.                                                   *)
THEOREM FindingsAreRight == Spec => []FindingsAreReplies
<1>1. CallInv => FindingsAreReplies
  BY CloudRight DEF CallInv, FindingsAreReplies
<1> QED
  BY <1>1, Invariance, PTL

(* cert_transparency counts the whole log and returns the first of its     *)
(* certificates, however long the log is and wherever the cut is.          *)
THEOREM CountsAreRight == Spec => []CountsBeforeCut
<1>1. CallInv => CountsBeforeCut
  BY CertRight DEF CallInv, CountsBeforeCut
<1> QED
  BY <1>1, Invariance, PTL

(* asn_lookup answers from a whole reply, with its first data line, and    *)
(* calls no reply with such a line malformed, whatever the service sends.  *)
THEOREM AnswersAreWhole == Spec => []AnswerIsWhole
<1>1. CallInv => AnswerIsWhole
  BY AsnRight DEF CallInv, AnswerIsWhole
<1> QED
  BY <1>1, Invariance, PTL

(* cve_lookup reports the CVEs whose bounds span the version and says that *)
(* there are none only after both searches, whatever NVD replies.          *)
THEOREM CvesAreRight == Spec => []CvesAffect
<1>1. CallInv => CvesAffect
  BY CveRight DEF CallInv, CvesAffect
<1> QED
  BY <1>1, Invariance, PTL

(* The verdicts of ssl_inspect, ip_reputation, hibp_check, whois_lookup    *)
(* and headers_analyzer, and the warnings made of them, follow the         *)
(* evidence: more of it never makes them milder.                           *)
THEOREM VerdictsFollow == Spec => []VerdictsFollowEvidence
<1>1. CallInv => VerdictsFollowEvidence
  BY SslRight, IpRight, HibpRight, WhoisRight, SecRight DEF CallInv, VerdictsFollowEvidence
<1> QED
  BY <1>1, Invariance, PTL

-----------------------------------------------------------------------------
(* Each tool's steps keep its types.                                       *)
LEMMA RobotsTyped ==
  ASSUME RobotsInv, Robots!TypeOK, Robots!Next \/ UNCHANGED <<pc, robots>>
  PROVE  Robots!TypeOK'
<1>1. RobotsInv'
  BY RobotsKept
<1>2. /\ seen' \in BOOLEAN /\ (file' = file \/ (Len(file) < RobotsLines /\ \E l : file' = Append(file, l)))
      /\ pc' \in {"called", "http", "lines"} \/ rule' = rule
  <2>1. CASE UNCHANGED <<pc, robots>>
    BY <2>1 DEF robots, Robots!TypeOK
  <2>2. CASE Robots!Reject \/ Robots!TryHttps \/ Robots!TryHttp \/ Robots!End
    BY <2>2 DEF Robots!TypeOK, Robots!Reject, Robots!TryHttps, Robots!TryHttp, Robots!End
  <2>3. ASSUME NEW l \in Robots!Lines,
               Robots!Ignore(l) \/ Robots!Agent(l) \/ Robots!Path(l) \/ Robots!Delay(l)
        PROVE  /\ seen' \in BOOLEAN /\ Len(file) < RobotsLines /\ file' = Append(file, l)
               /\ pc' \in {"called", "http", "lines"}
    BY <2>3 DEF Robots!TypeOK, Robots!Ignore, Robots!Agent, Robots!Path, Robots!Delay, Robots!Line
  <2> QED
    BY <2>1, <2>2, <2>3 DEF Robots!Next
<1>3. file' \in Seq(Robots!Lines) /\ Len(file') <= RobotsLines
  <2>1. RobotsLines \in Nat
    BY ToolAssumption DEF Robots!ParserAssumption
  <2> QED
    BY <1>1, <1>2, <2>1 DEF RobotsInv, Robots!TypeOK
<1>4. rule' \in RuleType
  BY <1>1, <1>2 DEF RobotsInv, Group, Robots!TypeOK, RuleType
<1>5. \A r \in Robots!Elements(rules') : r \in RuleType
  BY <1>1 DEF RobotsInv, Robots!Elements
<1>6. Robots!Elements(rules)' = Robots!Elements(rules')
  OBVIOUS
<1> QED
  BY <1>1, <1>2, <1>3, <1>4, <1>5, <1>6 DEF Robots!TypeOK, RobotsInv, RuleType

LEMMA TechTyped ==
  ASSUME TechInv, Tech!TypeOK, Tech!Next \/ UNCHANGED <<pc, tech>>
  PROVE  Tech!TypeOK'
<1>1. TechInv'
  BY TechKept
<1>2. Tech!Elements(body)' \subseteq Tech!Units
  BY <1>1 DEF TechInv, Tech!Elements
<1>3. open' \in BOOLEAN
  BY <1>1 DEF TechInv
<1>4. \A c \in DOMAIN Tables : \A d \in technologies'[c] : d.name \in DOMAIN Tables[c]
  <2>1. technologies' = technologies
        \/ \E i : technologies' = [c \in DOMAIN Tables |-> Tech!Detections(c, i)]
    BY DEF tech, Tech!Next, Tech!Reject, Tech!Accept, Tech!Fetched, Tech!NotFetched,
           Tech!ReadChunk, Tech!BodyEnds, Tech!BodyBreaks, Tech!Fingerprint, Tech!Extract
  <2>2. ASSUME NEW c \in DOMAIN Tables, NEW i, NEW d \in Tech!Detections(c, i)
        PROVE  d.name \in DOMAIN Tables[c]
    BY DEF Tech!Detections
  <2> QED
    BY <2>1, <2>2 DEF Tech!TypeOK
<1> QED
  BY <1>1, <1>2, <1>3, <1>4 DEF Tech!TypeOK, TechInv, Outcomes

LEMMA CloudTyped ==
  ASSUME CloudInv, Cloud!TypeOK, Cloud!Next \/ UNCHANGED <<pc, cloud>>
  PROVE  Cloud!TypeOK'
<1>1. CloudInv'
  BY CloudKept
<1>2. reply' \in [Cloud!AllTasks -> {"new", "queued", "running"} \cup Cloud!Replies]
  <2>1. CASE reply' = reply
    BY <2>1 DEF Cloud!TypeOK
  <2>2. CASE Cloud!Submit
    BY <2>2 DEF Cloud!Submit
  <2>3. ASSUME NEW t \in Cloud!AllTasks, Cloud!Take(t) \/ Cloud!Answer(t)
        PROVE  reply' \in [Cloud!AllTasks -> {"new", "queued", "running"} \cup Cloud!Replies]
    BY <2>3 DEF Cloud!TypeOK, Cloud!Take, Cloud!Answer
  <2> QED
    BY <2>1, <2>2, <2>3 DEF cloud, Cloud!Next, Cloud!Reject, Cloud!Return, Cloud!Collect
<1>3. findings' \subseteq Cloud!AllTasks \X Statuses
  BY <1>1, StatusOf DEF CloudInv
<1>4. ASSUME NEW s \in DOMAIN totals'
      PROVE  totals'[s] \in Nat
  <2>1. CASE totals' = totals
    BY <1>4, <2>1 DEF Cloud!TypeOK
  <2>2. CASE Cloud!Return
    <3>1. pc' = "done"
      BY <2>2 DEF Cloud!Return
    <3>2. /\ \E c \in Companies : buckets' = Cloud!Tasks(c)
          /\ \A f \in findings' : /\ f[1] \in buckets'
                                  /\ f = <<f[1], Cloud!Status(reply'[f[1]])>>
          /\ \A t \in buckets' : \E f \in findings' : f[1] = t
          /\ totals'["checked"] = Cardinality(buckets')
          /\ \A n \in {"PUBLIC", "EXISTS_PRIVATE", "NOT_FOUND"} :
               totals'[n] = Cardinality({f \in findings' : f[2] = n})
          /\ s \in {"checked", "PUBLIC", "EXISTS_PRIVATE", "NOT_FOUND"}
      BY <1>1, <1>4, <3>1 DEF CloudInv
    <3>3. IsFiniteSet(buckets')
      BY <3>2, TasksFinite
    <3>4. IsFiniteSet(findings')
      BY <3>2, <3>3, AsManyAsValues
    <3>5. \A n : {f \in findings' : f[2] = n} \in SUBSET findings'
      OBVIOUS
    <3>6. \A n : Cardinality({f \in findings' : f[2] = n}) \in Nat
      BY <3>4, <3>5, FS_Subset, FS_CardinalityType
    <3>7. Cardinality(buckets') \in Nat
      BY <3>3, FS_CardinalityType
    <3>8. CASE s = "checked"
      BY <3>2, <3>7, <3>8
    <3>9. CASE s \in {"PUBLIC", "EXISTS_PRIVATE", "NOT_FOUND"}
      <4>1. totals'[s] = Cardinality({f \in findings' : f[2] = s})
        BY <3>2, <3>9
      <4> QED
        BY <3>6, <4>1
    <3> QED
      BY <3>2, <3>8, <3>9
  <2> QED
    BY <2>1, <2>2 DEF cloud, Cloud!Next, Cloud!Reject, Cloud!Submit, Cloud!Take, Cloud!Answer,
                      Cloud!Collect
<1> QED
  BY <1>1, <1>2, <1>3, <1>4 DEF Cloud!TypeOK, CloudInv, Statuses

LEMMA AsnTyped ==
  ASSUME AsnInv, Asn!TypeOK, Asn!Next \/ UNCHANGED <<pc, whose>>
  PROVE  Asn!TypeOK'
<1>1. AsnInv'
  BY AsnKept
<1>2. CASE UNCHANGED <<pc, whose>>
  BY <1>2 DEF whose, Asn!TypeOK
<1>3. CASE Asn!NotConnected \/ Asn!Connect \/ Asn!GivesUp \/ Asn!EndOfReply \/ Asn!PeerStops
  BY <1>3 DEF Asn!TypeOK, Asn!NotConnected, Asn!Connect, Asn!GivesUp, Asn!EndOfReply,
              Asn!PeerStops
<1>4. ASSUME NEW l \in Asn!Lines, Asn!Recv(l) PROVE Asn!TypeOK'
  <2>1. AsnLines \in Nat
    BY ToolAssumption DEF Asn!AsnAssumption
  <2> QED
    BY <1>4, <2>1 DEF Asn!TypeOK, Asn!Recv
<1>5. CASE Asn!Parse
  <2>1. pc' \in {"failed", "done"} /\ peer' = peer /\ lines' = lines /\ asn' = Asn!Pick(lines)
    BY <1>5 DEF Asn!Parse
  <2>2. asn' = NoLine \/ asn' \in DataLines
    <3>1. lines \in Seq(Asn!Lines)
      BY DEF AsnInv
    <3> QED
      BY <2>1, <3>1, PickIsFirst
  <2> QED
    BY <2>1, <2>2 DEF Asn!TypeOK
<1> QED
  BY <1>2, <1>3, <1>4, <1>5 DEF Asn!Next, Asn!Caller, Asn!Service

LEMMA CveTyped ==
  ASSUME CveInv, Cve!TypeOK, Cve!Next \/ UNCHANGED <<pc, cve>>
  PROVE  Cve!TypeOK'
<1>1. CveInv'
  BY CveKept
<1>2. \A c \in cves' : c \subseteq Cve!Match
  <2>1. CASE cves' = cves
    BY <2>1 DEF Cve!TypeOK
  <2>2. ASSUME NEW reply_ \in CveReplies, cves' = Cve!Filtered(reply_)
        PROVE  \A c \in cves' : c \subseteq Cve!Match
    BY <2>2, ToolAssumption DEF Cve!Filtered, Cve!CveAssumption
  <2> QED
    BY <2>1, <2>2 DEF cve, Cve!Next, Cve!Reject, Cve!Accept, Cve!SearchFails, Cve!SearchNarrow,
                      Cve!SearchBroad
<1> QED
  BY <1>1, <1>2 DEF CveInv, Cve!TypeOK

LEMMA CertTyped ==
  ASSUME CertInv, Cert!TypeOK, Cert!Next \/ UNCHANGED <<pc, certs>>
  PROVE  Cert!TypeOK'
<1>1. CertInv'
  BY CertKept
<1>2. Len(log') <= LogLines
  <2>1. LogLines \in Nat /\ log \in Seq(Cert!Lines)
    BY ToolAssumption DEF Cert!CertAssumption, CertInv
  <2>2. log' = log \/ (Len(log) < LogLines /\ \E l : log' = Append(log, l))
    BY DEF certs, Cert!Next, Cert!Fails, Cert!Fetched, Cert!TakeSubdomain, Cert!TakeOther,
           Cert!BadEntry, Cert!Answer, Cert!Extract
  <2> QED
    BY <2>1, <2>2 DEF Cert!TypeOK
<1>3. subdomains' \cup wildcards' \subseteq Subdomains
  <2>1. \A n \in Cert!Names : n.kind \in {"subdomain", "wildcard"} => n.name \in Subdomains
    BY DEF Cert!Names
  <2> QED
    BY <2>1 DEF Cert!TypeOK, certs, Cert!Next, Cert!Fails, Cert!Fetched, Cert!TakeSubdomain,
                Cert!TakeOther, Cert!BadEntry, Cert!Answer, Cert!Extract
<1>4. warning' \in {"none", "expanded", "large"}
  BY DEF Cert!TypeOK, certs, Cert!Next, Cert!Fails, Cert!Fetched, Cert!TakeSubdomain,
         Cert!TakeOther, Cert!BadEntry, Cert!Answer, Cert!Extract
<1> QED
  BY <1>1, <1>2, <1>3, <1>4 DEF CertInv, Cert!TypeOK

LEMMA ScanTyped ==
  ASSUME ScanInv, Scan!TypeOK, Scan!Next \/ UNCHANGED <<pc, scan>>
  PROVE  Scan!TypeOK'
<1>1. ScanInv'
  BY ScanKept
<1>2. since' \in [Hosts -> 0..HostTimeout] /\ host' \in [Hosts -> States]
  <2>1. /\ since' \in [Hosts -> Nat] /\ host' \in [Hosts -> States]
        /\ \A h \in Hosts : since'[h] <= HostTimeout
    BY <1>1 DEF ScanInv
  <2>2. \A h \in Hosts : since'[h] \in 0..HostTimeout
    BY <2>1, ScanNumbers
  <2> QED
    BY <2>1, <2>2
<1>3. override' \subseteq Overrides /\ limit' \in Nat /\ clock' \in 0..limit'
  <2>1. Overrides \subseteq Nat \ {0} /\ Scan!DefaultTimeout \in Nat
    BY ToolAssumption, ScanNumbers DEF Scan!ScanAssumption, Scan!DefaultTimeout
  <2>2. CASE UNCHANGED <<override, limit, clock>>
    BY <2>2 DEF Scan!TypeOK
  <2>3. CASE Scan!Start
    <3>1. override' = {} \/ \E t \in Overrides : override' = {t}
      BY <2>3 DEF Scan!Start
    <3>2. limit' \in Nat
      BY <2>1, <2>3, <3>1 DEF Scan!Start
    <3>3. clock' = 0
      BY <2>3 DEF Scan!Start, ScanInv
    <3> QED
      BY <3>1, <3>2, <3>3
  <2>4. CASE Scan!Tick
    <3>1. clock < limit /\ clock' = clock + 1 /\ limit' = limit /\ override' = override
      BY <2>4 DEF Scan!Tick
    <3>2. limit \in Nat /\ clock \in 0..limit /\ override \subseteq Overrides
      BY DEF Scan!TypeOK
    <3> QED
      BY <3>1, <3>2
  <2> QED
    BY <2>2, <2>3, <2>4 DEF scan, Scan!Next, Scan!Reject, Scan!Kill, Scan!Report, Scan!Extract,
                            Scan!TakeUp, Scan!HostEnds
<1>4. DOMAIN found' \subseteq Hosts /\ timedout' \subseteq SUBSET Hosts
  <2>1. CASE pc' \in {"signals", "done"}
    <3>1. Reported'
      BY <1>1, <2>1 DEF ScanInv
    <3> QED
      BY <3>1, Zenon DEF Reported
  <2>2. CASE pc' \notin {"signals", "done"}
    BY <2>2 DEF Scan!TypeOK, scan, Scan!Next, Scan!Reject, Scan!Start, Scan!Tick, Scan!Kill,
                Scan!Report, Scan!Extract, Scan!TakeUp, Scan!HostEnds
  <2> QED
    BY <2>1, <2>2
<1>5. dangers' \subseteq openPorts' /\ openPorts' \subseteq Ports
  <2>1. CASE Scan!Extract
    <3>1. /\ dangers' = Dangerous \cap openPorts'
          /\ openPorts' = UNION {{p \in DOMAIN found[h] : found[h][p] = "open"} : h \in DOMAIN found}
          /\ Reported
      BY <2>1 DEF Scan!Extract, ScanInv
    <3>2. \A h \in DOMAIN found : DOMAIN found[h] \subseteq Ports
      BY <3>1 DEF Reported
    <3> QED
      BY <3>1, <3>2
  <2>2. CASE openPorts' = openPorts /\ dangers' = dangers
    BY <2>2 DEF Scan!TypeOK
  <2> QED
    BY <2>1, <2>2 DEF scan, Scan!Next, Scan!Reject, Scan!Start, Scan!Tick, Scan!Kill,
                      Scan!Report, Scan!TakeUp, Scan!HostEnds
<1> QED
  BY <1>1, <1>2, <1>3, <1>4, <1>5 DEF ScanInv, Scan!TypeOK, States

LEMMA SslTyped ==
  ASSUME SslInv, Ssl!TypeOK, Ssl!Next \/ UNCHANGED <<pc, ssl>>
  PROVE  Ssl!TypeOK'
<1>1. SslInv'
  BY SslKept
<1>2. delay' \in JudgeDelays \cup {0}
  BY DEF Ssl!TypeOK, ssl, Ssl!Next, Ssl!Fails, Ssl!Verified, Ssl!Judge, Ssl!Extract
<1>3. expiryWarning' \in {"none", "expired", "critical", "high"}
  BY DEF Ssl!TypeOK, ssl, Ssl!Next, Ssl!Fails, Ssl!Verified, Ssl!Judge, Ssl!Extract
<1> QED
  BY <1>1, <1>2, <1>3 DEF SslInv, Ssl!TypeOK

LEMMA IpTyped ==
  ASSUME IpInv, Ip!TypeOK, Ip!Next \/ UNCHANGED <<pc, abuse>>
  PROVE  Ip!TypeOK'
<1>1. IpInv'
  BY IpKept
<1>2. Scores \subseteq Nat
  BY ToolAssumption DEF Ip!IpAssumption
<1>3. reputation' \in {"none", "trusted", "clean", "low-risk", "suspicious", "high-risk"}
  <2>1. ASSUME NEW e \in Ip!Evidence, e.whitelisted \/ e.score # Null
        PROVE  Ip!Class(e) \in {"trusted", "clean", "low-risk", "suspicious", "high-risk"}
    BY <2>1 DEF Ip!Class
  <2> QED
    BY <2>1 DEF Ip!TypeOK, abuse, Ip!Next, Ip!Fails, Ip!Classify, Ip!Extract
<1>4. CASE pc' # "done"
  <2>1. flagged' = FALSE /\ abuseScore' = 0 /\ ipWarning' = "none"
    <3>1. ~flagged' /\ abuseScore' = 0 /\ ipWarning' = "none"
      BY <1>1, <1>4 DEF IpInv
    <3>2. flagged' \in BOOLEAN
      BY <1>4 DEF Ip!TypeOK, abuse, Ip!Next, Ip!Fails, Ip!Classify, Ip!Extract
    <3> QED
      BY <3>1, <3>2
  <2> QED
    BY <1>1, <1>3, <2>1 DEF IpInv, Ip!TypeOK
<1>5. CASE pc' = "done"
  <2>1. flagged' = (reputation' \in {"high-risk", "suspicious"})
    BY <1>1, <1>5 DEF IpInv
  <2>2. PICK e \in evidence' : abuseScore' = IF e.score = Null THEN 0 ELSE e.score
    BY <1>1, <1>5 DEF IpInv
  <2>3. evidence' \subseteq Ip!Evidence
    BY <1>1 DEF IpInv
  <2>4. e.score \in Scores \cup {Null}
    BY <2>2, <2>3 DEF Ip!Evidence
  <2>5. abuseScore' \in Nat
    BY <1>2, <2>2, <2>4
  <2>6. ipWarning' \in {"none", "malicious", "elevated"}
    BY <1>1, <1>5 DEF IpInv
  <2> QED
    BY <1>1, <1>3, <1>5, <2>1, <2>3, <2>5, <2>6 DEF Ip!TypeOK
<1> QED
  BY <1>4, <1>5

LEMMA HibpTyped ==
  ASSUME HibpInv, Hibp!TypeOK, Hibp!Next \/ UNCHANGED <<pc, hibp>>
  PROVE  Hibp!TypeOK'
<1>1. HibpInv'
  BY HibpKept
<1>2. query' \in {"none", "email", "domain"}
  BY DEF Hibp!TypeOK, hibp, Hibp!Next, Hibp!Reject, Hibp!Accept, Hibp!AskDomain, Hibp!AskEmail,
         Hibp!AskPastes
<1>3. ASSUME NEW t \in Nat, NEW n \in Nat, NEW e \in Hibp!Result(t, n)
      PROVE  e.total \in Nat /\ e.pastes \in Nat
  BY DEF Hibp!Result
<1>4. \A e \in exposure' : e.total \in Nat /\ e.pastes \in Nat
  <2>1. CASE exposure' = exposure
    BY <2>1 DEF Hibp!TypeOK
  <2>2. CASE pc' = "done"
    <3>1. ASSUME NEW e \in exposure' PROVE e.total \in Nat /\ e.pastes \in Nat
      <4>1. PICK b \in breachReply' : \E n \in Nat : e \in Hibp!Result(b[2], n)
        BY <1>1, <2>2 DEF HibpInv
      <4>2. b[2] \in Nat
        BY <1>1, <4>1, ReplyKnown DEF HibpInv
      <4> QED
        BY <1>3, <4>1, <4>2
    <3> QED
      BY <3>1
  <2> QED
    BY <2>1, <2>2 DEF hibp, Hibp!Next, Hibp!Reject, Hibp!Accept, Hibp!AskDomain, Hibp!AskEmail,
                      Hibp!AskPastes
<1> QED
  BY <1>1, <1>2, <1>4 DEF HibpInv, Hibp!TypeOK

LEMMA WhoisTyped ==
  ASSUME WhoisInv, Whois!TypeOK, Whois!Next \/ UNCHANGED <<pc, whois>>
  PROVE  Whois!TypeOK'
<1>1. WhoisInv'
  BY WhoisKept
<1>2. \A i \in DOMAIN expiration' : expiration'[i] \in Dates \cup {Unparsable}
  BY <1>1 DEF WhoisInv
<1>3. expiryDays' \subseteq Int
  <2>1. CASE Whois!Extract
    <3>1. /\ expiryDays' = {d \div 2 : d \in Whois!Parsed(expiration)}
          /\ expiration \in Seq(Dates \cup {Unparsable})
      BY <2>1 DEF Whois!Extract, WhoisInv
    <3>2. ASSUME NEW d \in Whois!Parsed(expiration) PROVE d \div 2 \in Int
      <4>1. PICK i \in DOMAIN expiration : d = expiration[i] /\ d # Unparsable
        BY DEF Whois!Parsed
      <4>2. DOMAIN expiration = 1..Len(expiration) /\ Len(expiration) \in Nat
        BY <3>1
      <4>3. d \in Dates \cup {Unparsable}
        BY <3>1, <4>1, <4>2
      <4>4. Dates \subseteq Int
        BY ToolAssumption DEF Whois!WhoisAssumption
      <4>5. d \in Int
        BY <4>1, <4>3, <4>4
      <4> QED
        BY <4>5
    <3> QED
      BY <3>1, <3>2
  <2>2. CASE expiryDays' = expiryDays
    BY <2>2 DEF Whois!TypeOK
  <2> QED
    BY <2>1, <2>2 DEF whois, Whois!Next, Whois!Fails, Whois!Answered
<1>4. domainWarning' \in {"none", "expired", "critical", "high"}
  <2>1. CASE pc' = "done"
    BY <1>1, <2>1 DEF WhoisInv
  <2>2. CASE domainWarning' = domainWarning
    BY <2>2 DEF Whois!TypeOK
  <2> QED
    BY <2>1, <2>2 DEF whois, Whois!Next, Whois!Fails, Whois!Answered, Whois!Extract
<1> QED
  BY <1>1, <1>2, <1>3, <1>4 DEF WhoisInv, Whois!TypeOK

LEMMA SecTyped ==
  ASSUME SecInv, Sec!TypeOK, Sec!Next \/ UNCHANGED <<pc, security>>
  PROVE  Sec!TypeOK'
<1>1. SecInv'
  BY SecKept
<1>2. \A a \in analysis' : \A n \in Sec!Names : a[n].severity \in DOMAIN Sec!Severities
  <2>1. ASSUME NEW r, NEW n \in Sec!Names
        PROVE  SecAnalysis(r)[n].severity \in {"low", "medium", "high"}
    <3>1. Sec!Hsts(r.hsts).severity \in {"low", "medium", "high"}
      BY DEF Sec!Hsts, Sec!NotThere, Sec!Judged, Sec!AtLeastMedium, Sec!AgeSeverity
    <3>2. Sec!Csp(r.csp).severity \in {"low", "medium", "high"}
      BY DEF Sec!Csp, Sec!NotThere, Sec!Judged, Sec!AtLeastMedium
    <3>3. /\ Sec!Frame(r.xfo).severity \in {"low", "medium", "high"}
          /\ Sec!ContentType(r.xcto).severity \in {"low", "medium", "high"}
      BY DEF Sec!Frame, Sec!ContentType, Sec!NotThere, Sec!Judged
    <3>4. /\ Sec!Referrer(r.rp).severity \in {"low", "medium", "high"}
          /\ Sec!Permissions(r.pp).severity \in {"low", "medium", "high"}
      BY DEF Sec!Referrer, Sec!Permissions, Sec!NotThere, Sec!Judged
    <3> QED
      BY <3>1, <3>2, <3>3, <3>4 DEF SecAnalysis, Sec!Names
  <2>2. DOMAIN Sec!Severities = {"low", "medium", "high"}
    BY DEF Sec!Severities
  <2>3. analysis' = analysis \/ \E r : analysis' = {SecAnalysis(r)}
    BY DEF security, Sec!Next, Sec!Fails, Sec!Analyze, Sec!Extract, SecAnalysis
  <2> QED
    BY <2>1, <2>2, <2>3 DEF Sec!TypeOK
<1>3. missing' \subseteq Sec!Names /\ headerWarning' \in {"none", "some", "gap"}
  BY DEF Sec!TypeOK, security, Sec!Next, Sec!Fails, Sec!Analyze, Sec!Extract
<1> QED
  BY <1>1, <1>2, <1>3 DEF SecInv, Sec!TypeOK

LEMMA InitTyped == Init => TypeOK
<1> SUFFICES ASSUME Init PROVE TypeOK
  OBVIOUS
<1>1. CallInv
  BY InitHolds
<1>2. Robots!TypeOK
  <2>0. Robots!Init
    BY DEF Init
  <2>1. RobotsInv /\ file = <<>> /\ rules = <<>> /\ seen = FALSE /\ pc = "called"
    BY <2>0, RobotsStart DEF Robots!Init
  <2>2. RobotsLines \in Nat /\ Len(<<>>) = 0
    BY ToolAssumption DEF Robots!ParserAssumption
  <2>3. Robots!Elements(<<>>) = {} /\ rule \in RuleType
    BY <2>1 DEF Robots!Elements, RobotsInv, Group
  <2>4. \A r \in Robots!Elements(rules) \cup {rule} : r \in RuleType
    BY <2>1, <2>3
  <2>5. file \in Seq(Robots!Lines) /\ Len(file) <= RobotsLines
    BY <2>1, <2>2 DEF RobotsInv
  <2> QED
    BY <2>1, <2>4, <2>5 DEF Robots!TypeOK, RuleType
<1>3. Tech!TypeOK
  <2>1. Tech!Init
    BY DEF Init
  <2>2. /\ pc = "called" /\ outcome = [s \in Tech!Schemes |-> "untried"]
        /\ open = FALSE /\ body = <<>>
        /\ technologies = [c \in DOMAIN Tables |-> {}]
    BY <2>1 DEF Tech!Init
  <2>3. Tech!Elements(body) = {}
    BY <2>2 DEF Tech!Elements
  <2> QED
    BY <2>2, <2>3 DEF Tech!TypeOK
<1>4. Cloud!TypeOK
  BY DEF Init, Cloud!Init, Cloud!TypeOK
<1>5. Asn!TypeOK
  BY ToolAssumption DEF Init, Asn!Init, Asn!TypeOK, Asn!AsnAssumption
<1>6. Cve!TypeOK
  BY DEF Init, Cve!Init, Cve!TypeOK
<1>7. Cert!TypeOK
  BY ToolAssumption DEF Init, Cert!Init, Cert!TypeOK, Cert!CertAssumption
<1>8. Scan!TypeOK
  <2>1. HostTimeout \in Nat
    BY ScanNumbers
  <2> QED
    BY <2>1 DEF Init, Scan!Init, Scan!TypeOK
<1>9. Ssl!TypeOK /\ Ip!TypeOK /\ Hibp!TypeOK
  BY DEF Init, Ssl!Init, Ssl!TypeOK, Ip!Init, Ip!TypeOK, Hibp!Init, Hibp!TypeOK
<1>10. Whois!TypeOK /\ Sec!TypeOK
  BY DEF Init, Whois!Init, Whois!TypeOK, Sec!Init, Sec!TypeOK
<1> QED
  BY <1>2, <1>3, <1>4, <1>5, <1>6, <1>7, <1>8, <1>9, <1>10 DEF Init, TypeOK

LEMMA StepTyped == CallInv /\ TypeOK /\ [Next]_vars => TypeOK'
<1> SUFFICES ASSUME CallInv, TypeOK, [Next]_vars PROVE TypeOK'
  OBVIOUS
<1>1. tool' = tool /\ tool' \in Tools
  BY StepsAreOwn DEF TypeOK
<1>2. tool = "robots_txt_inspect" => Robots!TypeOK'
  BY StepsAreOwn, RobotsTyped DEF CallInv, TypeOK
<1>3. tool = "tech_stack_detect" => Tech!TypeOK'
  BY StepsAreOwn, TechTyped DEF CallInv, TypeOK
<1>4. tool = "cloud_exposure_check" => Cloud!TypeOK'
  BY StepsAreOwn, CloudTyped DEF CallInv, TypeOK
<1>5. tool = "asn_lookup" => Asn!TypeOK'
  BY StepsAreOwn, AsnTyped DEF CallInv, TypeOK
<1>6. tool = "cve_lookup" => Cve!TypeOK'
  BY StepsAreOwn, CveTyped DEF CallInv, TypeOK
<1>7. tool = "cert_transparency" => Cert!TypeOK'
  BY StepsAreOwn, CertTyped DEF CallInv, TypeOK
<1>8. tool = "port_scan" => Scan!TypeOK'
  BY StepsAreOwn, ScanTyped DEF CallInv, TypeOK
<1>9. tool = "ssl_inspect" => Ssl!TypeOK'
  BY StepsAreOwn, SslTyped DEF CallInv, TypeOK
<1>10. tool = "ip_reputation" => Ip!TypeOK'
  BY StepsAreOwn, IpTyped DEF CallInv, TypeOK
<1>11. tool = "hibp_check" => Hibp!TypeOK'
  BY StepsAreOwn, HibpTyped DEF CallInv, TypeOK
<1>12. tool = "whois_lookup" => Whois!TypeOK'
  BY StepsAreOwn, WhoisTyped DEF CallInv, TypeOK
<1>13. tool = "headers_analyzer" => Sec!TypeOK'
  BY StepsAreOwn, SecTyped DEF CallInv, TypeOK
<1> QED
  BY <1>1, <1>2, <1>3, <1>4, <1>5, <1>6, <1>7, <1>8, <1>9, <1>10, <1>11, <1>12, <1>13
  DEF TypeOK

(* The variables of the tool that was named are of their types in every    *)
(* state of its call, whatever the services reply.                         *)
THEOREM TypeCorrect == Spec => []TypeOK
<1>1. Spec => []CallInv
  BY Invariance
<1> QED
  BY <1>1, InitTyped, StepTyped, PTL DEF Spec

-----------------------------------------------------------------------------
(* How far the caller still is from its end.                               *)
Rank == CASE pc = "called" -> 6
          [] pc \in {"https", "narrow", "email", "domain"} -> 5
          [] pc \in {"http", "broad", "pastes"} -> 4
          [] pc \in {"body", "lines", "reading", "collect", "scan"} -> 3
          [] pc \in {"fingerprint", "parse", "judge"} -> 2
          [] pc = "signals" -> 1
          [] OTHER -> 0

(* The stages that the elements of S have yet to reach.                    *)
Todo(S, n, stage) == {m \in S \X (1..n) : stage[m[1]] < m[2]}

HostStage == [h \in Hosts |-> CASE host[h] = "waiting" -> 0
                                [] host[h] = "running" -> 1
                                [] OTHER -> 2]

BucketStage == [t \in buckets |-> CASE reply[t] \in {"new", "queued"} -> 0
                                    [] reply[t] = "running" -> 1
                                    [] OTHER -> IF t \in Cloud!Found THEN 3 ELSE 2]

(* What is left of the loop a tool is in: lines, units of the body,        *)
(* requests, or nmap's time and hosts.                                     *)
Work == CASE tool = "robots_txt_inspect"   -> RobotsLines - Len(file)
          [] tool = "cert_transparency"    -> LogLines - Len(log)
          [] tool = "tech_stack_detect"    -> MaxBody - Len(body)
          [] tool = "cloud_exposure_check" -> Cardinality(Todo(buckets, 3, BucketStage))
          [] tool = "port_scan" -> (limit - clock) + Cardinality(Todo(Hosts, 2, HostStage))
          [] OTHER -> 0

Closer == Rank' < Rank \/ (Rank' = Rank /\ Work' < Work)

(* Each step of the tool brings it nearer to its end; a step of the whois  *)
(* service does not bring it further away.                                 *)
StepsRunOut == [][Closer \/ (AsnService /\ UNCHANGED <<Rank, Work>>)]_vars

LEMMA TodoCounted ==
  ASSUME NEW S, IsFiniteSet(S), NEW n \in Nat \ {0}, NEW f \in [S -> 0..n]
  PROVE  IsFiniteSet(Todo(S, n, f)) /\ Cardinality(Todo(S, n, f)) \in Nat
<1>1. \A k \in Nat \ {0} : IsFiniteSet(1..k)
  BY FS_Interval
<1>2. IsFiniteSet(S \X (1..n))
  BY <1>1, FS_Product
<1> QED
  BY <1>2, FS_Subset, FS_CardinalityType DEF Todo

LEMMA StageReached ==
  ASSUME NEW S, IsFiniteSet(S), NEW n \in Nat \ {0}, NEW f \in [S -> 0..n], NEW g \in [S -> 0..n],
         NEW t \in S, f[t] < g[t], \A u \in S : u # t => g[u] = f[u]
  PROVE  Cardinality(Todo(S, n, g)) < Cardinality(Todo(S, n, f))
<1>1. Todo(S, n, g) \subseteq Todo(S, n, f)
  BY DEF Todo
<1>2. <<t, g[t]>> \in Todo(S, n, f) /\ <<t, g[t]>> \notin Todo(S, n, g)
  BY DEF Todo
<1>3. /\ IsFiniteSet(Todo(S, n, f)) /\ Cardinality(Todo(S, n, f)) \in Nat
      /\ Cardinality(Todo(S, n, g)) \in Nat
  BY TodoCounted
<1>4. /\ Cardinality(Todo(S, n, g)) <= Cardinality(Todo(S, n, f))
      /\ Cardinality(Todo(S, n, g)) # Cardinality(Todo(S, n, f))
  BY <1>1, <1>2, <1>3, FS_Subset
<1> QED
  BY <1>3, <1>4

(* Tools without a loop.                                                   *)
LEMMA StraightRuns ==
  ASSUME \/ Cve!Next \/ Ssl!Next \/ Ip!Next \/ Hibp!Next \/ Whois!Next \/ Sec!Next
         \/ Asn!Caller
  PROVE  Rank' < Rank
<1>1. CASE Cve!Next
  BY <1>1 DEF Rank, Cve!Next, Cve!Reject, Cve!Accept, Cve!SearchFails, Cve!SearchNarrow,
              Cve!SearchBroad
<1>2. CASE Ssl!Next
  BY <1>2 DEF Rank, Ssl!Next, Ssl!Fails, Ssl!Verified, Ssl!Judge, Ssl!Extract
<1>3. CASE Ip!Next
  BY <1>3 DEF Rank, Ip!Next, Ip!Fails, Ip!Classify, Ip!Extract
<1>4. CASE Hibp!Next
  BY <1>4 DEF Rank, Hibp!Next, Hibp!Reject, Hibp!Accept, Hibp!AskDomain, Hibp!AskEmail,
              Hibp!AskPastes
<1>5. CASE Whois!Next
  BY <1>5 DEF Rank, Whois!Next, Whois!Fails, Whois!Answered, Whois!Extract
<1>6. CASE Sec!Next
  BY <1>6 DEF Rank, Sec!Next, Sec!Fails, Sec!Analyze, Sec!Extract
<1>7. CASE Asn!Caller
  BY <1>7 DEF Rank, Asn!Caller, Asn!NotConnected, Asn!Connect, Asn!GivesUp, Asn!EndOfReply,
              Asn!Parse
<1> QED
  BY <1>1, <1>2, <1>3, <1>4, <1>5, <1>6, <1>7

LEMMA RobotsRuns ==
  ASSUME Robots!TypeOK, Robots!Next
  PROVE  \/ Rank' < Rank
         \/ Rank' = Rank /\ RobotsLines - Len(file') < RobotsLines - Len(file)
<1>1. CASE Robots!Reject \/ Robots!TryHttps \/ Robots!TryHttp \/ Robots!End
  BY <1>1 DEF Rank, Robots!Reject, Robots!TryHttps, Robots!TryHttp, Robots!End
<1>2. ASSUME NEW l \in Robots!Lines, Robots!Line(l)
      PROVE  Rank' = Rank /\ RobotsLines - Len(file') < RobotsLines - Len(file)
  <2>1. RobotsLines \in Nat
    BY ToolAssumption DEF Robots!ParserAssumption
  <2>2. Len(file) \in Nat /\ Len(file') = Len(file) + 1 /\ pc' = pc
    BY <1>2 DEF Robots!TypeOK, Robots!Line
  <2> QED
    BY <2>1, <2>2 DEF Rank
<1> QED
  BY <1>1, <1>2 DEF Robots!Next, Robots!Ignore, Robots!Agent, Robots!Path, Robots!Delay

LEMMA CertRuns ==
  ASSUME Cert!TypeOK, Cert!Next
  PROVE  \/ Rank' < Rank
         \/ Rank' = Rank /\ LogLines - Len(log') < LogLines - Len(log)
<1>1. CASE Cert!Fails \/ Cert!Fetched \/ Cert!BadEntry \/ Cert!Answer \/ Cert!Extract
  BY <1>1 DEF Rank, Cert!Fails, Cert!Fetched, Cert!BadEntry, Cert!Answer, Cert!Extract
<1>2. ASSUME NEW n, NEW i, pc' = pc, log' = Append(log, <<n, i>>)
      PROVE  Rank' = Rank /\ LogLines - Len(log') < LogLines - Len(log)
  <2>1. LogLines \in Nat
    BY ToolAssumption DEF Cert!CertAssumption
  <2>2. Len(log) \in Nat /\ Len(log') = Len(log) + 1
    BY <1>2 DEF Cert!TypeOK
  <2> QED
    BY <1>2, <2>1, <2>2 DEF Rank
<1> QED
  BY <1>1, <1>2 DEF Cert!Next, Cert!TakeSubdomain, Cert!TakeOther

LEMMA TechRuns ==
  ASSUME TechInv, Tech!Next, ~UNCHANGED <<pc, tech>>
  PROVE  \/ Rank' < Rank
         \/ Rank' = Rank /\ MaxBody - Len(body') < MaxBody - Len(body)
<1>1. CASE Tech!Reject \/ Tech!Accept \/ Tech!BodyEnds \/ Tech!BodyBreaks \/ Tech!Fingerprint
           \/ Tech!Extract
  BY <1>1 DEF Rank, Tech!Reject, Tech!Accept, Tech!BodyEnds, Tech!BodyBreaks,
              Tech!Fingerprint, Tech!Extract
<1>2. ASSUME NEW s \in Tech!Schemes, Tech!Fetched(s) PROVE Rank' < Rank
  BY <1>2 DEF Rank, Tech!Schemes, Tech!Fetched
<1>3. ASSUME NEW s \in Tech!Schemes, NEW why, Tech!NotFetched(s, why) PROVE Rank' < Rank
  BY <1>3 DEF Rank, Tech!Schemes, Tech!NotFetched
<1>4. ASSUME NEW chunk \in Tech!Chunks, Tech!ReadChunk(chunk)
      PROVE  \/ Rank' < Rank
             \/ Rank' = Rank /\ MaxBody - Len(body') < MaxBody - Len(body)
  <2>1. chunk \in Seq(Tech!Units) /\ MaxBody \in Nat
    BY ToolAssumption DEF Tech!Chunks, Tech!TechAssumption
  <2>2. arrived \in Seq(Tech!Units) /\ body \in Seq(Tech!Units)
    BY DEF TechInv
  <2>3. CASE pc' = "fingerprint"
    BY <1>4, <2>3 DEF Tech!ReadChunk, Rank
  <2>4. CASE pc' # "fingerprint"
    <3>1. body' = body \o chunk /\ arrived' = arrived \o chunk /\ UNCHANGED <<open, pc>>
      BY <1>4, <2>4 DEF Tech!ReadChunk
    <3>2. chunk # <<>>
      <4>1. SUFFICES ASSUME chunk = <<>> PROVE FALSE
        OBVIOUS
      <4>2. body' = body /\ arrived' = arrived
        BY <2>2, <3>1, <4>1
      <4> QED
        BY <1>4, <3>1, <4>2 DEF Tech!ReadChunk, tech
    <3>3. Len(body') = Len(body) + Len(chunk) /\ Len(chunk) \in Nat /\ Len(body) \in Nat
      BY <2>1, <2>2, <3>1
    <3>4. Len(chunk) > 0
      BY <2>1, <3>2, <3>3
    <3> QED
      BY <2>1, <3>1, <3>3, <3>4 DEF Rank
  <2> QED
    BY <2>3, <2>4
<1> QED
  BY <1>1, <1>2, <1>3, <1>4 DEF Tech!Next

LEMMA CloudCounted ==
  CloudInv => IsFiniteSet(buckets) /\ BucketStage \in [buckets -> 0..3]
<1>1. CloudInv => IsFiniteSet(buckets)
  BY TasksFinite, FS_EmptySet DEF CloudInv
<1>2. BucketStage \in [buckets -> 0..3]
  BY DEF BucketStage
<1> QED
  BY <1>1, <1>2

LEMMA CloudRuns ==
  ASSUME CloudInv, CloudInv', Cloud!Next
  PROVE  \/ Rank' < Rank
         \/ /\ Rank' = Rank
            /\ Cardinality(Todo(buckets, 3, BucketStage))'
                 < Cardinality(Todo(buckets, 3, BucketStage))
<1>1. CASE Cloud!Reject \/ Cloud!Submit \/ Cloud!Return
  BY <1>1 DEF Rank, Cloud!Reject, Cloud!Submit, Cloud!Return
<1>2. ASSUME buckets' = buckets, pc' = pc, NEW t \in buckets, BucketStage[t] < BucketStage'[t],
             \A u \in buckets : u # t => BucketStage'[u] = BucketStage[u]
      PROVE  /\ Rank' = Rank
             /\ Cardinality(Todo(buckets, 3, BucketStage))'
                  < Cardinality(Todo(buckets, 3, BucketStage))
  <2>1. IsFiniteSet(buckets) /\ BucketStage \in [buckets -> 0..3]
    BY CloudCounted
  <2>2. BucketStage' \in [buckets -> 0..3]
    BY <1>2 DEF BucketStage
  <2> HIDE DEF BucketStage
  <2>3. Cardinality(Todo(buckets, 3, BucketStage')) < Cardinality(Todo(buckets, 3, BucketStage))
    BY <1>2, <2>1, <2>2, StageReached
  <2>4. Todo(buckets, 3, BucketStage)' = Todo(buckets, 3, BucketStage')
    BY <1>2 DEF Todo
  <2> QED
    BY <1>2, <2>3, <2>4 DEF Rank
<1>3. ASSUME NEW t \in Cloud!AllTasks, Cloud!Take(t) \/ Cloud!Answer(t)
      PROVE  \/ Rank' < Rank
             \/ /\ Rank' = Rank
                /\ Cardinality(Todo(buckets, 3, BucketStage))'
                     < Cardinality(Todo(buckets, 3, BucketStage))
  <2>1. /\ pc' = pc /\ buckets' = buckets /\ findings' = findings /\ Cloud!Found' = Cloud!Found
        /\ \/ reply[t] = "queued" /\ reply' = [reply EXCEPT ![t] = "running"]
           \/ /\ reply[t] = "running"
              /\ \E r \in Cloud!Replies : reply' = [reply EXCEPT ![t] = r]
    BY <1>3 DEF Cloud!Take, Cloud!Answer, Cloud!Found
  <2>2. t \in buckets /\ reply = [u \in Cloud!AllTasks |-> reply[u]]
    BY <1>3, <2>1 DEF CloudInv
  <2>3. BucketStage[t] < BucketStage'[t]
    BY <2>1, <2>2 DEF BucketStage, Cloud!Replies
  <2>4. \A u \in buckets : u # t => BucketStage'[u] = BucketStage[u]
    BY <2>1, <2>2 DEF BucketStage, CloudInv
  <2> QED
    BY <1>2, <2>1, <2>2, <2>3, <2>4
<1>4. ASSUME NEW t \in Cloud!AllTasks, Cloud!Collect(t)
      PROVE  \/ Rank' < Rank
             \/ /\ Rank' = Rank
                /\ Cardinality(Todo(buckets, 3, BucketStage))'
                     < Cardinality(Todo(buckets, 3, BucketStage))
  <2>1. /\ pc' = pc /\ buckets' = buckets /\ reply' = reply
        /\ reply[t] \in Cloud!Replies /\ t \notin Cloud!Found
        /\ Cloud!Found' = Cloud!Found \cup {t}
    <3>1. /\ pc' = pc /\ buckets' = buckets /\ reply' = reply
          /\ reply[t] \in Cloud!Replies /\ t \notin Cloud!Found
          /\ findings' = findings \cup {<<t, Cloud!Status(reply[t])>>}
      BY <1>4 DEF Cloud!Collect
    <3>2. \A x : x \in Cloud!Found' <=> \E f \in findings' : x = f[1]
      BY DEF Cloud!Found
    <3>3. \A x : x \in Cloud!Found <=> \E f \in findings : x = f[1]
      BY DEF Cloud!Found
    <3>4. ASSUME NEW f PROVE f \in findings' <=> f \in findings \/ f = <<t, Cloud!Status(reply[t])>>
      BY <3>1
    <3>5. <<t, Cloud!Status(reply[t])>>[1] = t
      OBVIOUS
    <3>6. ASSUME NEW x PROVE x \in Cloud!Found' <=> x \in Cloud!Found \/ x = t
      BY <3>2, <3>3, <3>4, <3>5
    <3> QED
      BY <3>1, <3>6
  <2>2. t \in buckets
    BY <1>4, <2>1 DEF CloudInv, Cloud!Replies
  <2>3. BucketStage[t] < BucketStage'[t]
    BY <2>1, <2>2 DEF BucketStage, Cloud!Replies
  <2>4. \A u \in buckets : u # t => BucketStage'[u] = BucketStage[u]
    BY <2>1, <2>2 DEF BucketStage
  <2> QED
    BY <1>2, <2>1, <2>2, <2>3, <2>4
<1> QED
  BY <1>1, <1>3, <1>4 DEF Cloud!Next

LEMMA ScanRuns ==
  ASSUME ScanInv, Scan!TypeOK, Scan!Next
  PROVE  \/ Rank' < Rank
         \/ /\ Rank' = Rank
            /\ ((limit - clock) + Cardinality(Todo(Hosts, 2, HostStage)))'
                 < (limit - clock) + Cardinality(Todo(Hosts, 2, HostStage))
<1>1. CASE Scan!Reject \/ Scan!Start \/ Scan!Kill \/ Scan!Report \/ Scan!Extract
  <2>1. \/ pc = "called" /\ pc' \in {"failed", "scan"}
        \/ pc = "scan" /\ pc' \in {"timed out", "signals"}
        \/ pc = "signals" /\ pc' = "done"
    BY <1>1 DEF Scan!Reject, Scan!Start, Scan!Kill, Scan!Report, Scan!Extract
  <2>2. \/ pc = "called" /\ pc' \in {"failed", "scan"}
        \/ /\ pc = "scan"
           /\ pc' \notin {"called", "https", "narrow", "email", "domain", "http", "broad", "pastes",
                          "body", "lines", "reading", "collect", "scan"}
        \/ pc = "signals" /\ pc' = "done"
    BY <2>1, Zenon
  <2>3. Rank' < Rank
    BY <2>2 DEF Rank
  <2> QED
    BY <2>3
<1>2. limit \in Nat /\ clock \in Nat /\ host \in [Hosts -> States]
  BY DEF Scan!TypeOK, ScanInv
<1>3. HostStage \in [Hosts -> 0..2] /\ HostStage' \in [Hosts -> 0..2]
  BY DEF HostStage
<1>4. /\ Cardinality(Todo(Hosts, 2, HostStage)) \in Nat
      /\ Cardinality(Todo(Hosts, 2, HostStage')) \in Nat
      /\ Todo(Hosts, 2, HostStage)' = Todo(Hosts, 2, HostStage')
  <2>1. 2 \in Nat \ {0} /\ IsFiniteSet(Hosts)
    BY ScanNumbers
  <2> HIDE DEF HostStage
  <2>2. Todo(Hosts, 2, HostStage)' = Todo(Hosts, 2, HostStage')
    BY DEF Todo
  <2> QED
    BY <1>3, <2>1, <2>2, TodoCounted
<1>5. CASE Scan!Tick
  <2>1. pc' = pc /\ limit' = limit /\ clock' = clock + 1 /\ host' = host
    BY <1>5 DEF Scan!Tick
  <2>2. HostStage' = HostStage
    BY <2>1 DEF HostStage
  <2>3. Rank' = Rank
    BY <2>1 DEF Rank
  <2> HIDE DEF HostStage
  <2> QED
    BY <1>2, <1>4, <2>1, <2>2, <2>3
<1>6. ASSUME NEW h \in Hosts,
             \/ \E s \in {"running", "down"} : Scan!TakeUp(h, s)
             \/ \E s \in {"scanned", "timed out"} : Scan!HostEnds(h, s)
      PROVE  \/ Rank' < Rank
             \/ /\ Rank' = Rank
                /\ ((limit - clock) + Cardinality(Todo(Hosts, 2, HostStage)))'
                     < (limit - clock) + Cardinality(Todo(Hosts, 2, HostStage))
  <2>1. /\ pc' = pc /\ limit' = limit /\ clock' = clock
        /\ \/ /\ host[h] = "waiting"
              /\ \E s \in {"running", "down"} : host' = [host EXCEPT ![h] = s]
           \/ /\ host[h] = "running"
              /\ \E s \in {"scanned", "timed out"} : host' = [host EXCEPT ![h] = s]
    BY <1>6 DEF Scan!TakeUp, Scan!HostEnds
  <2>2. HostStage[h] < HostStage'[h]
    <3>1. \/ host[h] = "waiting" /\ host'[h] \in {"running", "down"}
          \/ host[h] = "running" /\ host'[h] \in {"scanned", "timed out"}
      BY <1>2, <1>6, <2>1
    <3>2. \/ host[h] = "waiting" /\ host'[h] # "waiting"
          \/ host[h] = "running" /\ host'[h] \notin {"waiting", "running"}
      BY <3>1, Zenon
    <3>3. /\ HostStage[h] = IF host[h] = "waiting" THEN 0 ELSE IF host[h] = "running" THEN 1 ELSE 2
          /\ HostStage'[h] = IF host'[h] = "waiting" THEN 0
                             ELSE IF host'[h] = "running" THEN 1 ELSE 2
      BY <1>6 DEF HostStage
    <3> QED
      BY <3>2, <3>3
  <2>3. \A u \in Hosts : u # h => HostStage'[u] = HostStage[u]
    BY <1>2, <2>1 DEF HostStage
  <2>4. Rank' = Rank
    BY <2>1 DEF Rank
  <2>5. 2 \in Nat \ {0} /\ IsFiniteSet(Hosts)
    BY ScanNumbers
  <2> HIDE DEF HostStage
  <2>6. Cardinality(Todo(Hosts, 2, HostStage')) < Cardinality(Todo(Hosts, 2, HostStage))
    BY <1>3, <2>2, <2>3, <2>5, StageReached
  <2>7. Cardinality(Todo(Hosts, 2, HostStage)') < Cardinality(Todo(Hosts, 2, HostStage))
    BY <1>4, <2>6
  <2>8. limit' - clock' = limit - clock /\ limit - clock \in Int
    <3>1. limit' = limit /\ clock' = clock
      BY <2>1
    <3>2. limit \in Nat /\ clock \in Nat
      BY <1>2
    <3> QED
      BY <3>1, <3>2
  <2>9. Cardinality(Todo(Hosts, 2, HostStage)') \in Nat
    BY <1>4
  <2> HIDE DEF Todo
  <2> QED
    BY <1>4, <2>4, <2>7, <2>8, <2>9
<1> QED
  BY <1>1, <1>5, <1>6 DEF Scan!Next

Active == {"called", "https", "narrow", "email", "domain", "http", "broad", "pastes", "body",
           "lines", "reading", "collect", "scan", "fingerprint", "parse", "judge", "signals"}

LEMMA RankTyped == TypeOK => Rank \in 0..6 /\ (Rank = 0 <=> Ended)
<1> SUFFICES ASSUME TypeOK PROVE Rank \in 0..6 /\ (Rank = 0 <=> Ended)
  OBVIOUS
<1>1. pc \in Active \cup {"failed", "timed out", "done"}
  BY Zenon DEF TypeOK, Tools, Active, Robots!TypeOK, Tech!TypeOK, Cloud!TypeOK, Asn!TypeOK,
     Cve!TypeOK, Cert!TypeOK, Scan!TypeOK, Ssl!TypeOK, Ip!TypeOK, Hibp!TypeOK, Whois!TypeOK,
     Sec!TypeOK
<1>2. pc \in Active <=> ~Ended
  BY <1>1, Zenon DEF Active, Ended
<1>3. Rank \in 0..6 /\ (Rank = 0 <=> pc \notin Active)
  BY DEF Rank, Active
<1> QED
  BY <1>2, <1>3

LEMMA WorkTyped == CallInv /\ TypeOK => Work \in Nat
<1> SUFFICES ASSUME CallInv, TypeOK PROVE Work \in Nat
  OBVIOUS
<1>1. CASE tool = "robots_txt_inspect"
  <2>1. RobotsLines \in Nat /\ Len(file) \in Nat /\ Len(file) <= RobotsLines
    BY <1>1, ToolAssumption DEF Robots!ParserAssumption, TypeOK, Robots!TypeOK
  <2> QED
    BY <1>1, <2>1 DEF Work
<1>2. CASE tool = "cert_transparency"
  <2>1. LogLines \in Nat /\ Len(log) \in Nat /\ Len(log) <= LogLines
    BY <1>2, ToolAssumption DEF Cert!CertAssumption, TypeOK, Cert!TypeOK
  <2> QED
    BY <1>2, <2>1 DEF Work
<1>3. CASE tool = "tech_stack_detect"
  <2>1. /\ MaxBody \in Nat /\ arrived \in Seq(Tech!Units) /\ body \in Seq(Tech!Units)
        /\ body = SubSeq(arrived, 1, IF Len(arrived) < MaxBody THEN Len(arrived) ELSE MaxBody)
    BY <1>3, ToolAssumption DEF Tech!TechAssumption, CallInv, TechInv
  <2>2. Len(body) \in Nat /\ Len(body) <= MaxBody
    BY <2>1
  <2> QED
    BY <1>3, <2>1, <2>2 DEF Work
<1>4. CASE tool = "cloud_exposure_check"
  <2>1. IsFiniteSet(buckets) /\ BucketStage \in [buckets -> 0..3] /\ 3 \in Nat \ {0}
    BY <1>4, CloudCounted DEF CallInv
  <2>2. Cardinality(Todo(buckets, 3, BucketStage)) \in Nat
    <3> HIDE DEF BucketStage
    <3> QED
      BY <2>1, TodoCounted
  <2> QED
    BY <1>4, <2>2 DEF Work
<1>5. CASE tool = "port_scan"
  <2>1. HostStage \in [Hosts -> 0..2]
    BY DEF HostStage
  <2>2. Cardinality(Todo(Hosts, 2, HostStage)) \in Nat
    <3>1. 2 \in Nat \ {0} /\ IsFiniteSet(Hosts)
      BY ScanNumbers
    <3> HIDE DEF HostStage
    <3> QED
      BY <2>1, <3>1, TodoCounted
  <2>3. limit \in Nat /\ clock \in 0..limit
    BY <1>5 DEF TypeOK, Scan!TypeOK
  <2>4. limit - clock \in Nat
    BY <2>3
  <2>5. Work = (limit - clock) + Cardinality(Todo(Hosts, 2, HostStage))
    BY <1>5 DEF Work
  <2> QED
    BY <2>2, <2>4, <2>5
<1> QED
  BY <1>1, <1>2, <1>3, <1>4, <1>5 DEF Work

LEMMA StepsRun ==
  /\ CallInv /\ TypeOK /\ CallInv' /\ [Next]_vars
  => [Closer \/ (AsnService /\ UNCHANGED <<Rank, Work>>)]_vars
<1> SUFFICES ASSUME CallInv, TypeOK, CallInv', Next, ~UNCHANGED vars
             PROVE  Closer \/ (AsnService /\ UNCHANGED <<Rank, Work>>)
  BY DEF Next, Terminated
<1>1. CASE AsnService
  <2>1. tool = "asn_lookup" /\ tool' = tool /\ pc' = pc
    BY <1>1 DEF AsnService, Asn!Service, Asn!PeerStops, Asn!Recv
  <2>2. Rank' = Rank
    BY <2>1 DEF Rank
  <2>3. Work = 0 /\ Work' = 0
    BY <2>1 DEF Work
  <2> QED
    BY <1>1, <2>2, <2>3
<1>2. CASE \/ AsnCaller \/ CveSearch \/ Certificate \/ Reputation \/ Breaches \/ Registration
           \/ SecurityHeaders
  BY <1>2, StraightRuns DEF AsnCaller, CveSearch, Certificate, Reputation, Breaches,
     Registration, SecurityHeaders, Closer
<1>3. CASE RobotsTxtInspect
  <2>1. tool = "robots_txt_inspect" /\ tool' = tool /\ Robots!Next /\ Robots!TypeOK
    BY <1>3 DEF RobotsTxtInspect, TypeOK
  <2>2. Work = RobotsLines - Len(file) /\ Work' = RobotsLines - Len(file')
    BY <2>1 DEF Work
  <2> QED
    BY <2>1, <2>2, RobotsRuns DEF Closer
<1>4. CASE CertificateLog
  <2>1. tool = "cert_transparency" /\ tool' = tool /\ Cert!Next /\ Cert!TypeOK
    BY <1>4 DEF CertificateLog, TypeOK
  <2>2. Work = LogLines - Len(log) /\ Work' = LogLines - Len(log')
    BY <2>1 DEF Work
  <2> QED
    BY <2>1, <2>2, CertRuns DEF Closer
<1>5. CASE TechStackDetect
  <2>1. /\ tool = "tech_stack_detect" /\ Tech!Next /\ TechInv
        /\ UNCHANGED <<tool, robots, cloud, whose, cve, certs, scan, ssl, abuse, hibp, whois, security>>
    BY <1>5 DEF TechStackDetect, CallInv
  <2>2. ~UNCHANGED <<pc, tech>>
    BY <2>1 DEF vars
  <2>3. tool' = tool
    BY <2>1
  <2>4. Work = MaxBody - Len(body) /\ Work' = MaxBody - Len(body')
    BY <2>1, <2>3 DEF Work
  <2> QED
    BY <2>1, <2>2, <2>4, TechRuns DEF Closer
<1>6. CASE CloudExposureCheck
  <2>1. tool = "cloud_exposure_check" /\ tool' = tool /\ Cloud!Next /\ CloudInv /\ CloudInv'
    BY <1>6 DEF CloudExposureCheck, CallInv
  <2>2. /\ Work = Cardinality(Todo(buckets, 3, BucketStage))
        /\ Work' = Cardinality(Todo(buckets, 3, BucketStage))'
    BY <2>1 DEF Work
  <2>3. \/ Rank' < Rank
        \/ /\ Rank' = Rank
           /\ Cardinality(Todo(buckets, 3, BucketStage))'
                < Cardinality(Todo(buckets, 3, BucketStage))
    BY <2>1, CloudRuns
  <2> HIDE DEF Todo, BucketStage, Rank, Work
  <2> QED
    BY <2>2, <2>3 DEF Closer
<1>7. CASE NmapScan
  <2>1. tool = "port_scan" /\ tool' = tool /\ Scan!Next /\ ScanInv /\ Scan!TypeOK
    BY <1>7 DEF NmapScan, CallInv, TypeOK
  <2>2. /\ Work = (limit - clock) + Cardinality(Todo(Hosts, 2, HostStage))
        /\ Work' = ((limit - clock) + Cardinality(Todo(Hosts, 2, HostStage)))'
    BY <2>1 DEF Work
  <2>3. \/ Rank' < Rank
        \/ /\ Rank' = Rank
           /\ ((limit - clock) + Cardinality(Todo(Hosts, 2, HostStage)))'
                < (limit - clock) + Cardinality(Todo(Hosts, 2, HostStage))
    BY <2>1, ScanRuns
  <2> HIDE DEF Todo, HostStage, Rank, Work
  <2> QED
    BY <2>2, <2>3 DEF Closer
<1> QED
  BY <1>1, <1>2, <1>3, <1>4, <1>5, <1>6, <1>7 DEF Next, Tool, Terminated

(* The safety half of CallEnds, for every tool and whatever the services   *)
(* reply: each step of a tool brings its caller nearer to the end, or      *)
(* leaves less of the loop it is in: lines of a finite file or log, units  *)
(* of the body up to its limit, requests of the pool, nmap's hosts and the *)
(* time until it is killed.  Only the whois service takes steps that do    *)
(* not, which is why CallEnds asks of it to stop sending.                  *)
THEOREM CallsRunOut ==
  Spec => /\ [](Rank \in 0..6 /\ Work \in Nat /\ (Rank = 0 <=> Ended))
          /\ StepsRunOut
<1>1. CallInv /\ TypeOK => Rank \in 0..6 /\ Work \in Nat /\ (Rank = 0 <=> Ended)
  BY RankTyped, WorkTyped
<1> QED
  BY <1>1, Invariance, TypeCorrect, StepsRun, PTL DEF Spec, StepsRunOut
=============================================================================
