----------------------- MODULE SubdomainTakeoverProofs -----------------------
(***************************************************************************)
(* Proofs about the takeover scans of SiteCalls (its instance Takeover of  *)
(* SubdomainTakeover), for every number of subdomains, every limit on      *)
(* redirects (SiteAssumption) and whatever DNS and the servers answer.     *)
(*                                                                         *)
(* The argument has three parts, each kept by every step: what has been    *)
(* visited is in scope and the URL to visit next is fresh; the errors say  *)
(* which scheme is being tried; and exactly the subdomains before the loop *)
(* variable are judged.                                                    *)
(***************************************************************************)
EXTENDS SiteCalls, TLAPS

Probing == {"precheck", "hop", "check", "request", "judge", "unable"}

(* The part of the probe.                                                  *)
Scope ==
  /\ Takeover!StaysInScope
  /\ rejected # None => rejected.host = "other"
  /\ pc \in {"precheck", "hop"} => /\ probeUrl.host # "other"
                                   /\ probeUrl \notin Takeover!Visited
                                   /\ Len(trail) <= ProbeHops

(* The part of the schemes.                                                *)
Schemes ==
  /\ pc = "precheck" => errors = <<>> /\ scheme = "https"
  /\ pc \in {"hop", "check", "request", "judge"} =>
       errors = IF scheme = "https" THEN <<>> ELSE <<"https">>
  /\ pc = "judge" => reply # None
  /\ pc = "unable" => errors \in {<<"all">>, <<"https", "http">>}

(* The part of the loop over the subdomains.                               *)
Verdicts ==
  /\ pc \in Probing => sub \in Takeover!Subdomains
  /\ pc = "done" => sub = NSubdomains + 1
  /\ \A s \in Takeover!Subdomains : (bucket[s] = "unjudged") <=> (s >= sub)
  /\ \A s \in Takeover!Subdomains : (confidence[s] # None) <=> (bucket[s] = "vulnerable")

ScanInv == Takeover!TypeOK /\ Scope /\ Schemes /\ Verdicts

-----------------------------------------------------------------------------
LEMMA RootInScope ==
  ASSUME Takeover!TakeoverAssumption, NEW s \in {"https", "http"}
  PROVE  Takeover!Root(s) \in Takeover!URL /\ Takeover!Root(s).host = "target"
<1>1. [scheme |-> s, host |-> "target", path |-> "/"] \in Takeover!URL
  BY DEF Takeover!TakeoverAssumption, Takeover!URL, Takeover!Hosts
<1> QED
  BY <1>1 DEF Takeover!Root

(* A scheme starts from nothing.                                           *)
LEMMA FreshInScope ==
  ASSUME Takeover!TakeoverAssumption, NEW s \in {"https", "http"}, Takeover!Fresh(s)
  PROVE  /\ scheme' = s /\ probeUrl' \in Takeover!URL /\ probeUrl'.host = "target"
         /\ trail' = <<>> /\ trail' \in Seq(Takeover!URL) /\ Len(trail') = 0
         /\ Takeover!Visited' = {}
         /\ reply' = None /\ rejected' = None
         /\ Takeover!StaysInScope'
<1>1. /\ scheme' = s /\ probeUrl' = Takeover!Root(s)
      /\ trail' = <<>> /\ reply' = None /\ rejected' = None
  BY DEF Takeover!Fresh
<1>2. DOMAIN trail' = {} /\ Len(trail') = 0 /\ trail' \in Seq(Takeover!URL)
  BY <1>1
<1>3. Takeover!Visited' = {}
  BY <1>2 DEF Takeover!Visited
<1> QED
  BY <1>1, <1>2, <1>3, RootInScope DEF Takeover!TakeoverAssumption, Takeover!StaysInScope

LEMMA InitInv == ASSUME Takeover!TakeoverAssumption PROVE Takeover!Init => ScanInv
<1> SUFFICES ASSUME Takeover!Init PROVE ScanInv
  OBVIOUS
<1>1. trail = <<>> /\ DOMAIN trail = {} /\ Len(trail) = 0 /\ Takeover!Visited = {}
  BY DEF Takeover!Init, Takeover!Visited
<1>2. Takeover!TypeOK
  BY <1>1, RootInScope DEF Takeover!TakeoverAssumption, Takeover!Init, Takeover!TypeOK,
     Takeover!Subdomains
<1>3. Scope
  BY <1>1 DEF Takeover!TakeoverAssumption, Takeover!Init, Scope, Takeover!StaysInScope
<1>4. Schemes /\ Verdicts
  BY DEF Takeover!TakeoverAssumption, Takeover!Init, Schemes, Verdicts, Probing,
         Takeover!Subdomains
<1> QED
  BY <1>2, <1>3, <1>4 DEF ScanInv

(* A verdict is for the subdomain the loop is at, which had none.          *)
LEMMA JudgeStep ==
  ASSUME Takeover!TakeoverAssumption, ScanInv,
         NEW b \in Takeover!Buckets, NEW c \in {None, "high", "medium"},
         c # None <=> b = "vulnerable",
         sub \in Takeover!Subdomains, Takeover!Judge(b, c), UNCHANGED Takeover!probeVars
  PROVE  /\ ScanInv'
         /\ \A s \in Takeover!Subdomains : bucket[s] # "unjudged" =>
                bucket'[s] = bucket[s] /\ confidence'[s] = confidence[s]
<1> USE DEF ScanInv
<1>1. /\ bucket' = [bucket EXCEPT ![sub] = b]
      /\ confidence' = [confidence EXCEPT ![sub] = c]
      /\ sub' = sub + 1 /\ pc' = "cname"
      /\ UNCHANGED <<scheme, probeUrl, trail, errors, reply, rejected>>
  BY DEF Takeover!Judge, Takeover!probeVars
<1>2. /\ bucket \in [Takeover!Subdomains -> Takeover!Buckets \cup {"unjudged"}]
      /\ confidence \in [Takeover!Subdomains -> {None, "high", "medium"}]
      /\ NSubdomains \in Nat /\ sub \in 1..NSubdomains
  BY DEF Takeover!TakeoverAssumption, Takeover!TypeOK, Takeover!Subdomains
<1>3. Takeover!TypeOK'
  BY <1>1, <1>2 DEF Takeover!TypeOK
<1>4. Scope'
  BY <1>1 DEF Scope, Takeover!StaysInScope, Takeover!Visited
<1>5. Schemes'
  BY <1>1 DEF Schemes
<1>6. \A s \in Takeover!Subdomains : bucket'[s] = (IF s = sub THEN b ELSE bucket[s])
                                     /\ confidence'[s] = (IF s = sub THEN c ELSE confidence[s])
  BY <1>1, <1>2
<1>7. b # "unjudged"
  BY DEF Takeover!Buckets
<1>8. \A s \in Takeover!Subdomains : (bucket'[s] = "unjudged") <=> (s >= sub')
  BY <1>1, <1>2, <1>6, <1>7 DEF Verdicts, Takeover!Subdomains
<1>9. \A s \in Takeover!Subdomains : (confidence'[s] # None) <=> (bucket'[s] = "vulnerable")
  BY <1>6 DEF Verdicts
<1>10. Verdicts'
  BY <1>1, <1>8, <1>9 DEF Verdicts, Probing
<1>11. bucket[sub] = "unjudged"
  BY <1>2 DEF Verdicts
<1> QED
  BY <1>3, <1>4, <1>5, <1>6, <1>10, <1>11

Verdict == \/ Takeover!NoCname \/ Takeover!CnameUnclear \/ Takeover!Confirm
           \/ Takeover!NoIndicator \/ Takeover!Unable

LEMMA VerdictStep ==
  ASSUME Takeover!TakeoverAssumption, ScanInv, Verdict
  PROVE  /\ ScanInv'
         /\ \A s \in Takeover!Subdomains : bucket[s] # "unjudged" =>
                bucket'[s] = bucket[s] /\ confidence'[s] = confidence[s]
<1>1. sub \in Takeover!Subdomains /\ UNCHANGED Takeover!probeVars
  BY DEF Verdict, Takeover!NoCname, Takeover!CnameUnclear, Takeover!Confirm,
         Takeover!NoIndicator, Takeover!Unable, ScanInv, Verdicts, Probing
<1>2. PICK b \in Takeover!Buckets, c \in {None, "high", "medium"} :
        (c # None <=> b = "vulnerable") /\ Takeover!Judge(b, c)
  <2>1. CASE Takeover!Confirm
    <3>1. PICK c \in {"high", "medium"} : Takeover!Judge("vulnerable", c)
      BY <2>1 DEF Takeover!Confirm
    <3>2. c # None
      BY DEF Takeover!TakeoverAssumption
    <3> QED
      BY <3>1, <3>2 DEF Takeover!Buckets
  <2>2. CASE Takeover!NoCname \/ Takeover!NoIndicator
    BY <2>2 DEF Takeover!NoCname, Takeover!NoIndicator, Takeover!Buckets
  <2>3. CASE Takeover!CnameUnclear \/ Takeover!Unable
    BY <2>3 DEF Takeover!CnameUnclear, Takeover!Unable, Takeover!Buckets
  <2> QED
    BY <2>1, <2>2, <2>3 DEF Verdict
<1> QED
  BY <1>1, <1>2, JudgeStep

(* Steps that judge nothing: the loop stays where it is.                   *)
LEMMA NoVerdict ==
  ASSUME Takeover!TakeoverAssumption, ScanInv, UNCHANGED <<sub, bucket, confidence>>,
         pc' \in Probing => sub \in Takeover!Subdomains,
         pc' = "done" => sub = NSubdomains + 1
  PROVE  Verdicts'
BY DEF ScanInv, Verdicts

(* Steps outside of a probe and into it.                                   *)
LEMMA LoopStep ==
  ASSUME Takeover!TakeoverAssumption, ScanInv,
         \/ Takeover!Refuse \/ Takeover!Enumerated \/ Takeover!Suspect
         \/ Takeover!PreCheckBlocks \/ Takeover!PreCheckPasses
         \/ Takeover!CheckPasses \/ Takeover!BadLocation \/ Takeover!Answer
  PROVE  ScanInv'
<1> USE DEF ScanInv
<1>1. Verdicts'
  <2>1. UNCHANGED <<sub, bucket, confidence>>
    BY DEF Takeover!Refuse, Takeover!Enumerated, Takeover!Suspect, Takeover!PreCheckBlocks,
           Takeover!PreCheckPasses, Takeover!CheckPasses, Takeover!BadLocation,
           Takeover!Answer
  <2>2. pc' \in Probing => sub \in Takeover!Subdomains
    BY DEF Takeover!Refuse, Takeover!Enumerated, Takeover!Suspect, Takeover!PreCheckBlocks,
           Takeover!PreCheckPasses, Takeover!CheckPasses, Takeover!BadLocation,
           Takeover!Answer, Verdicts, Probing
  <2>3. pc' = "done" => sub = NSubdomains + 1
    BY DEF Takeover!TakeoverAssumption, Takeover!Refuse, Takeover!Enumerated,
           Takeover!Suspect, Takeover!PreCheckBlocks, Takeover!PreCheckPasses,
           Takeover!CheckPasses, Takeover!BadLocation, Takeover!Answer, Takeover!TypeOK,
           Takeover!Subdomains
  <2> QED
    BY <2>1, <2>2, <2>3, NoVerdict
<1>2. CASE Takeover!Suspect
  <2>1. Takeover!Fresh("https") /\ errors' = <<>> /\ pc' = "precheck"
        /\ UNCHANGED <<sub, bucket, confidence>>
    BY <1>2 DEF Takeover!Suspect
  <2>2. /\ scheme' = "https" /\ probeUrl' \in Takeover!URL /\ trail' \in Seq(Takeover!URL)
        /\ reply' = None /\ rejected' = None /\ Takeover!StaysInScope'
        /\ probeUrl'.host # "other" /\ probeUrl' \notin Takeover!Visited'
        /\ Len(trail') <= ProbeHops
    BY <2>1, FreshInScope DEF Takeover!TakeoverAssumption
  <2> QED
    BY <1>1, <2>1, <2>2 DEF Takeover!TypeOK, Scope, Schemes
<1>3. CASE Takeover!Refuse \/ Takeover!Enumerated \/ Takeover!Answer \/ Takeover!BadLocation
  BY <1>1, <1>3 DEF Takeover!Refuse, Takeover!Enumerated, Takeover!Answer,
                    Takeover!BadLocation, Takeover!probeVars, Takeover!TypeOK, Scope,
                    Takeover!StaysInScope, Takeover!Visited, Schemes
<1>4. CASE Takeover!PreCheckBlocks
  <2>1. <<"all">> \in Seq({"all", "https", "http"})
    OBVIOUS
  <2> QED
    BY <1>1, <1>4, <2>1 DEF Takeover!PreCheckBlocks, Takeover!TypeOK, Scope,
                            Takeover!StaysInScope, Takeover!Visited, Schemes
<1>5. CASE Takeover!CheckPasses
  BY <1>1, <1>5 DEF Takeover!CheckPasses, Takeover!probeVars, Takeover!TypeOK, Scope,
                    Takeover!StaysInScope, Takeover!Visited, Schemes
<1>6. CASE Takeover!PreCheckPasses
  BY <1>1, <1>6 DEF Takeover!PreCheckPasses, Takeover!probeVars, Takeover!TypeOK, Scope,
                    Takeover!StaysInScope, Takeover!Visited, Schemes
<1> QED
  BY <1>2, <1>3, <1>4, <1>5, <1>6

(* The top of the redirect loop: a fresh URL in scope is added to those    *)
(* that were visited.                                                      *)
LEMMA VisitStep == ASSUME Takeover!TakeoverAssumption, ScanInv, Takeover!Visit PROVE ScanInv'
<1> USE DEF ScanInv
<1>1. /\ pc = "hop" /\ pc' = "check" /\ trail' = Append(trail, probeUrl)
      /\ UNCHANGED <<sub, bucket, confidence, scheme, probeUrl, errors, reply, rejected>>
  BY DEF Takeover!Visit
<1>2. trail \in Seq(Takeover!URL) /\ Len(trail) \in Nat /\ probeUrl \in Takeover!URL
  BY DEF Takeover!TypeOK
<1>3. /\ trail' \in Seq(Takeover!URL) /\ Len(trail') = Len(trail) + 1
      /\ DOMAIN trail' = 1..(Len(trail) + 1) /\ DOMAIN trail = 1..Len(trail)
      /\ trail'[Len(trail) + 1] = probeUrl
      /\ \A i \in 1..Len(trail) : trail'[i] = trail[i]
  BY <1>1, <1>2
<1>4. Takeover!Visited' = Takeover!Visited \cup {probeUrl}
  BY <1>2, <1>3 DEF Takeover!Visited
<1>5. probeUrl.host # "other" /\ probeUrl \notin Takeover!Visited /\ Len(trail) <= ProbeHops
  BY <1>1 DEF Scope
<1>6. Takeover!StaysInScope'
  <2>1. \A i, j \in DOMAIN trail' : trail'[i] = trail'[j] => i = j
    <3>1. \A i \in DOMAIN trail : trail[i] # probeUrl
      BY <1>5 DEF Takeover!Visited
    <3> QED
      BY <1>2, <1>3, <3>1 DEF Scope, Takeover!StaysInScope
  <2>2. rejected' \notin Takeover!Visited'
    BY <1>1, <1>2, <1>4, <1>5 DEF Takeover!TakeoverAssumption, Scope, Takeover!StaysInScope
  <2>3. Len(trail') <= ProbeHops + 1
    BY <1>2, <1>3, <1>5 DEF Takeover!TakeoverAssumption
  <2> QED
    BY <1>4, <1>5, <2>1, <2>2, <2>3 DEF Scope, Takeover!StaysInScope
<1>7. Verdicts'
  BY <1>1 DEF Verdicts, Probing
<1> QED
  BY <1>1, <1>3, <1>6, <1>7 DEF Takeover!TypeOK, Scope, Schemes

(* A scheme has failed; http follows https.                                *)
LEMMA SchemeStep ==
  ASSUME Takeover!TakeoverAssumption, ScanInv, Takeover!SchemeFails
  PROVE  ScanInv'
<1> USE DEF ScanInv
<1>1. /\ pc \in {"check", "request"} /\ errors' = Append(errors, scheme)
      /\ UNCHANGED <<sub, bucket, confidence>> /\ scheme \in {"https", "http"}
  BY DEF Takeover!SchemeFails, Takeover!TypeOK
<1>2. errors = IF scheme = "https" THEN <<>> ELSE <<"https">>
  BY <1>1 DEF Schemes
<1>3. errors' = IF scheme = "https" THEN <<"https">> ELSE <<"https", "http">>
  BY <1>1, <1>2
<1>4. errors' \in Seq({"all", "https", "http"})
  BY <1>1 DEF Takeover!TypeOK
<1>5. CASE scheme = "https"
  <2>1. Takeover!Fresh("http") /\ pc' = "hop"
    BY <1>5 DEF Takeover!SchemeFails
  <2>2. Verdicts'
    BY <1>1, <2>1 DEF Verdicts, Probing
  <2>3. /\ scheme' = "http" /\ probeUrl' \in Takeover!URL /\ probeUrl'.host = "target"
        /\ trail' \in Seq(Takeover!URL) /\ Len(trail') = 0 /\ Takeover!Visited' = {}
        /\ reply' = None /\ rejected' = None /\ Takeover!StaysInScope'
    BY <2>1, FreshInScope
  <2>4. Takeover!TypeOK'
    BY <1>1, <1>4, <2>1, <2>3 DEF Takeover!TypeOK
  <2>5. Scope' /\ Schemes'
    BY <1>3, <1>5, <2>1, <2>3 DEF Takeover!TakeoverAssumption, Scope, Schemes
  <2> QED
    BY <2>2, <2>4, <2>5
<1>6. CASE scheme # "https"
  <2>1. pc' = "unable" /\ UNCHANGED <<scheme, probeUrl, trail, reply, rejected>>
    BY <1>6 DEF Takeover!SchemeFails
  <2>2. Verdicts'
    BY <1>1, <2>1 DEF Verdicts, Probing
  <2>3. Takeover!TypeOK' /\ Scope'
    BY <1>1, <1>4, <2>1 DEF Takeover!TypeOK, Scope, Takeover!StaysInScope, Takeover!Visited
  <2>4. Schemes'
    BY <1>3, <1>6, <2>1 DEF Schemes
  <2> QED
    BY <2>2, <2>3, <2>4
<1> QED
  BY <1>5, <1>6

Reply == \/ Takeover!Arrives \/ Takeover!NoLocation
         \/ \E u \in Takeover!URL :
              Takeover!LeavesScope(u) \/ Takeover!LoopsBack(u) \/ Takeover!Follows(u)

(* What a server answers decides where the probe goes on.                  *)
LEMMA ReplyStep == ASSUME Takeover!TakeoverAssumption, ScanInv, Reply PROVE ScanInv'
<1> USE DEF ScanInv
<1>1. /\ pc = "request" /\ pc' \in {"hop", "judge"} /\ reply' \in {"page", "redirect"}
      /\ UNCHANGED <<sub, bucket, confidence, scheme, trail, errors>>
      /\ probeUrl' = probeUrl \/ probeUrl' \in Takeover!URL
      /\ rejected' = rejected \/ (rejected' \in Takeover!URL /\ rejected'.host = "other")
  BY DEF Reply, Takeover!Arrives, Takeover!NoLocation, Takeover!LeavesScope,
         Takeover!LoopsBack, Takeover!Follows, Takeover!Answered, Takeover!OutOfScope
<1>2. Verdicts'
  BY <1>1 DEF Verdicts, Probing
<1>3. Takeover!TypeOK'
  BY <1>1 DEF Takeover!TypeOK
<1>4. reply' # None
  BY <1>1 DEF Takeover!TakeoverAssumption
<1>5. Schemes'
  BY <1>1, <1>4 DEF Schemes
<1>6. Takeover!Visited' = Takeover!Visited
  BY <1>1 DEF Takeover!Visited
<1>7. Takeover!StaysInScope' /\ (rejected' # None => rejected'.host = "other")
  BY <1>1, <1>6 DEF Scope, Takeover!StaysInScope
<1>8. pc' = "hop" => /\ probeUrl'.host # "other" /\ probeUrl' \notin Takeover!Visited'
                     /\ Len(trail') <= ProbeHops
  BY <1>1, <1>6 DEF Reply, Takeover!Arrives, Takeover!NoLocation, Takeover!LeavesScope,
                    Takeover!LoopsBack, Takeover!Follows, Takeover!OutOfScope
<1>9. Scope'
  BY <1>1, <1>7, <1>8 DEF Scope
<1> QED
  BY <1>2, <1>3, <1>5, <1>9

LEMMA NextInv ==
  ASSUME Takeover!TakeoverAssumption, ScanInv, Takeover!Next \/ UNCHANGED Takeover!vars
  PROVE  ScanInv'
<1>1. CASE UNCHANGED Takeover!vars
  BY <1>1 DEF Takeover!vars, Takeover!probeVars, ScanInv, Takeover!TypeOK, Scope,
              Takeover!StaysInScope, Takeover!Visited, Schemes, Verdicts
<1>2. CASE Verdict
  BY <1>2, VerdictStep
<1> QED
  BY <1>1, <1>2, LoopStep, VisitStep, SchemeStep, ReplyStep
     DEF Takeover!Next, Takeover!Terminated, Verdict, Reply

(* A step of a call of this tool is a step of the tool.                    *)
LEMMA StepsAreOwn ==
  ASSUME [Next]_vars
  PROVE  /\ tool' = tool
         /\ UNCHANGED vars => UNCHANGED Takeover!vars
         /\ tool = "subdomain_takeover" /\ ~UNCHANGED vars
              => Takeover!Next /\ ~UNCHANGED Takeover!vars
BY DEF Next, TraceRedirects, HeadersAnalyzer, EmailSecurityCheck, SubdomainTakeoverScan,
       vars, redirects, headers, records, verdicts, Takeover!vars, Takeover!probeVars

LEMMA ScanInvariant == Spec => [](tool = "subdomain_takeover" => ScanInv)
<1>1. Takeover!TakeoverAssumption
  BY SiteAssumption
<1>2. Init => ScanInv
  BY <1>1, InitInv DEF Init
<1>3. (tool = "subdomain_takeover" => ScanInv) /\ [Next]_vars
        => (tool = "subdomain_takeover" => ScanInv)'
  BY <1>1, StepsAreOwn, NextInv
<1> QED
  BY <1>2, <1>3, PTL DEF Spec

-----------------------------------------------------------------------------
(* A scan keeps its types.                                                 *)
THEOREM TypeCorrect == Spec => [](tool = "subdomain_takeover" => Takeover!TypeOK)
<1>1. ScanInv => Takeover!TypeOK
  BY DEF ScanInv
<1> QED
  BY <1>1, ScanInvariant, PTL

(* A probe never asks a host out of scope, asks no URL twice under one     *)
(* scheme and follows at most ProbeHops redirects, whatever it is told.    *)
THEOREM ProbesStayInScope == Spec => []StaysInScope
<1>1. ScanInv => Takeover!StaysInScope
  BY DEF ScanInv, Scope
<1> QED
  BY <1>1, ScanInvariant, PTL DEF StaysInScope

(* A probe gives up only after https and http have failed, in this order,  *)
(* or when it was not to start.                                            *)
THEOREM UnableIsLastResort == Spec => []UnableMeansBothFailed
<1>1. ScanInv => Takeover!UnableMeansBothFailed
  BY DEF ScanInv, Schemes, Takeover!UnableMeansBothFailed
<1> QED
  BY <1>1, ScanInvariant, PTL DEF UnableMeansBothFailed

(* A scan that is answered has put every subdomain in one of its lists.    *)
THEOREM EverySubdomainJudged == Spec => []AllJudged
<1>1. ASSUME ScanInv PROVE Takeover!AllJudged
  <2> SUFFICES ASSUME pc = "done", NEW s \in Takeover!Subdomains
               PROVE  /\ bucket[s] \in Takeover!Buckets
                      /\ (confidence[s] # None) <=> (bucket[s] = "vulnerable")
    BY DEF Takeover!AllJudged
  <2>1. ~(s >= sub)
    BY <1>1, SiteAssumption DEF Takeover!TakeoverAssumption, ScanInv, Verdicts, Takeover!Subdomains
  <2>2. bucket[s] # "unjudged" /\ bucket[s] \in Takeover!Buckets \cup {"unjudged"}
    BY <1>1, <2>1 DEF ScanInv, Takeover!TypeOK, Verdicts
  <2> QED
    BY <1>1, <2>2 DEF ScanInv, Verdicts
<1> QED
  BY <1>1, ScanInvariant, PTL DEF AllJudged

(* No step revises a verdict.                                              *)
THEOREM VerdictsStand == Spec => JudgedOnce
<1> DEFINE Stands == \A s \in Takeover!Subdomains : bucket[s] # "unjudged" =>
                       bucket'[s] = bucket[s] /\ confidence'[s] = confidence[s]
<1>1. ASSUME ScanInv, Takeover!Next PROVE Stands
  <2>1. CASE Verdict
    BY <1>1, <2>1, SiteAssumption, VerdictStep
  <2>2. ASSUME ~Verdict PROVE UNCHANGED <<bucket, confidence>>
    BY <1>1, <2>2 DEF Takeover!Next, Takeover!Terminated, Verdict, Takeover!vars,
                      Takeover!Refuse, Takeover!Enumerated, Takeover!Suspect,
                      Takeover!PreCheckBlocks, Takeover!PreCheckPasses, Takeover!Visit,
                      Takeover!CheckPasses, Takeover!SchemeFails, Takeover!Arrives,
                      Takeover!NoLocation, Takeover!BadLocation, Takeover!LeavesScope,
                      Takeover!LoopsBack, Takeover!Follows, Takeover!Answer
  <2> QED
    BY <2>1, <2>2
<1>2. (tool = "subdomain_takeover" => ScanInv) /\ [Next]_vars => [Stands]_(Takeover!vars)
  <2> SUFFICES ASSUME tool = "subdomain_takeover" => ScanInv, Next
               PROVE  Stands \/ UNCHANGED Takeover!vars
    BY StepsAreOwn
  <2>1. CASE tool = "subdomain_takeover"
    BY <1>1, <2>1, StepsAreOwn
  <2>2. CASE tool # "subdomain_takeover"
    <3>1. UNCHANGED verdicts
      BY <2>2
      DEF Next, TraceRedirects, HeadersAnalyzer, EmailSecurityCheck, SubdomainTakeoverScan
    <3> QED
      BY <3>1 DEF verdicts
  <2> QED
    BY <2>1, <2>2
<1>3. Spec => [][Stands]_(Takeover!vars)
  BY <1>2, ScanInvariant, PTL DEF Spec
<1> QED
  BY <1>3 DEF JudgedOnce, Takeover!JudgedOnce

-----------------------------------------------------------------------------
(* How many steps the loop may still take for the subdomain it is at:      *)
(* three for each URL that a scheme may still visit, and those of http     *)
(* after those of https.                                                   *)
Budget == 3 * (ProbeHops + 2)

SchemeLeft == 3 * (ProbeHops + 2 - Len(trail)) + (IF scheme = "https" THEN Budget + 1 ELSE 0)

StepsLeft ==
  CASE pc = "called"   -> 2 * Budget + 4
    [] pc = "cname"    -> 2 * Budget + 3
    [] pc = "precheck" -> 2 * Budget + 2
    [] pc = "hop"      -> SchemeLeft
    [] pc = "check"    -> SchemeLeft + 2
    [] pc = "request"  -> SchemeLeft + 1
    [] pc \in {"judge", "unable"} -> 1
    [] OTHER           -> 0

(* Each step uses up one of these or goes on to the next subdomain.        *)
StepsRunOut == [][tool = "subdomain_takeover" =>
                    sub' = sub + 1 \/ (sub' = sub /\ StepsLeft' < StepsLeft)]_vars

LEMMA SchemeBounded ==
  ASSUME Takeover!TakeoverAssumption, ScanInv
  PROVE  /\ SchemeLeft \in Nat /\ Budget \in Nat /\ SchemeLeft >= 3
         /\ SchemeLeft <= 2 * Budget + 1
         /\ scheme = "https" => SchemeLeft >= Budget + 4
         /\ pc = "hop" => SchemeLeft >= 6
<1>1. /\ ProbeHops \in Nat /\ Len(trail) \in Nat /\ Len(trail) <= ProbeHops + 1
      /\ scheme \in {"https", "http"}
      /\ pc = "hop" => Len(trail) <= ProbeHops
  BY DEF Takeover!TakeoverAssumption, ScanInv, Takeover!TypeOK, Scope, Takeover!StaysInScope
<1> QED
  BY <1>1 DEF SchemeLeft, Budget

LEMMA StepsBounded ==
  ASSUME Takeover!TakeoverAssumption, ScanInv
  PROVE  StepsLeft \in 0..(2 * Budget + 4) /\ (StepsLeft = 0 <=> Takeover!Ended)
<1>1. pc \in {"called", "refused", "cname", "precheck", "hop", "check", "request", "judge",
             "unable", "raised", "done"}
  BY DEF ScanInv, Takeover!TypeOK
<1>2. /\ SchemeLeft \in Nat /\ Budget \in Nat
      /\ SchemeLeft >= 3 /\ SchemeLeft <= 2 * Budget + 1
  BY SchemeBounded
<1> HIDE DEF SchemeLeft, Budget
<1> QED
  BY <1>1, <1>2 DEF StepsLeft, Takeover!Ended

(* Fresh URLs get fewer as the probe goes on, and those of http are fewer  *)
(* than what is left of https at any time.                                 *)
LEMMA StepsRun ==
  ASSUME Takeover!TakeoverAssumption, ScanInv, ScanInv', Takeover!Next, ~UNCHANGED Takeover!vars
  PROVE  sub' = sub + 1 \/ (sub' = sub /\ StepsLeft' < StepsLeft)
<1>1. CASE Verdict
  BY <1>1 DEF Verdict, Takeover!NoCname, Takeover!CnameUnclear, Takeover!Confirm,
              Takeover!NoIndicator, Takeover!Unable, Takeover!Judge
<1>2. /\ SchemeLeft \in Nat /\ Budget \in Nat /\ SchemeLeft >= 3
      /\ SchemeLeft <= 2 * Budget + 1
      /\ scheme = "https" => SchemeLeft >= Budget + 4
      /\ pc = "hop" => SchemeLeft >= 6
  BY SchemeBounded
<1>3. SchemeLeft' \in Nat /\ SchemeLeft' <= 2 * Budget + 1 /\ (pc' = "hop" => SchemeLeft' >= 6)
  <2>1. /\ ProbeHops \in Nat /\ Len(trail') \in Nat /\ Len(trail') <= ProbeHops + 1
        /\ scheme' \in {"https", "http"}
        /\ pc' = "hop" => Len(trail') <= ProbeHops
    BY DEF Takeover!TakeoverAssumption, ScanInv, Takeover!TypeOK, Scope,
           Takeover!StaysInScope
  <2> QED
    BY <2>1 DEF SchemeLeft, Budget
<1>4. \/ Takeover!Refuse \/ Takeover!Enumerated \/ Takeover!Suspect
      \/ Takeover!PreCheckBlocks \/ Takeover!PreCheckPasses
      \/ Takeover!Visit \/ Takeover!CheckPasses \/ Takeover!SchemeFails
      \/ Takeover!BadLocation \/ Takeover!Answer \/ Reply \/ Verdict
  BY DEF Takeover!Next, Takeover!Terminated, Reply, Verdict
<1>5. CASE \/ Takeover!Refuse \/ Takeover!Enumerated \/ Takeover!Suspect
           \/ Takeover!PreCheckBlocks \/ Takeover!PreCheckPasses
           \/ Takeover!BadLocation \/ Takeover!Answer
  <2>1. /\ sub' = sub /\ Budget' = Budget
        /\ \/ pc = "called" /\ pc' \in {"refused", "cname"}
           \/ pc = "cname" /\ pc' \in {"precheck", "done"}
           \/ pc = "precheck" /\ pc' \in {"unable", "hop"}
           \/ pc = "request" /\ pc' = "raised"
    BY <1>5 DEF Takeover!Refuse, Takeover!Enumerated, Takeover!Suspect,
                Takeover!PreCheckBlocks, Takeover!PreCheckPasses, Takeover!BadLocation,
                Takeover!Answer, Takeover!Answered, Budget
  <2> HIDE DEF SchemeLeft, Budget
  <2> QED
    BY <1>2, <1>3, <2>1 DEF StepsLeft
<1>6. CASE Takeover!Visit
  <2>1. /\ sub' = sub /\ pc = "hop" /\ pc' = "check" /\ scheme' = scheme
        /\ Len(trail') = Len(trail) + 1 /\ Len(trail) \in Nat
    BY <1>6 DEF Takeover!Visit, ScanInv, Takeover!TypeOK
  <2>2. SchemeLeft' = SchemeLeft - 3
    BY <2>1 DEF Takeover!TakeoverAssumption, SchemeLeft, Budget
  <2> HIDE DEF SchemeLeft, Budget
  <2> QED
    BY <1>2, <2>1, <2>2 DEF StepsLeft
<1>7. CASE Takeover!CheckPasses \/ Reply
  <2>1. /\ sub' = sub /\ scheme' = scheme /\ trail' = trail
        /\ \/ pc = "check" /\ pc' = "request"
           \/ pc = "request" /\ pc' \in {"hop", "judge"}
    BY <1>7 DEF Takeover!CheckPasses, Reply, Takeover!Arrives, Takeover!NoLocation,
                Takeover!LeavesScope, Takeover!LoopsBack, Takeover!Follows,
                Takeover!Answered, Takeover!probeVars
  <2>2. SchemeLeft' = SchemeLeft
    BY <2>1 DEF SchemeLeft, Budget
  <2> HIDE DEF SchemeLeft, Budget
  <2> QED
    BY <1>2, <2>1, <2>2 DEF StepsLeft
<1>8. CASE Takeover!SchemeFails
  <2>1. sub' = sub /\ pc \in {"check", "request"} /\ pc' \in {"hop", "unable"}
    BY <1>8 DEF Takeover!SchemeFails
  <2>2. pc' = "hop" => scheme = "https" /\ SchemeLeft' = Budget
    <3>1. pc' = "hop" => scheme = "https" /\ scheme' = "http" /\ Len(trail') = 0
      BY <1>8 DEF Takeover!SchemeFails, Takeover!Fresh
    <3> QED
      BY <3>1 DEF Takeover!TakeoverAssumption, SchemeLeft, Budget
  <2> HIDE DEF SchemeLeft, Budget
  <2> QED
    BY <1>2, <2>1, <2>2 DEF StepsLeft
<1> QED
  BY <1>1, <1>4, <1>5, <1>6, <1>7, <1>8

(* A scan of finitely many subdomains is finite, whatever DNS and the      *)
(* servers answer, scheme after scheme and redirect after redirect: each   *)
(* step leaves fewer to come for its subdomain or goes on to the next, and *)
(* none is left only when the scan has ended.                              *)
THEOREM ScansRunOut ==
  Spec => /\ [](tool = "subdomain_takeover" => /\ StepsLeft \in 0..(2 * Budget + 4)
                                               /\ StepsLeft = 0 <=> Takeover!Ended
                                               /\ sub \in 1..(NSubdomains + 1))
          /\ StepsRunOut
<1>1. ScanInv => /\ StepsLeft \in 0..(2 * Budget + 4) /\ (StepsLeft = 0 <=> Takeover!Ended)
                 /\ sub \in 1..(NSubdomains + 1)
  BY SiteAssumption, StepsBounded DEF ScanInv, Takeover!TypeOK
<1>2. /\ tool = "subdomain_takeover" => ScanInv
      /\ (tool = "subdomain_takeover" => ScanInv)'
      /\ [Next]_vars
      => [tool = "subdomain_takeover" =>
            sub' = sub + 1 \/ (sub' = sub /\ StepsLeft' < StepsLeft)]_vars
  BY SiteAssumption, StepsAreOwn, StepsRun
<1> QED
  BY <1>1, <1>2, ScanInvariant, PTL DEF Spec, StepsRunOut
=============================================================================
