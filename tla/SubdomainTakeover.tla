-------------------------- MODULE SubdomainTakeover --------------------------
(***************************************************************************)
(* subdomain_takeover (src/tools/subdomain_takeover_tool.py): every        *)
(* subdomain that the DNS enumeration found is judged in turn from its     *)
(* CNAME chain (see CnameChain) and, if that names a known service, from   *)
(* an HTTP probe over https and then http.                                 *)
(*                                                                         *)
(* DNS and the servers answer each question as they like, a repeated one   *)
(* differently.  Every fingerprint names a status that is not a redirect   *)
(* and a body text.                                                        *)
(***************************************************************************)
EXTENDS Naturals, Sequences, FiniteSets

CONSTANTS NSubdomains,  \* how many subdomains the enumeration found
          MaxHops,      \* _MAX_REDIRECT_HOPS
          Paths,        \* paths of URLs
          None          \* Python's None

Subdomains == 1..NSubdomains

(* Hosts as the scope guard of _probe tells them apart: the subdomain      *)
(* probed, a name below it, any other, and a URL without a host name.      *)
Hosts == {"target", "below", "other", "nohost"}

URL == [scheme : {"https", "http"}, host : Hosts, path : Paths]

TakeoverAssumption == /\ NSubdomains \in Nat
                      /\ MaxHops \in Nat
                      /\ "/" \in Paths
                      /\ None \notin URL \cup {"high", "medium", "page", "redirect"}

OutOfScope(u) == u.host = "other"

Root(s) == CHOOSE u \in URL : u.scheme = s /\ u.host = "target" /\ u.path = "/"

Buckets == {"vulnerable", "not_vulnerable", "unknown"}

-----------------------------------------------------------------------------
VARIABLES pc,        \* control state
          sub,       \* the subdomain the loop is at
          bucket,    \* bucket[s]: the list subdomain s was put in
          confidence,\* confidence[s] of a vulnerable subdomain
          scheme,    \* the scheme _probe is trying
          current,   \* current_url
          trail,     \* redirect_chain of this scheme
          errors,    \* the schemes an error was recorded for, in order
          reply,     \* last_response: None, or whether it is a redirect
          rejected   \* rejected_redirect_url

probeVars == <<scheme, current, trail, errors, reply, rejected>>
vars == <<pc, sub, bucket, confidence, probeVars>>

Fresh(s) == /\ scheme' = s /\ current' = Root(s)
            /\ trail' = <<>> /\ reply' = None /\ rejected' = None

Init == /\ pc = "called" /\ sub = 1
        /\ bucket = [s \in Subdomains |-> "unjudged"]
        /\ confidence = [s \in Subdomains |-> None]
        /\ scheme = "https" /\ current = Root("https")
        /\ trail = <<>> /\ errors = <<>> /\ reply = None /\ rejected = None

(* The domain is not valid, or dns_enumeration reports no success.         *)
Refuse == /\ pc = "called"
          /\ pc' = "refused"
          /\ UNCHANGED <<sub, bucket, confidence, probeVars>>

Enumerated == /\ pc = "called"
              /\ pc' = "cname"
              /\ UNCHANGED <<sub, bucket, confidence, probeVars>>

Judge(b, c) == /\ bucket' = [bucket EXCEPT ![sub] = b]
               /\ confidence' = [confidence EXCEPT ![sub] = c]
               /\ sub' = sub + 1
               /\ pc' = "cname"

(* No CNAME: the subdomain serves itself.                                  *)
NoCname == /\ pc = "cname" /\ sub \in Subdomains
           /\ Judge("not_vulnerable", None)
           /\ UNCHANGED probeVars

(* Mutant: the subdomain gets into no list.                                *)
CnameDropped == /\ pc = "cname" /\ sub \in Subdomains
                /\ sub' = sub + 1
                /\ UNCHANGED <<pc, bucket, confidence, probeVars>>

(* The chain failed, loops or is cut, or leads to an unknown service.      *)
CnameUnclear == /\ pc = "cname" /\ sub \in Subdomains
                /\ Judge("unknown", None)
                /\ UNCHANGED probeVars

(* The CNAME matches a fingerprint; _probe first checks the subdomain's    *)
(* own addresses.                                                          *)
Suspect == /\ pc = "cname" /\ sub \in Subdomains
           /\ pc' = "precheck"
           /\ errors' = <<>>
           /\ Fresh("https")
           /\ UNCHANGED <<sub, bucket, confidence>>

PreCheckBlocks == /\ pc = "precheck"
                  /\ errors' = <<"all">>
                  /\ pc' = "unable"
                  /\ UNCHANGED <<sub, bucket, confidence, scheme, current, trail, reply, rejected>>

PreCheckPasses == /\ pc = "precheck"
                  /\ pc' = "hop"
                  /\ UNCHANGED <<sub, bucket, confidence, probeVars>>

(* The top of the redirect loop records the URL; its host is then checked  *)
(* (a URL without a host stands for the subdomain).                        *)
Visit == /\ pc = "hop"
         /\ trail' = Append(trail, current)
         /\ pc' = "check"
         /\ UNCHANGED <<sub, bucket, confidence, scheme, current, errors, reply, rejected>>

CheckPasses == /\ pc = "check"
               /\ pc' = "request"
               /\ UNCHANGED <<sub, bucket, confidence, probeVars>>

(* Mutant: no second scheme after the first has failed.                    *)
SchemeFailsForAll == /\ pc \in {"check", "request"}
                     /\ errors' = Append(errors, scheme)
                     /\ pc' = "unable"
                     /\ UNCHANGED <<sub, bucket, confidence, scheme, current, trail,
                                    reply, rejected>>

(* The hop's addresses are private, or the request raises: this scheme has *)
(* failed, whatever it answered before, and http starts from nothing.      *)
SchemeFails == /\ pc \in {"check", "request"}
               /\ errors' = Append(errors, scheme)
               /\ IF scheme = "https"
                  THEN Fresh("http") /\ pc' = "hop"
                  ELSE pc' = "unable" /\ UNCHANGED <<scheme, current, trail, reply, rejected>>
               /\ UNCHANGED <<sub, bucket, confidence>>

(* A request for a URL without a host always raises.                       *)
Answered == pc = "request" /\ current.host # "nohost"

Arrives == /\ Answered
           /\ reply' = "page"
           /\ pc' = "judge"
           /\ UNCHANGED <<sub, bucket, confidence, scheme, current, trail, errors, rejected>>

NoLocation == /\ Answered
              /\ reply' = "redirect"
              /\ pc' = "judge"
              /\ UNCHANGED <<sub, bucket, confidence, scheme, current, trail, errors, rejected>>

Visited == {trail[i] : i \in DOMAIN trail}

(* The Location leaves the scope: it is kept as evidence only.             *)
LeavesScope(u) == /\ Answered
                  /\ OutOfScope(u)
                  /\ reply' = "redirect" /\ rejected' = u
                  /\ pc' = "judge"
                  /\ UNCHANGED <<sub, bucket, confidence, scheme, current, trail, errors>>

LoopsBack(u) == /\ Answered
                /\ ~OutOfScope(u) /\ u \in Visited
                /\ reply' = "redirect"
                /\ pc' = "judge"
                /\ UNCHANGED <<sub, bucket, confidence, scheme, current, trail, errors, rejected>>

(* Mutant: no scope guard.                                                 *)
FollowsAnywhere(u) == /\ Answered /\ u \notin Visited
                      /\ reply' = "redirect" /\ current' = u
                      /\ pc' = IF Len(trail) <= MaxHops THEN "hop" ELSE "judge"
                      /\ UNCHANGED <<sub, bucket, confidence, scheme, trail, errors, rejected>>

(* hops counts the redirects followed; the loop ends above the limit.      *)
Follows(u) == /\ Answered
              /\ ~OutOfScope(u) /\ u \notin Visited
              /\ reply' = "redirect" /\ current' = u
              /\ pc' = IF Len(trail) <= MaxHops THEN "hop" ELSE "judge"
              /\ UNCHANGED <<sub, bucket, confidence, scheme, trail, errors, rejected>>

(* urljoin and urlparse raise ValueError on a malformed Location; nothing  *)
(* between them and the caller of the tool catches it.                     *)
BadLocation == /\ Answered
               /\ pc' = "raised"
               /\ UNCHANGED <<sub, bucket, confidence, probeVars>>

(* _confirms_takeover: the reply shows the indicator or does not; a        *)
(* redirect has the wrong status.  The confidence depends on whether the   *)
(* evidence ends on the subdomain's own host.                              *)
CrossHost == rejected # None \/ trail[Len(trail)].host # "target"

Confirm == /\ pc = "judge" /\ reply = "page"
           /\ Judge("vulnerable", IF CrossHost THEN "medium" ELSE "high")
           /\ UNCHANGED probeVars

NoIndicator == /\ pc = "judge"
               /\ Judge("not_vulnerable", None)
               /\ UNCHANGED probeVars

(* Mutant: a subdomain that cannot be probed is tried again.               *)
UnableRetries == /\ pc = "unable"
                 /\ bucket' = [bucket EXCEPT ![sub] = "unknown"]
                 /\ pc' = "cname"
                 /\ UNCHANGED <<sub, confidence, probeVars>>

Unable == /\ pc = "unable"
          /\ Judge("unknown", None)
          /\ UNCHANGED probeVars

Answer == /\ pc = "cname" /\ sub \notin Subdomains
          /\ pc' = "done"
          /\ UNCHANGED <<sub, bucket, confidence, probeVars>>

Ended == pc \in {"refused", "raised", "done"}

Terminated == Ended /\ UNCHANGED vars

Next == \/ Refuse \/ Enumerated \/ NoCname \/ CnameUnclear \/ Suspect
        \/ PreCheckBlocks \/ PreCheckPasses \/ Visit \/ CheckPasses \/ SchemeFails
        \/ Arrives \/ NoLocation \/ BadLocation
        \/ \E u \in URL : LeavesScope(u) \/ LoopsBack(u) \/ Follows(u)
        \/ Confirm \/ NoIndicator \/ Unable \/ Answer
        \/ Terminated

Spec == Init /\ [][Next]_vars

-----------------------------------------------------------------------------
TypeOK == /\ pc \in {"called", "refused", "cname", "precheck", "hop", "check", "request",
                     "judge", "unable", "raised", "done"}
          /\ sub \in 1..(NSubdomains + 1)
          /\ bucket \in [Subdomains -> Buckets \cup {"unjudged"}]
          /\ confidence \in [Subdomains -> {None, "high", "medium"}]
          /\ scheme \in {"https", "http"} /\ current \in URL
          /\ trail \in Seq(URL)
          /\ errors \in Seq({"all", "https", "http"})
          /\ reply \in {None, "page", "redirect"}
          /\ rejected \in URL \cup {None}

(* The scope guard holds for everything that is requested: a probe asks    *)
(* only the subdomain and names below it, no URL twice and no more than    *)
(* MaxHops redirects under one scheme, and a rejected Location is never    *)
(* among what it asked for.                                                *)
StaysInScope ==
  /\ Len(trail) <= MaxHops + 1
  /\ \A u \in Visited : u.host # "other"
  /\ \A i, j \in DOMAIN trail : trail[i] = trail[j] => i = j
  /\ rejected \notin Visited

(* A probe gives up only after both schemes have failed, once each, or     *)
(* when the subdomain was not to be contacted at all; an answer over http  *)
(* counts although https failed.                                           *)
UnableMeansBothFailed ==
  /\ pc = "unable" => errors \in {<<"all">>, <<"https", "http">>}
  /\ pc = "judge" => /\ errors = IF scheme = "https" THEN <<>> ELSE <<"https">>
                     /\ reply # None

(* Every subdomain ends in exactly one of the three lists, and no verdict  *)
(* is revised: judged ones stay, and the answer has judged all.            *)
JudgedOnce ==
  [][\A s \in Subdomains : bucket[s] # "unjudged" =>
        bucket'[s] = bucket[s] /\ confidence'[s] = confidence[s]]_vars

AllJudged == pc = "done" => \A s \in Subdomains :
  /\ bucket[s] \in Buckets
  /\ (confidence[s] # None) <=> (bucket[s] = "vulnerable")

(* CONTRIBUTING.md: malformed upstream responses must be caught and        *)
(* returned as structured error payloads.                                  *)
MalformedRepliesCaught == pc # "raised"
=============================================================================
